------------------------- MODULE SessionGatewayProofs ------------------------
(***************************************************************************)
(* Proofs about SessionGateway, for any number of requests, keys, tokens,  *)
(* faults and restarts.                                                    *)
(***************************************************************************)
EXTENDS SessionGateway, TLAPS

-----------------------------------------------------------------------------
(* Sessions.                                                               *)

LEMMA FreshFacts == \A k \in 0..MaxTokens : Fresh(k) \in Session
BY DEF Fresh, Session, Token

LEMMA PendingFacts ==
  ASSUME NEW s \in Session, NEW k \in 0..MaxTokens
  PROVE  /\ [s EXCEPT !.pending = k] \in Session
         /\ [s EXCEPT !.pending = k].pending = k
         /\ [s EXCEPT !.pending = k].decided = s.decided
BY DEF Session

LEMMA DecideFacts ==
  ASSUME NEW s \in Session, s.pending # 0, NEW a \in Decision
  PROVE  /\ Decide(s, a) \in Session /\ Decide(s, a).pending = 0
         /\ \A k \in Token : Decide(s, a).decided[k] = IF k = s.pending THEN a ELSE s.decided[k]
<1>1. s.pending \in Token
  BY BoundAssumption DEF Session, Token
<1>2. PICK d \in [Token -> Decision \cup {"none"}] : d = [s.decided EXCEPT ![s.pending] = a]
  BY <1>1 DEF Session
<1>3. \A k \in Token : d[k] = IF k = s.pending THEN a ELSE s.decided[k]
  BY <1>2 DEF Session
<1>4. Decide(s, a) = [s EXCEPT !.decided = d, !.pending = 0]
  BY <1>2 DEF Decide, Session
<1>5. Decide(s, a) = [pending |-> 0, decided |-> d]
  BY <1>4 DEF Session
<1>6. 0 \in 0..MaxTokens
  BY BoundAssumption
<1>7. Decide(s, a) \in Session /\ Decide(s, a).pending = 0 /\ Decide(s, a).decided = d
  BY <1>5, <1>6 DEF Session
<1>. QED BY <1>3, <1>7

LEMMA InputFacts ==
  ASSUME NEW i \in Input
  PROVE  i.token \in 0..MaxTokens /\ i.action # "none"
<1>1. "other" # "none" /\ \A a \in Actions : a # "none"
  BY ActionAssumption DEF Decision
<1>. QED BY <1>1, BoundAssumption DEF Input

(* What the helpers of the handlers do to a process's locals.              *)
LEMMA GotoFacts ==
  ASSUME TypeOK, NEW p \in Procs, NEW to, Goto(p, to)
  PROVE  /\ pc'[p] = to /\ \A q \in Procs : q # p => pc'[q] = pc[q]
         /\ to \in Phase \cup RunPhase => pc' \in [Procs -> Phase \cup RunPhase]
BY DEF TypeOK, Goto

LEMMA SettleFacts ==
  ASSUME TypeOK, NEW p \in Procs, NEW to, Settle(p, to)
  PROVE  /\ Goto(p, to) /\ then'[p] = "idle"
         /\ then' \in [Procs -> {"idle", "start", "record", "expired", "failed"}]
         /\ copy' \in [Procs -> Session] /\ pre' \in [Procs -> Session]
         /\ \A q \in Procs : q # p => /\ then'[q] = then[q] /\ copy'[q] = copy[q]
                                      /\ pre'[q] = pre[q]
<1>1. Fresh(0) \in Session
  BY FreshFacts, BoundAssumption
<1>. QED BY <1>1 DEF TypeOK, Settle

LEMMA ThenPutFacts ==
  ASSUME TypeOK, NEW p \in Procs, NEW s \in Session,
         NEW there \in {"idle", "start", "record", "expired", "failed"}, ThenPut(p, s, there)
  PROVE  /\ Goto(p, "put") /\ then'[p] = there /\ copy'[p] = s /\ pre'[p] = copy[p]
         /\ then' \in [Procs -> {"idle", "start", "record", "expired", "failed"}]
         /\ copy' \in [Procs -> Session] /\ pre' \in [Procs -> Session]
         /\ \A q \in Procs : q # p => /\ then'[q] = then[q] /\ copy'[q] = copy[q]
                                      /\ pre'[q] = pre[q]
BY DEF TypeOK, ThenPut

LEMMA ReadFacts ==
  ASSUME TypeOK, NEW p \in Procs, NEW there, Get(p, there)
  PROVE  /\ Goto(p, there) /\ copy' \in [Procs -> Session]
         /\ \A q \in Procs : q # p => copy'[q] = copy[q]
         /\ dirty' = dirty \ {p} /\ stale' \in BOOLEAN
         /\ ~stale' => ~stale /\ copy'[p] = latest
         /\ faults' \in 0..MaxFaults /\ restarts' \in 0..MaxRestarts
<1>1. ASSUME NEW s \in Session, ReadFrom(p, s, there)
      PROVE  /\ Goto(p, there) /\ copy' \in [Procs -> Session]
             /\ \A q \in Procs : q # p => copy'[q] = copy[q]
             /\ dirty' = dirty \ {p} /\ stale' \in BOOLEAN
             /\ ~stale' => ~stale /\ copy'[p] = latest
  BY <1>1 DEF ReadFrom, TypeOK
<1>2. PrimaryFails(p) \/ UNCHANGED bounds => faults' \in 0..MaxFaults /\ restarts' \in 0..MaxRestarts
  BY BoundAssumption DEF PrimaryFails, Fault, bounds, TypeOK
<1>3. primary \in Session /\ (memory # NoSession => memory \in Session)
  BY DEF TypeOK
<1>. QED BY <1>1, <1>2, <1>3 DEF Get

LEMMA BoundFacts ==
  ASSUME TypeOK, NEW p, Fault \/ PrimaryFails(p) \/ UNCHANGED bounds
  PROVE  faults' \in 0..MaxFaults /\ restarts' \in 0..MaxRestarts
BY BoundAssumption DEF PrimaryFails, Fault, bounds, TypeOK

-----------------------------------------------------------------------------
(* Types, and where each Put leads.                                        *)

LEMMA TypeInit == Init => TypeOK /\ ThenOK
<1>. SUFFICES ASSUME Init PROVE TypeOK /\ ThenOK
  OBVIOUS
<1>1. Fresh(0) \in Session /\ Fresh(1) \in Session
  BY FreshFacts, BoundAssumption
<1>2. Blank \in Input
  BY DEF Blank, Input
<1>3. Run \in Procs /\ Requests \subseteq Procs /\ Run \notin Requests
  BY NameAssumption DEF Procs
<1>4. /\ pc \in [Procs -> Phase \cup RunPhase] /\ (\A r \in Requests : pc[r] \in Phase)
      /\ pc[Run] \in RunPhase
  BY <1>3 DEF Init, Phase, RunPhase
<1>5. /\ copy \in [Procs -> Session] /\ pre \in [Procs -> Session] /\ req \in [Requests -> Input]
      /\ then \in [Procs -> {"idle", "start", "record", "expired", "failed"}]
      /\ primary \in Session /\ memory \in Session \cup {NoSession} /\ latest \in Session
  BY <1>1, <1>2 DEF Init
<1>6. /\ registered \in BOOLEAN /\ stopped \in BOOLEAN /\ stale \in BOOLEAN /\ dirty \subseteq Procs
  BY DEF Init
<1>a. AnswersType
  <2>1. {<<"session", k>> : k \in Keys} \subseteq IdemKey
    BY DEF IdemKey
  <2>. QED BY <2>1 DEF Init, AnswersType
<1>7. issued \in 0..MaxTokens /\ faults \in 0..MaxFaults /\ restarts \in 0..MaxRestarts
  BY BoundAssumption DEF Init
<1>8. TypeOK
  BY <1>4, <1>5, <1>6, <1>7, <1>a DEF TypeOK
<1>9. ThenOK
  BY <1>3 DEF Init, ThenOK
<1>. QED BY <1>8, <1>9

LEMMA ProcFacts == Run \in Procs /\ Run \notin Requests /\ Requests \subseteq Procs
BY NameAssumption DEF Procs

(* A Put returns a request to its handler and the run to its end.          *)
LEMMA ReturnFacts ==
  ASSUME TypeOK, ThenOK, NEW p \in Procs, pc[p] \in {"put", "mirror"}, PutReturns(p)
  PROVE  /\ pc' \in [Procs -> Phase \cup RunPhase]
         /\ p \in Requests => pc'[p] \in Phase \ {"new", "put", "mirror", "create", "stop_get", "stop"}
         /\ p = Run => pc'[p] = "idle"
         /\ pc'[p] = then[p]
         /\ then' \in [Procs -> {"idle", "start", "record", "expired", "failed"}]
         /\ copy' \in [Procs -> Session] /\ pre' \in [Procs -> Session]
         /\ IF then[p] = "start" THEN then'[p] = "start" /\ copy'[p] = copy[p] /\ pre'[p] = pre[p]
                                 ELSE then'[p] = "idle"
         /\ \A q \in Procs : q # p => /\ pc'[q] = pc[q] /\ then'[q] = then[q]
                                      /\ copy'[q] = copy[q] /\ pre'[q] = pre[q]
<1>1. then[p] \in {"idle", "start", "record", "expired", "failed"}
  BY DEF TypeOK
<1>2. Goto(p, then[p])
  BY SettleFacts DEF PutReturns
<1>3. then[p] \in Phase \cup RunPhase
  BY <1>1 DEF Phase, Answer, RunPhase
<1>4. p \in Requests => then[p] \in Phase \ {"new", "put", "mirror", "create", "stop_get", "stop"}
  BY <1>1 DEF ThenOK, Phase, Answer
<1>5. p = Run => then[p] = "idle"
  BY DEF ThenOK
<1>6. CASE then[p] = "start"
  BY <1>2, <1>3, <1>4, <1>5, <1>6, GotoFacts DEF PutReturns, TypeOK
<1>7. CASE then[p] # "start"
  BY <1>2, <1>3, <1>4, <1>5, <1>7, GotoFacts, SettleFacts DEF PutReturns
<1>. QED BY <1>6, <1>7

LEMMA KeyFacts == ASSUME TypeOK, NEW r \in Requests PROVE IdempotencyKey(r) \in IdemKey
<1>1. req[r].key \in Keys \cup {NoKey}
  BY DEF TypeOK, Input
<1>. QED BY <1>1 DEF IdempotencyKey, KeyOf, IdemKey

(* Only Receive, Purge, Record, AnswerExpires and Restart touch the        *)
(* stored answers.                                                         *)
LEMMA AnswersSteps ==
  ASSUME [Next]_vars
  PROVE  \/ UNCHANGED answers
         \/ \E r \in Requests : Receive(r) \/ Purge(r) \/ Record(r)
         \/ \E k \in idem : AnswerExpires(k)
         \/ Restart
BY DEF Next, vars, Check, Create, StartSucceeds, StartFails, StopGet, StopActive,
       PutPrimary, PutMirror, RunGet, RunConfirms, RunCompletes, RunCancelled, RunLeaves

LEMMA AnswersTypeStep == ASSUME TypeOK, [Next]_vars PROVE AnswersType'
<1>. USE DEF AnswersType
<1>0. AnswersType
  BY DEF TypeOK
<1>1. CASE UNCHANGED answers
  BY <1>0, <1>1 DEF answers
<1>2. ASSUME NEW r \in Requests, Receive(r) PROVE AnswersType'
  BY <1>0, <1>2 DEF Receive
<1>3. ASSUME NEW r \in Requests, Purge(r) PROVE AnswersType'
  BY <1>0, <1>3 DEF Purge, AnsweredBut
<1>4. ASSUME NEW r \in Requests, Record(r) PROVE AnswersType'
  BY <1>0, <1>4, KeyFacts DEF Record
<1>5. ASSUME NEW k \in idem, AnswerExpires(k) PROVE AnswersType'
  BY <1>0, <1>5 DEF AnswerExpires, AnsweredBut
<1>6. CASE Restart
  BY <1>0, <1>6 DEF Restart
<1>. QED BY <1>1, <1>2, <1>3, <1>4, <1>5, <1>6, AnswersSteps

LEMMA TypeStep == TypeOK /\ ThenOK /\ [Next]_vars => TypeOK' /\ ThenOK'
<1>. SUFFICES ASSUME TypeOK, ThenOK, [Next]_vars PROVE TypeOK' /\ ThenOK'
  OBVIOUS
<1>. USE ProcFacts DEF stores, history, runVars, procVars
<1>b. UNCHANGED bounds => faults' = faults /\ restarts' = restarts
  BY DEF bounds
<1>a. AnswersType'
  BY AnswersTypeStep
<1>. USE <1>a
<1>1. ASSUME NEW r \in Requests, Receive(r) PROVE TypeOK' /\ ThenOK'
  <2>1. /\ faults' \in 0..MaxFaults /\ restarts' \in 0..MaxRestarts
        /\ copy' \in [Procs -> Session] /\ dirty' \subseteq Procs /\ stale' \in BOOLEAN
        /\ Goto(r, "check") \/ Goto(r, "notfound")
    BY <1>1, ReadFacts, BoundFacts DEF Receive, GetFails, TypeOK
  <2>2. /\ pc' \in [Procs -> Phase \cup RunPhase] /\ (\A q \in Requests : pc'[q] \in Phase)
        /\ pc'[Run] \in RunPhase /\ pc'[r] \in {"check", "notfound"}
        /\ \A q \in Procs : q # r => pc'[q] = pc[q]
    BY <2>1, GotoFacts DEF TypeOK, Phase, Answer
  <2>3. /\ req' \in [Requests -> Input] /\ pc[r] = "new"
        /\ \A q \in Requests : q # r => req'[q] = req[q]
    BY <1>1 DEF Receive, TypeOK
  <2>4. TypeOK'
    BY <1>1, <2>1, <2>2, <2>3 DEF Receive, TypeOK
  <2>5. ThenOK'
    BY <1>1, <2>2, <2>3 DEF Receive, ThenOK
  <2>. QED BY <2>4, <2>5
<1>2. ASSUME NEW r \in Requests, Check(r) \/ Purge(r) PROVE TypeOK' /\ ThenOK'
  <2>0. UNCHANGED <<stores, req, runVars, history, bounds>> /\ pc[r] \in {"check", "purge"}
    BY <1>2 DEF Check, Purge
  <2>1. ASSUME NEW to \in {"replayed", "create", "start", "stop_get", "refused"}, Settle(r, to),
               to \in {"create", "stop_get"} => req[r].kind # "resume"
        PROVE  TypeOK' /\ ThenOK'
    <3>1. to \in Phase \ {"new", "put", "mirror"}
      BY DEF Phase, Answer
    <3>2. TypeOK'
      BY <2>0, <2>1, <3>1, <1>b, SettleFacts, GotoFacts DEF TypeOK
    <3>3. ThenOK'
      BY <2>0, <2>1, SettleFacts, GotoFacts DEF ThenOK
    <3>. QED BY <3>2, <3>3
  <2>2. ASSUME NEW s \in Session, NEW there \in {"start", "expired"}, ThenPut(r, s, there),
               req[r].kind = "resume"
        PROVE  TypeOK' /\ ThenOK'
    <3>1. "put" \in Phase
      BY DEF Phase
    <3>2. TypeOK'
      BY <2>0, <2>2, <3>1, <1>b, ThenPutFacts, GotoFacts DEF TypeOK
    <3>3. ThenOK'
      BY <2>0, <2>2, ThenPutFacts, GotoFacts DEF ThenOK
    <3>. QED BY <3>2, <3>3
  <2>3. copy[r] \in Session /\ [copy[r] EXCEPT !.pending = 0] \in Session
    BY PendingFacts, BoundAssumption DEF TypeOK
  <2>4. ASSUME copy[r].pending # 0, req[r].action \in Decision
        PROVE  Decide(copy[r], req[r].action) \in Session
    BY <2>3, <2>4, DecideFacts
  <2>5. CASE req[r].kind = "resume" /\ ResumeDecides(r)
    BY <2>1, <2>2, <2>3, <2>4, <2>5 DEF ResumeDecides
  <2>6. CASE Goto(r, "purge") /\ UNCHANGED <<then, copy, pre>>
    <3>1. "purge" \in Phase
      BY DEF Phase
    <3>2. TypeOK'
      BY <2>0, <2>6, <3>1, <1>b, GotoFacts DEF TypeOK
    <3>3. ThenOK'
      BY <2>0, <2>6, GotoFacts DEF ThenOK
    <3>. QED BY <3>2, <3>3
  <2>. QED BY <1>2, <2>1, <2>5, <2>6 DEF Check, Purge, Proceed
<1>3. ASSUME NEW r \in Requests, Create(r) PROVE TypeOK' /\ ThenOK'
  <2>1. (Goto(r, "record") \/ Goto(r, "failed")) /\ pc[r] = "create"
    BY <1>3 DEF Create
  <2>2. "record" \in Phase /\ "failed" \in Phase
    BY DEF Phase, Answer
  <2>3. faults' \in 0..MaxFaults /\ restarts' \in 0..MaxRestarts
    BY <1>3, BoundFacts DEF Create
  <2>4. TypeOK'
    BY <1>3, <2>1, <2>2, <2>3, GotoFacts DEF Create, TypeOK
  <2>5. ThenOK'
    BY <1>3, <2>1, GotoFacts DEF Create, ThenOK
  <2>. QED BY <2>4, <2>5
<1>4. ASSUME NEW r \in Requests, StartSucceeds(r) PROVE TypeOK' /\ ThenOK'
  <2>1. "record" \in Phase /\ "get" \in RunPhase /\ Fresh(0) \in Session
    BY FreshFacts, BoundAssumption DEF Phase, RunPhase
  <2>2. /\ pc' \in [Procs -> Phase \cup RunPhase] /\ pc'[r] = "record" /\ pc'[Run] \in RunPhase
        /\ \A q \in Requests : q # r => pc'[q] = pc[q]
    BY <1>4, <2>1 DEF StartSucceeds, TypeOK
  <2>3. /\ then' \in [Procs -> {"idle", "start", "record", "expired", "failed"}]
        /\ then'[r] = "idle" /\ \A q \in Procs : q # r => then'[q] = then[q]
    BY <1>4 DEF StartSucceeds, TypeOK
  <2>4. copy' \in [Procs -> Session] /\ pre' \in [Procs -> Session]
    BY <1>4, <2>1 DEF StartSucceeds, TypeOK
  <2>5. TypeOK'
    BY <1>4, <2>1, <2>2, <2>3, <2>4, <1>b DEF StartSucceeds, TypeOK
  <2>6. ThenOK'
    BY <1>4, <2>2, <2>3 DEF StartSucceeds, ThenOK
  <2>. QED BY <2>5, <2>6
<1>5. ASSUME NEW r \in Requests, StartFails(r) PROVE TypeOK' /\ ThenOK'
  <2>1. "put" \in Phase /\ "failed" \in Phase /\ pre[r] \in Session
    BY DEF Phase, Answer, TypeOK
  <2>2. faults' \in 0..MaxFaults /\ restarts' \in 0..MaxRestarts
    BY <1>5, BoundFacts DEF StartFails
  <2>0. Settle(r, "failed") \/ (req[r].kind = "resume" /\ ThenPut(r, pre[r], "failed"))
    BY <1>5 DEF StartFails
  <2>a. UNCHANGED <<stores, req, runVars, history>>
    BY <1>5 DEF StartFails
  <2>3. /\ then' \in [Procs -> {"idle", "start", "record", "expired", "failed"}]
        /\ copy' \in [Procs -> Session] /\ pre' \in [Procs -> Session]
        /\ Goto(r, "failed") \/ Goto(r, "put")
    BY <2>0, <2>1, ThenPutFacts, SettleFacts
  <2>4. /\ pc' \in [Procs -> Phase \cup RunPhase] /\ pc'[r] \in Phase
        /\ \A q \in Procs : q # r => pc'[q] = pc[q]
    BY <2>1, <2>3, GotoFacts
  <2>5. TypeOK'
    BY <2>2, <2>3, <2>4, <2>a DEF TypeOK, stores, runVars, history
  <2>6. ThenOK'
    BY <1>5, <2>1, ThenPutFacts, SettleFacts, GotoFacts DEF StartFails, ThenOK
  <2>. QED BY <2>5, <2>6
<1>6. ASSUME NEW r \in Requests, StopGet(r) PROVE TypeOK' /\ ThenOK'
  <2>1. /\ faults' \in 0..MaxFaults /\ restarts' \in 0..MaxRestarts
        /\ copy' \in [Procs -> Session] /\ dirty' \subseteq Procs /\ stale' \in BOOLEAN
        /\ Goto(r, "stop") \/ Goto(r, "failed")
    BY <1>6, ReadFacts, BoundFacts DEF StopGet, GetFails, TypeOK
  <2>2. "stop" \in Phase /\ "failed" \in Phase
    BY DEF Phase, Answer
  <2>3. TypeOK'
    BY <1>6, <2>1, <2>2, GotoFacts DEF StopGet, TypeOK
  <2>4. ThenOK'
    BY <1>6, <2>1, GotoFacts DEF StopGet, ThenOK
  <2>. QED BY <2>3, <2>4
<1>7. ASSUME NEW r \in Requests, StopActive(r) PROVE TypeOK' /\ ThenOK'
  <2>1. "put" \in Phase /\ copy[r] \in Session
    BY DEF Phase, TypeOK
  <2>b. registered' \in BOOLEAN /\ stopped' \in BOOLEAN
    BY <1>7 DEF StopActive, TypeOK
  <2>c. /\ ThenPut(r, copy[r], "record")
        /\ UNCHANGED <<stores, req, issued, history, bounds>>
    BY <1>7 DEF StopActive
  <2>d. /\ then' \in [Procs -> {"idle", "start", "record", "expired", "failed"}]
        /\ copy' \in [Procs -> Session] /\ pre' \in [Procs -> Session] /\ Goto(r, "put")
    BY <2>1, <2>c, ThenPutFacts
  <2>e. /\ pc' \in [Procs -> Phase \cup RunPhase] /\ pc'[r] \in Phase
        /\ \A q \in Procs : q # r => pc'[q] = pc[q]
    BY <2>1, <2>d, GotoFacts
  <2>2. TypeOK'
    BY <2>b, <2>c, <2>d, <2>e, <1>b DEF TypeOK
  <2>3. ThenOK'
    BY <1>7, <2>1, ThenPutFacts, GotoFacts DEF StopActive, ThenOK
  <2>. QED BY <2>2, <2>3
<1>8. ASSUME NEW r \in Requests, Record(r) PROVE TypeOK' /\ ThenOK'
  <2>1. "ok" \in Phase
    BY DEF Phase, Answer
  <2>4. TypeOK'
    BY <1>8, <2>1, <1>b, GotoFacts DEF Record, TypeOK
  <2>5. ThenOK'
    BY <1>8, GotoFacts DEF Record, ThenOK
  <2>. QED BY <2>4, <2>5
<1>9. ASSUME NEW p \in Procs, PutPrimary(p) PROVE TypeOK' /\ ThenOK'
  <2>1. /\ latest' \in Session /\ stale' \in BOOLEAN /\ dirty' \subseteq Procs
        /\ primary' \in Session /\ memory' \in Session \cup {NoSession}
        /\ faults' \in 0..MaxFaults /\ restarts' \in 0..MaxRestarts
    <3>1. latest' \in Session /\ stale' \in BOOLEAN /\ dirty' \subseteq Procs
      BY <1>9 DEF PutPrimary, Stored, TypeOK
    <3>2. primary' \in Session /\ memory' \in Session \cup {NoSession}
      BY <1>9 DEF PutPrimary, TypeOK
    <3>3. faults' \in 0..MaxFaults /\ restarts' \in 0..MaxRestarts
      BY <1>9, BoundFacts DEF PutPrimary
    <3>. QED BY <3>1, <3>2, <3>3
  <2>2. CASE PutReturns(p)
    <3>1. TypeOK'
      BY <1>9, <2>1, <2>2, ReturnFacts DEF PutPrimary, TypeOK, Procs, RunPhase
    <3>2. ThenOK'
      BY <1>9, <2>2, ReturnFacts DEF PutPrimary, ThenOK, Procs, Phase
    <3>. QED BY <3>1, <3>2
  <2>3. CASE Goto(p, "mirror") /\ UNCHANGED <<copy, then, pre>>
    <3>1. "mirror" \in Phase /\ "mirror" \in RunPhase
      BY DEF Phase, RunPhase
    <3>2. TypeOK'
      BY <1>9, <2>1, <2>3, <3>1, GotoFacts DEF PutPrimary, TypeOK
    <3>3. ThenOK'
      BY <1>9, <2>3, GotoFacts DEF PutPrimary, ThenOK
    <3>. QED BY <3>2, <3>3
  <2>. QED BY <1>9, <2>2, <2>3 DEF PutPrimary
<1>10. ASSUME NEW p \in Procs, PutMirror(p) PROVE TypeOK' /\ ThenOK'
  <2>1. TypeOK'
    BY <1>10, <1>b, ReturnFacts DEF PutMirror, TypeOK, Procs, RunPhase
  <2>2. ThenOK'
    BY <1>10, ReturnFacts DEF PutMirror, ThenOK, Procs, Phase
  <2>. QED BY <2>1, <2>2
<1>11. ASSUME NEW k \in idem, AnswerExpires(k) PROVE TypeOK' /\ ThenOK'
  BY <1>11, <1>b DEF AnswerExpires, TypeOK, ThenOK
<1>12. CASE RunGet
  <2>1. /\ faults' \in 0..MaxFaults /\ restarts' \in 0..MaxRestarts
        /\ copy' \in [Procs -> Session] /\ dirty' \subseteq Procs /\ stale' \in BOOLEAN
        /\ Goto(Run, "running") \/ Goto(Run, "idle")
    BY <1>12, ReadFacts, BoundFacts DEF RunGet, GetFails, TypeOK
  <2>2. "running" \in RunPhase /\ "idle" \in RunPhase
    BY DEF RunPhase
  <2>3. TypeOK'
    BY <1>12, <2>1, <2>2, GotoFacts DEF RunGet, TypeOK
  <2>4. ThenOK'
    BY <1>12, <2>1, GotoFacts DEF RunGet, ThenOK
  <2>. QED BY <2>3, <2>4
<1>13. CASE RunConfirms
  <2>1. "put" \in RunPhase /\ issued' \in 0..MaxTokens
        /\ [copy[Run] EXCEPT !.pending = issued + 1] \in Session
    BY <1>13, PendingFacts, BoundAssumption DEF RunConfirms, RunPhase, TypeOK
  <2>2. TypeOK'
    <3>1. /\ copy' \in [Procs -> Session] /\ pre' \in [Procs -> Session]
          /\ then' \in [Procs -> {"idle", "start", "record", "expired", "failed"}]
          /\ Goto(Run, "put")
      BY <1>13, <2>1, ThenPutFacts DEF RunConfirms, TypeOK
    <3>. QED BY <1>13, <2>1, <1>b, <3>1, GotoFacts DEF RunConfirms, TypeOK
  <2>3. ThenOK'
    BY <1>13, <2>1, ThenPutFacts, GotoFacts DEF RunConfirms, ThenOK
  <2>. QED BY <2>2, <2>3
<1>14. CASE RunCompletes
  <2>1. "put" \in RunPhase /\ copy[Run] \in Session
    BY DEF RunPhase, TypeOK
  <2>2. TypeOK'
    BY <1>14, <2>1, <1>b, ThenPutFacts, GotoFacts DEF RunCompletes, TypeOK
  <2>3. ThenOK'
    BY <1>14, <2>1, ThenPutFacts, GotoFacts DEF RunCompletes, ThenOK
  <2>. QED BY <2>2, <2>3
<1>15. CASE RunCancelled
  <2>1. "idle" \in RunPhase
    BY DEF RunPhase
  <2>2. TypeOK'
    BY <1>15, <2>1, <1>b, SettleFacts, GotoFacts DEF RunCancelled, TypeOK
  <2>3. ThenOK'
    BY <1>15, <2>1, SettleFacts, GotoFacts DEF RunCancelled, ThenOK
  <2>. QED BY <2>2, <2>3
<1>16. CASE RunLeaves
  BY <1>16, <1>b DEF RunLeaves, TypeOK, ThenOK
<1>17. CASE Restart
  <2>1. Fresh(0) \in Session /\ restarts' \in 0..MaxRestarts
    BY <1>17, FreshFacts, BoundAssumption DEF Restart, TypeOK
  <2>2. /\ pc' \in [Procs -> Phase \cup RunPhase] /\ pc'[Run] \in RunPhase
        /\ \A r \in Requests : pc'[r] \in Phase
    BY <1>17 DEF Restart, Phase, Answer, RunPhase
  <2>3. /\ then' = [p \in Procs |-> "idle"] /\ UNCHANGED req
        /\ \A r \in Requests : pc'[r] \in Answer \cup {"new"}
    BY <1>17 DEF Restart, Answer
  <2>4. TypeOK'
    BY <1>17, <2>1, <2>2, <2>3 DEF Restart, TypeOK
  <2>5. ThenOK'
    BY <2>3 DEF ThenOK, Answer
  <2>. QED BY <2>4, <2>5
<1>18. CASE UNCHANGED vars
  BY <1>18, <1>b DEF vars, TypeOK, ThenOK
<1>. QED BY <1>1, <1>2, <1>3, <1>4, <1>5, <1>6, <1>7, <1>8, <1>9, <1>10, <1>11, <1>12, <1>13,
            <1>14, <1>15, <1>16, <1>17, <1>18 DEF Next

-----------------------------------------------------------------------------
(* The approval handshake.                                                 *)

(* A process that takes no part in a step, and one whose part keeps the    *)
(* invariant: its copy is still what CopyOK says, it does not begin to     *)
(* count as deciding, and it stays accountable for what it was.            *)
SameAs(q) ==
  /\ pc'[q] = pc[q] /\ then'[q] = then[q] /\ copy'[q] = copy[q] /\ pre'[q] = pre[q]
  /\ q \in dirty' <=> q \in dirty
  /\ q \in Requests => req'[q] = req[q]
OwnOK(q) ==
  /\ q \notin dirty' => CopyOf(q)'
  /\ q \in Requests =>
       /\ Deciding(q)' => Deciding(q) /\ req'[q] = req[q]
       /\ Accountable(q) => Accountable(q)' /\ req'[q] = req[q]

LEMMA QuietStep ==
  ASSUME TypeOK, ThenOK, Handshake, UNCHANGED latest, issued' \in Nat, issued <= issued',
         \A q \in Procs : SameAs(q) \/ OwnOK(q)
  PROVE  Handshake'
<1>. USE ProcFacts
<1>1. \A q \in Requests : Deciding(q)' => Deciding(q) /\ req'[q] = req[q]
  BY DEF SameAs, OwnOK, Deciding, Started
<1>2. \A q \in Requests : Accountable(q) => Accountable(q)' /\ req'[q] = req[q]
  BY DEF SameAs, OwnOK, Accountable, Deciding, Started
<1>3. ASSUME NEW s, s.pending \in Nat, SoundSession(s, issued) PROVE SoundSession(s, issued')
  BY <1>3 DEF SoundSession, Token, TypeOK
<1>4. KeptOK'
  BY <1>1 DEF Handshake, KeptOK
<1>5. AccountOK'
  BY <1>2 DEF Handshake, AccountOK
<1>6. \A q \in Procs : copy[q].pending \in Nat /\ pre[q].pending \in Nat
  BY DEF TypeOK, Session
<1>7. SoundSession(latest, issued)'
  <2>1. latest.pending \in Nat
    BY DEF TypeOK, Session
  <2>. QED BY <1>3, <2>1 DEF Handshake
<1>8. CopyOK'
  <2>. SUFFICES ASSUME NEW p \in Procs, p \notin dirty' PROVE CopyOf(p)'
    BY DEF CopyOK
  <2>1. CASE OwnOK(p)
    BY <2>1 DEF OwnOK
  <2>2. CASE SameAs(p)
    <3>1. CopyOf(p)
      BY <2>2 DEF SameAs, Handshake, CopyOK
    <3>2. ASSUME pc[p] = "put" PROVE PutOK(p)'
      <4>1. PutOK(p) /\ SoundSession(copy[p], issued')
        BY <3>1, <3>2, <1>3, <1>6 DEF CopyOf, PutOK
      <4>2. then[p] \in {"start", "failed"} => p \in Requests
        BY DEF ThenOK, Procs
      <4>3. \A q \in Requests : Deciding(q)' => Deciding(q) /\ req'[q].token = req[q].token
        BY <1>1
      <4>. QED BY <2>2, <4>1, <4>2, <4>3 DEF SameAs, PutOK, DecidedBut
    <3>3. ASSUME p \in Requests, req[p].kind = "resume", Started(p)
          PROVE  (/\ copy[p] = latest /\ SoundSession(pre[p], issued)
                  /\ DecidedBut(pre[p], latest, req[p].token, "none"))'
      BY <2>2, <3>1, <3>3, <1>3, <1>6 DEF SameAs, CopyOf, DecidedBut
    <3>. QED BY <2>2, <3>1, <3>2, <3>3 DEF SameAs, CopyOf, Started
  <2>. QED BY <2>1, <2>2
<1>. QED BY <1>4, <1>5, <1>7, <1>8 DEF Handshake

(* A step of process p alone.                                              *)
LEMMA SoloStep ==
  ASSUME TypeOK, ThenOK, Handshake, UNCHANGED <<latest, issued>>, NEW p \in Procs,
         \A q \in Procs : q # p => SameAs(q), OwnOK(p)
  PROVE  Handshake'
<1>1. issued' \in Nat /\ issued <= issued'
  BY DEF TypeOK
<1>. QED BY <1>1, QuietStep

LEMMA HandshakeReceive ==
  ASSUME TypeOK, ThenOK, Handshake, ~stale', NEW r \in Requests, Receive(r)
  PROVE  Handshake'
<1>. USE ProcFacts DEF stores, history, runVars
<1>1. PICK i \in Input :
        /\ req' = [req EXCEPT ![r] = i]
        /\ IF i.kind = "create" THEN Goto(r, "check") /\ UNCHANGED <<copy, history, bounds>>
           ELSE \/ Get(r, "check")
                \/ GetFails(r) /\ Goto(r, "notfound") /\ UNCHANGED <<copy, history>>
  BY DEF Receive
<1>2. /\ pc'[r] \in {"check", "notfound"} /\ pc[r] = "new"
      /\ \A q \in Procs : q # r => /\ pc'[q] = pc[q] /\ copy'[q] = copy[q]
                                   /\ q \in dirty' <=> q \in dirty
      /\ pc'[r] = "check" /\ i.kind # "create" => copy'[r] = latest
  BY <1>1, ReadFacts, GotoFacts DEF Receive
<1>3. req'[r] = i /\ \A q \in Requests : q # r => req'[q] = req[q]
  BY <1>1 DEF TypeOK
<1>4. \A q \in Procs : q # r => SameAs(q)
  BY <1>2, <1>3 DEF Receive, SameAs
<1>5. OwnOK(r)
  BY <1>2, <1>3 DEF Receive, OwnOK, CopyOf, Started, Deciding, Accountable
<1>. QED BY <1>4, <1>5, SoloStep DEF Receive

LEMMA HandshakeCheck ==
  ASSUME TypeOK, ThenOK, Handshake, NEW r \in Requests, Check(r) \/ Purge(r)
  PROVE  Handshake'
<1>. USE ProcFacts DEF stores, history, runVars
<1>1. pc[r] \in {"check", "purge"} /\ UNCHANGED <<latest, issued, dirty, req>>
  BY DEF Check, Purge
<1>2. ASSUME NEW to \in {"replayed", "create", "start", "stop_get", "refused"}, Settle(r, to),
             to = "start" => req[r].kind # "resume"
      PROVE  Handshake'
  <2>1. pc'[r] = to /\ \A q \in Procs : q # r => SameAs(q)
    BY <1>1, <1>2, SettleFacts, GotoFacts DEF SameAs
  <2>2. OwnOK(r)
    BY <1>1, <1>2, <2>1 DEF OwnOK, CopyOf, Started, Deciding, Accountable
  <2>. QED BY <1>1, <2>1, <2>2, SoloStep
<1>3. ASSUME NEW s \in Session, NEW there \in {"start", "expired"}, ThenPut(r, s, there),
             req[r].kind = "resume",
             r \notin dirty =>
               /\ SoundSession(s, issued)
               /\ \/ there = "expired" /\ s.decided = latest.decided
                  \/ there = "start" /\ req[r].token = 0 /\ s.decided = latest.decided
                  \/ /\ there = "start" /\ req[r].token # 0 /\ latest.pending = req[r].token
                     /\ DecidedBut(s, latest, req[r].token, req[r].action)
      PROVE  Handshake'
  <2>1. /\ pc'[r] = "put" /\ then'[r] = there /\ copy'[r] = s /\ pre'[r] = copy[r]
        /\ \A q \in Procs : q # r => SameAs(q)
    BY <1>1, <1>3, ThenPutFacts, GotoFacts DEF SameAs
  <2>2. r \notin dirty => copy[r] = latest
    BY <1>1, <1>3 DEF Handshake, CopyOK, CopyOf
  <2>3. r \notin dirty => PutOK(r)'
    BY <1>1, <1>3, <2>1, <2>2 DEF PutOK, DecidedBut, SoundSession
  <2>4. OwnOK(r)
    BY <1>1, <1>3, <2>1, <2>3 DEF OwnOK, CopyOf, Started, Deciding, Accountable
  <2>. QED BY <1>1, <2>1, <2>4, SoloStep
<1>4. ASSUME req[r].kind = "resume", ResumeDecides(r) PROVE Handshake'
  <2>. DEFINE s == copy[r]
  <2>1. s \in Session /\ [s EXCEPT !.pending = 0] \in Session
    BY PendingFacts, BoundAssumption DEF TypeOK
  <2>2. r \notin dirty => s = latest /\ SoundSession(s, issued)
    BY <1>1, <1>4 DEF Handshake, CopyOK, CopyOf
  <2>3. CASE s.pending # 0 /\ ThenPut(r, [s EXCEPT !.pending = 0], "expired")
    <3>1. /\ [s EXCEPT !.pending = 0].pending = 0
          /\ [s EXCEPT !.pending = 0].decided = s.decided
      BY <2>1, PendingFacts, BoundAssumption
    <3>2. r \notin dirty => SoundSession([s EXCEPT !.pending = 0], issued)
      BY <2>2, <3>1 DEF SoundSession
    <3>. QED BY <1>3, <1>4, <2>1, <2>2, <2>3, <3>1, <3>2
  <2>4. CASE /\ s.pending # 0 /\ req[r].token = s.pending /\ req[r].action \in Decision
             /\ ThenPut(r, Decide(s, req[r].action), "start")
    <3>. DEFINE t == Decide(s, req[r].action)
    <3>1. /\ t \in Session /\ t.pending = 0
          /\ \A k \in Token : t.decided[k] = IF k = s.pending THEN req[r].action ELSE s.decided[k]
      BY <2>1, <2>4, DecideFacts
    <3>. HIDE DEF t
    <3>2. r \notin dirty => SoundSession(t, issued)
      BY <2>2, <2>4, <3>1 DEF SoundSession
    <3>3. r \notin dirty => DecidedBut(t, latest, req[r].token, req[r].action)
      BY <2>2, <2>4, <3>1 DEF DecidedBut
    <3>4. ThenPut(r, t, "start")
      BY <2>4 DEF t
    <3>. QED BY <1>3, <1>4, <2>2, <2>4, <3>1, <3>2, <3>3, <3>4
  <2>5. CASE s.pending = 0 /\ req[r].token = 0 /\ ThenPut(r, s, "start")
    BY <1>3, <1>4, <2>1, <2>2, <2>5
  <2>6. CASE Settle(r, "refused")
    BY <1>2, <2>6
  <2>. QED BY <1>4, <2>3, <2>4, <2>5, <2>6 DEF ResumeDecides
<1>5. CASE Goto(r, "purge") /\ UNCHANGED <<then, copy, pre>> /\ pc[r] = "check"
  <2>1. /\ pc'[r] = "purge" /\ then'[r] = then[r] /\ copy'[r] = copy[r]
        /\ \A q \in Procs : q # r => SameAs(q)
    BY <1>1, <1>5, GotoFacts DEF SameAs
  <2>2. r \notin dirty' => CopyOf(r)'
    BY <1>1, <1>5, <2>1 DEF Handshake, CopyOK, CopyOf, Started
  <2>3. OwnOK(r)
    BY <1>1, <1>5, <2>1, <2>2 DEF OwnOK, Started, Deciding, Accountable
  <2>. QED BY <1>1, <2>1, <2>3, SoloStep
<1>. QED BY <1>2, <1>4, <1>5 DEF Check, Purge, Proceed

LEMMA HandshakeStart ==
  ASSUME TypeOK, ThenOK, Handshake, NEW r \in Requests, StartSucceeds(r) \/ StartFails(r)
  PROVE  Handshake'
<1>. USE ProcFacts DEF stores, history, runVars
<1>1. pc[r] = "start" /\ UNCHANGED <<latest, issued, dirty, req>>
  BY DEF StartSucceeds, StartFails
<1>2. CASE StartSucceeds(r)
  <2>1. /\ pc'[r] = "record"
        /\ pc'[Run] = pc[Run] \/ pc'[Run] = "get"
        /\ \A q \in Requests : q # r => pc'[q] = pc[q]
    BY <1>2 DEF StartSucceeds, TypeOK
  <2>2. \A q \in Procs : q # r => then'[q] = then[q] /\ copy'[q] = copy[q] /\ pre'[q] = pre[q]
    BY <1>2 DEF StartSucceeds, TypeOK
  <2>3. \A q \in Requests : q # r => SameAs(q)
    BY <1>1, <2>1, <2>2 DEF SameAs
  <2>4. SameAs(Run) \/ OwnOK(Run)
    BY <1>1, <2>1, <2>2 DEF SameAs, OwnOK, CopyOf
  <2>5. OwnOK(r)
    BY <1>1, <2>1 DEF OwnOK, CopyOf, Started, Deciding, Accountable
  <2>6. \A q \in Procs : SameAs(q) \/ OwnOK(q)
    BY <2>3, <2>4, <2>5 DEF Procs
  <2>7. issued' \in Nat /\ issued <= issued'
    BY <1>1 DEF TypeOK
  <2>. QED BY <1>1, <2>6, <2>7, QuietStep
<1>3. CASE StartFails(r) /\ req[r].kind # "resume"
  <2>1. pc'[r] = "failed" /\ \A q \in Procs : q # r => SameAs(q)
    BY <1>1, <1>3, SettleFacts, GotoFacts DEF StartFails, SameAs
  <2>2. OwnOK(r)
    BY <1>1, <1>3, <2>1 DEF OwnOK, CopyOf, Started, Deciding, Accountable
  <2>. QED BY <1>1, <2>1, <2>2, SoloStep
<1>4. CASE StartFails(r) /\ req[r].kind = "resume"
  <2>1. pre[r] \in Session /\ ThenPut(r, pre[r], "failed")
    BY <1>4 DEF StartFails, TypeOK
  <2>2. /\ pc'[r] = "put" /\ then'[r] = "failed" /\ copy'[r] = pre[r] /\ pre'[r] = copy[r]
        /\ \A q \in Procs : q # r => SameAs(q)
    BY <1>1, <2>1, ThenPutFacts, GotoFacts DEF SameAs
  <2>3. \A q \in Requests : Deciding(q)' => q # r /\ Deciding(q)
    BY <1>1, <2>2 DEF SameAs, Deciding, Started
  <2>4. \A q \in Requests : Deciding(q)' => req[q].token # req[r].token
    BY <1>1, <1>4, <2>3 DEF Handshake, KeptOK, Deciding, Started
  <2>5. ASSUME r \notin dirty
        PROVE  /\ copy[r] = latest /\ SoundSession(pre[r], issued)
               /\ DecidedBut(pre[r], latest, req[r].token, "none")
    BY <1>1, <1>4, <2>5 DEF Handshake, CopyOK, CopyOf, Started
  <2>6. r \notin dirty => PutOK(r)'
    BY <1>1, <2>2, <2>4, <2>5 DEF PutOK, DecidedBut, SoundSession
  <2>7. OwnOK(r)
    BY <1>1, <1>4, <2>2, <2>6 DEF OwnOK, CopyOf, Started, Deciding, Accountable
  <2>. QED BY <1>1, <2>2, <2>7, SoloStep
<1>. QED BY <1>2, <1>3, <1>4

LEMMA HandshakeStop ==
  ASSUME TypeOK, ThenOK, Handshake, ~stale', NEW r \in Requests, StopGet(r) \/ StopActive(r)
  PROVE  Handshake'
<1>. USE ProcFacts DEF stores, history, runVars
<1>1. req[r].kind # "resume" /\ pc[r] \in {"stop_get", "stop"} /\ UNCHANGED <<latest, issued, req>>
  BY DEF StopGet, StopActive, ThenOK
<1>2. CASE StopGet(r)
  <2>1. /\ pc'[r] \in {"stop", "failed"} /\ (pc'[r] = "stop" => copy'[r] = latest)
        /\ \A q \in Procs : q # r => SameAs(q)
    BY <1>2, ReadFacts, GotoFacts DEF StopGet, SameAs
  <2>2. OwnOK(r)
    BY <1>1, <2>1 DEF OwnOK, CopyOf, Deciding, Accountable
  <2>. QED BY <1>1, <2>1, <2>2, SoloStep
<1>3. CASE StopActive(r)
  <2>1. copy[r] \in Session /\ ThenPut(r, copy[r], "record") /\ UNCHANGED dirty /\ pc[r] = "stop"
    BY <1>3 DEF StopActive, TypeOK
  <2>2. /\ pc'[r] = "put" /\ then'[r] = "record" /\ copy'[r] = copy[r] /\ pre'[r] = copy[r]
        /\ \A q \in Procs : q # r => SameAs(q)
    BY <1>1, <2>1, ThenPutFacts, GotoFacts DEF SameAs
  <2>3. r \notin dirty => PutOK(r)'
    BY <1>1, <2>1, <2>2 DEF Handshake, CopyOK, CopyOf, PutOK
  <2>4. OwnOK(r)
    BY <1>1, <2>1, <2>2, <2>3 DEF OwnOK, CopyOf, Deciding, Accountable
  <2>. QED BY <1>1, <2>2, <2>4, SoloStep
<1>. QED BY <1>2, <1>3

LEMMA HandshakeRecord ==
  ASSUME TypeOK, ThenOK, Handshake, NEW r \in Requests, Create(r) \/ Record(r)
  PROVE  Handshake'
<1>. USE ProcFacts DEF stores, history, runVars
<1>1. /\ UNCHANGED <<latest, issued, req, dirty>> /\ pc'[r] \in {"record", "failed", "ok"}
      /\ pc[r] = "create" \/ (pc[r] = "record" /\ pc'[r] = "ok")
      /\ \A q \in Procs : q # r => SameAs(q)
  BY GotoFacts DEF Create, Record, SameAs
<1>2. OwnOK(r)
  BY <1>1 DEF OwnOK, CopyOf, Started, Deciding, Accountable, ThenOK
<1>. QED BY <1>1, <1>2, SoloStep

LEMMA HandshakeMirror ==
  ASSUME TypeOK, ThenOK, Handshake, NEW p \in Procs, PutMirror(p)
  PROVE  Handshake'
<1>. USE ProcFacts DEF stores, history, runVars
<1>1. UNCHANGED <<latest, issued, req, dirty>> /\ pc[p] = "mirror"
  BY DEF PutMirror
<1>2. \A q \in Procs : q # p => SameAs(q)
  BY <1>1, ReturnFacts DEF PutMirror, SameAs
<1>3. /\ pc'[p] = then[p] /\ then[p] \in {"idle", "start", "record", "expired", "failed"}
      /\ then[p] = "start" => copy'[p] = copy[p] /\ pre'[p] = pre[p] /\ then'[p] = "start"
  BY <1>1, ReturnFacts DEF PutMirror, TypeOK
<1>4. p \notin dirty' => CopyOf(p)'
  BY <1>1, <1>3 DEF Handshake, CopyOK, CopyOf, Started, SoundSession, DecidedBut
<1>5. OwnOK(p)
  BY <1>1, <1>3, <1>4 DEF OwnOK, Started, Deciding, Accountable, ThenOK
<1>. QED BY <1>1, <1>2, <1>5, SoloStep

LEMMA HandshakeRun ==
  ASSUME TypeOK, ThenOK, Handshake, ~stale',
         RunGet \/ RunConfirms \/ RunCompletes \/ RunCancelled
  PROVE  Handshake'
<1>. USE ProcFacts DEF stores, history, runVars
<1>1. UNCHANGED <<latest, req>>
  BY DEF RunGet, RunConfirms, RunCompletes, RunCancelled
<1>2. issued' \in Nat /\ issued <= issued'
  BY DEF RunGet, RunConfirms, RunCompletes, RunCancelled, TypeOK
<1>3. ASSUME NEW s \in Session, ThenPut(Run, s, "idle"), UNCHANGED dirty,
             Run \notin dirty => /\ copy[Run] = latest /\ SoundSession(s, issued')
                                 /\ s.decided = latest.decided
      PROVE  \A q \in Procs : SameAs(q) \/ OwnOK(q)
  <2>1. /\ pc'[Run] = "put" /\ then'[Run] = "idle" /\ copy'[Run] = s /\ pre'[Run] = copy[Run]
        /\ \A q \in Procs : q # Run => SameAs(q)
    BY <1>1, <1>3, ThenPutFacts, GotoFacts DEF SameAs
  <2>2. Run \notin dirty => PutOK(Run)'
    BY <1>1, <1>3, <2>1 DEF PutOK
  <2>3. OwnOK(Run)
    BY <1>3, <2>1, <2>2 DEF OwnOK, CopyOf
  <2>. QED BY <2>1, <2>3
<1>4. pc[Run] = "running" /\ Run \notin dirty => copy[Run] = latest
  BY DEF Handshake, CopyOK, CopyOf
<1>5. CASE RunGet
  <2>1. /\ pc'[Run] \in {"running", "idle"} /\ (pc'[Run] = "running" => copy'[Run] = latest)
        /\ \A q \in Procs : q # Run => SameAs(q)
    BY <1>1, <1>5, ReadFacts, GotoFacts DEF RunGet, SameAs
  <2>2. OwnOK(Run)
    BY <1>1, <2>1 DEF OwnOK, CopyOf
  <2>. QED BY <1>1, <1>2, <2>1, <2>2, QuietStep
<1>6. CASE RunConfirms
  <2>. DEFINE s == [copy[Run] EXCEPT !.pending = issued + 1]
  <2>1. /\ s \in Session /\ s.pending = issued + 1 /\ s.decided = copy[Run].decided
        /\ issued + 1 \in Token /\ issued' = issued + 1
    BY <1>6, PendingFacts, BoundAssumption DEF RunConfirms, TypeOK, Token
  <2>2. ThenPut(Run, s, "idle") /\ UNCHANGED dirty /\ pc[Run] = "running"
    BY <1>6 DEF RunConfirms
  <2>. HIDE DEF s
  <2>3. Run \notin dirty => SoundSession(s, issued') /\ s.decided = latest.decided
    BY <1>4, <2>1, <2>2 DEF Handshake, SoundSession, TypeOK, Token
  <2>. QED BY <1>1, <1>2, <1>3, <1>4, <2>1, <2>2, <2>3, QuietStep
<1>7. CASE RunCompletes
  <2>1. /\ copy[Run] \in Session /\ ThenPut(Run, copy[Run], "idle") /\ pc[Run] = "running"
        /\ UNCHANGED <<dirty, issued>>
    BY <1>7 DEF RunCompletes, TypeOK
  <2>2. Run \notin dirty => SoundSession(copy[Run], issued')
    BY <1>4, <2>1 DEF Handshake
  <2>. QED BY <1>1, <1>2, <1>3, <1>4, <2>1, <2>2, QuietStep
<1>8. CASE RunCancelled
  <2>1. pc'[Run] = "idle" /\ \A q \in Procs : q # Run => SameAs(q)
    BY <1>1, <1>8, SettleFacts, GotoFacts DEF RunCancelled, SameAs
  <2>2. OwnOK(Run)
    BY <2>1 DEF OwnOK, CopyOf
  <2>. QED BY <1>1, <1>2, <2>1, <2>2, QuietStep
<1>. QED BY <1>5, <1>6, <1>7, <1>8

(* The process takes every request with it, and what each had decided.     *)
LEMMA HandshakeRestart ==
  ASSUME TypeOK, ThenOK, Handshake, Restart
  PROVE  Handshake'
<1>. USE ProcFacts
<1>1. UNCHANGED <<latest, issued, req>> /\ pc'[Run] = "idle"
  BY DEF Restart
<1>2. \A r \in Requests : pc'[r] = IF pc[r] \in Answer \cup {"new"} THEN pc[r] ELSE "lost"
  BY DEF Restart
<1>3. \A r \in Requests : OwnOK(r)
  BY <1>1, <1>2 DEF OwnOK, CopyOf, Started, Deciding, Accountable, Answer
<1>4. OwnOK(Run)
  BY <1>1 DEF OwnOK, CopyOf
<1>5. \A q \in Procs : SameAs(q) \/ OwnOK(q)
  BY <1>3, <1>4 DEF Procs
<1>6. issued' \in Nat /\ issued <= issued'
  BY <1>1 DEF TypeOK
<1>. QED BY <1>1, <1>5, <1>6, QuietStep

(* The Put itself.  Every other copy is passed now, and the session gets   *)
(* the decision of the request, loses it again, or keeps what it has.      *)
LEMMA HandshakePut ==
  ASSUME TypeOK, ThenOK, Handshake, ~stale', NEW p \in Procs, PutPrimary(p)
  PROVE  Handshake'
<1>. USE ProcFacts DEF stores, history, runVars
<1>1. /\ pc[p] = "put" /\ p \notin dirty /\ latest' = copy[p] /\ UNCHANGED <<req, issued>>
      /\ \A q \in Procs : q \notin dirty' => q = p \/ ~Holding(q)
  BY DEF PutPrimary, Stored
<1>2. PutOK(p) /\ SoundSession(latest, issued)
  BY <1>1 DEF Handshake, CopyOK, CopyOf
<1>3. /\ \A q \in Procs : q # p => pc'[q] = pc[q] /\ then'[q] = then[q]
      /\ \/ pc'[p] = "mirror" /\ then'[p] = then[p] /\ copy'[p] = copy[p] /\ pre'[p] = pre[p]
         \/ /\ pc'[p] = "start" /\ then[p] = "start" /\ then'[p] = "start"
            /\ copy'[p] = copy[p] /\ pre'[p] = pre[p]
         \/ /\ pc'[p] = then[p] /\ then[p] \in {"idle", "record", "expired", "failed"}
            /\ then'[p] = "idle"
  <2>1. CASE PutReturns(p)
    BY <1>1, <2>1, ReturnFacts DEF TypeOK
  <2>2. CASE Goto(p, "mirror") /\ UNCHANGED <<copy, then, pre>>
    BY <2>2, GotoFacts
  <2>. QED BY <2>1, <2>2 DEF PutPrimary
<1>4. p \in Requests \/ then[p] = "idle"
  BY DEF ThenOK, Procs
<1>5. \A q \in Requests : q # p => (Deciding(q)' <=> Deciding(q))
  BY <1>1, <1>3 DEF Deciding, Started
<1>6. \A q \in Requests : Deciding(q) => req[q].token \in Token /\ req[q].action # "none"
  <2>1. \A q \in Requests : req[q] \in Input
    BY DEF TypeOK
  <2>. QED BY <2>1, InputFacts, BoundAssumption DEF Deciding, Token
<1>7. p \in Requests => /\ req[p].token \in 0..MaxTokens
                        /\ ~Deciding(p)
                        /\ Deciding(p)' => then[p] = "start" /\ req[p].token # 0
  <2>1. p \in Requests => req[p] \in Input
    BY DEF TypeOK
  <2>2. p \in Requests => req[p].token \in 0..MaxTokens
    BY <2>1, InputFacts
  <2>. QED BY <1>1, <1>3, <2>2 DEF Deciding, Started, ThenOK
<1>8. SoundSession(latest, issued)'
  BY <1>1, <1>2 DEF PutOK, SoundSession
<1>9. ASSUME p \in Requests, then[p] = "start", req[p].token # 0
      PROVE  /\ req[p].token \in Token /\ latest.decided[req[p].token] = "none"
             /\ \A k \in Token : latest'.decided[k] =
                  IF k = req[p].token THEN req[p].action ELSE latest.decided[k]
  <2>1. latest.pending = req[p].token /\ DecidedBut(copy[p], latest, req[p].token, req[p].action)
    BY <1>2, <1>9 DEF PutOK
  <2>2. req[p].token \in Token
    BY <1>7, <1>9, BoundAssumption DEF Token
  <2>. QED BY <1>1, <1>2, <1>9, <2>1, <2>2 DEF SoundSession, DecidedBut
<1>10. ASSUME then[p] = "failed"
       PROVE  /\ p \in Requests
              /\ \A k \in Token : latest'.decided[k] =
                   IF k = req[p].token THEN "none" ELSE latest.decided[k]
              /\ \A q \in Requests : Deciding(q) => req[q].token # req[p].token
  BY <1>1, <1>2, <1>4, <1>10 DEF PutOK, DecidedBut
<1>11. ASSUME then[p] # "failed", ~(p \in Requests /\ then[p] = "start" /\ req[p].token # 0)
       PROVE  latest'.decided = latest.decided
  BY <1>1, <1>2, <1>4, <1>11 DEF PutOK
<1>12. CopyOK'
  <2>. SUFFICES ASSUME NEW q \in Procs, q \notin dirty' PROVE CopyOf(q)'
    BY DEF CopyOK
  <2>1. CASE q # p
    <3>1. pc'[q] = pc[q] /\ ~Holding(q)
      BY <1>1, <1>3, <2>1
    <3>2. pc'[q] \notin {"stop", "running", "put", "check", "purge", "start", "mirror"}
      BY <3>1 DEF Holding, Answer
    <3>. QED BY <3>2 DEF CopyOf, Started
  <2>2. CASE q = p
    <3>1. pc'[p] \notin {"stop", "running", "put", "check", "purge"}
      BY <1>3
    <3>2. ASSUME p \in Requests, Started(p)'
          PROVE  /\ copy'[p] = latest' /\ SoundSession(pre'[p], issued')
                 /\ DecidedBut(pre'[p], latest', req'[p].token, "none")
      <4>1. then[p] = "start" /\ copy'[p] = copy[p] /\ pre'[p] = pre[p]
        BY <1>3, <3>2 DEF Started
      <4>2. copy'[p] = latest' /\ pre'[p] = latest
        BY <1>1, <1>2, <4>1 DEF PutOK
      <4>3. SoundSession(pre'[p], issued')
        BY <1>1, <1>2, <4>2
      <4>4. CASE req[p].token # 0
        BY <1>1, <1>9, <3>2, <4>1, <4>2, <4>3, <4>4 DEF DecidedBut
      <4>5. CASE req[p].token = 0
        <5>1. \A k \in Token : k # 0
          BY DEF Token
        <5>2. latest'.decided = latest.decided
          BY <1>11, <4>1, <4>5
        <5>. QED BY <1>1, <4>2, <4>3, <4>5, <5>1, <5>2 DEF DecidedBut
      <4>. QED BY <4>2, <4>3, <4>4, <4>5
    <3>. QED BY <2>2, <3>1, <3>2 DEF CopyOf, Started
  <2>. QED BY <2>1, <2>2
<1>13. KeptOK'
  <2>1. ASSUME NEW q \in Requests, Deciding(q)'
        PROVE  latest'.decided[req'[q].token] = req'[q].action
    <3>1. CASE q = p
      BY <1>1, <1>7, <1>9, <2>1, <3>1
    <3>2. CASE q # p
      <4>1. /\ Deciding(q) /\ latest.decided[req[q].token] = req[q].action
            /\ req[q].token \in Token /\ req[q].action # "none"
        BY <1>5, <1>6, <2>1, <3>2 DEF Handshake, KeptOK
      <4>2. latest'.decided[req[q].token] = latest.decided[req[q].token]
        BY <1>9, <1>10, <1>11, <4>1
      <4>. QED BY <1>1, <4>1, <4>2
    <3>. QED BY <3>1, <3>2
  <2>2. ASSUME NEW q \in Requests, Deciding(q), p \in Requests, Deciding(p)'
        PROVE  req[q].token # req[p].token
    BY <1>6, <1>7, <1>9, <2>2 DEF Handshake, KeptOK
  <2>3. ASSUME NEW q \in Requests, NEW r \in Requests, Deciding(q)', Deciding(r)',
               req'[q].token = req'[r].token
        PROVE  q = r
    BY <1>1, <1>5, <2>2, <2>3 DEF Handshake, KeptOK
  <2>. QED BY <2>1, <2>3 DEF KeptOK
<1>14. AccountOK'
  <2>. SUFFICES ASSUME NEW k \in Token, latest'.decided[k] # "none"
                PROVE  \E r \in Requests : /\ Accountable(r)' /\ req'[r].token = k
                                           /\ req'[r].action = latest'.decided[k]
    BY DEF AccountOK
  <2>1. CASE latest'.decided[k] = latest.decided[k]
    <3>1. PICK r \in Requests : /\ Accountable(r) /\ req[r].token = k
                                /\ req[r].action = latest.decided[k]
      BY <2>1 DEF Handshake, AccountOK
    <3>2. r # p
      BY <1>1, <1>10, <2>1, <3>1 DEF Accountable, Deciding, Started
    <3>3. Accountable(r)'
      BY <1>1, <1>3, <1>5, <3>1, <3>2 DEF Accountable
    <3>. QED BY <1>1, <2>1, <3>1, <3>3
  <2>2. CASE latest'.decided[k] # latest.decided[k]
    <3>1. p \in Requests /\ then[p] = "start" /\ req[p].token # 0
      BY <1>10, <1>11, <2>2
    <3>2. req[p].token = k /\ req[p].action = latest'.decided[k]
      BY <1>9, <2>2, <3>1
    <3>3. Accountable(p)'
      BY <1>1, <1>3, <3>1 DEF Accountable, Deciding, Started, ThenOK
    <3>. QED BY <1>1, <3>1, <3>2, <3>3
  <2>. QED BY <2>1, <2>2
<1>. QED BY <1>8, <1>12, <1>13, <1>14 DEF Handshake

(* Only a stale read or Put may break the handshake.                       *)
LEMMA HandshakeStep ==
  ASSUME TypeOK, ThenOK, stale \/ Handshake, [Next]_vars
  PROVE  stale' \/ Handshake'
<1>. SUFFICES ASSUME ~stale' PROVE Handshake'
  OBVIOUS
<1>. USE ProcFacts
<1>1. ~stale
  <2>1. ASSUME NEW p \in Procs, NEW there, Get(p, there) PROVE ~stale
    BY <2>1, ReadFacts
  <2>2. \A p \in Procs : PutPrimary(p) \/ PutMirror(p) => ~stale
    BY DEF PutPrimary, PutMirror, Stored, history
  <2>3. \A r \in Requests : Receive(r) \/ StopGet(r) => ~stale
    BY <2>1 DEF Receive, StopGet, history
  <2>4. RunGet => ~stale
    BY <2>1 DEF RunGet, history
  <2>5. \A r \in Requests : Check(r) \/ Purge(r) \/ Create(r) \/ StartSucceeds(r) \/ StartFails(r)
                            \/ StopActive(r) \/ Record(r) => ~stale
    BY DEF Check, Purge, Create, StartSucceeds, StartFails, StopActive, Record, history
  <2>6. \A k \in idem : AnswerExpires(k) => ~stale
    BY DEF AnswerExpires, history
  <2>7. RunConfirms \/ RunCompletes \/ RunCancelled \/ RunLeaves \/ Restart \/ UNCHANGED vars
          => ~stale
    BY DEF RunConfirms, RunCompletes, RunCancelled, RunLeaves, Restart, vars, history
  <2>. QED BY <2>2, <2>3, <2>4, <2>5, <2>6, <2>7 DEF Next
<1>2. Handshake
  BY <1>1
<1>3. ASSUME UNCHANGED <<latest, issued, req, pc, then, copy, pre, dirty>> PROVE Handshake'
  <2>1. \A q \in Procs : SameAs(q)
    BY <1>3 DEF SameAs
  <2>2. issued' \in Nat /\ issued <= issued'
    BY <1>3 DEF TypeOK
  <2>. QED BY <1>2, <1>3, <2>1, <2>2, QuietStep
<1>4. ASSUME \/ \E k \in idem : AnswerExpires(k)
             \/ RunLeaves
             \/ UNCHANGED vars
      PROVE  Handshake'
  BY <1>3, <1>4 DEF AnswerExpires, RunLeaves, vars, stores, procVars, runVars, history
<1>. QED BY <1>2, <1>4, HandshakeReceive, HandshakeCheck, HandshakeRecord, HandshakeStart,
            HandshakeStop, HandshakePut, HandshakeMirror, HandshakeRun, HandshakeRestart DEF Next

LEMMA HandshakeInit == Init => Handshake
<1>. SUFFICES ASSUME Init PROVE Handshake
  OBVIOUS
<1>1. latest.pending = 1 /\ issued = 1 /\ \A k \in Token : latest.decided[k] = "none"
  BY DEF Init, Fresh
<1>2. 1 \in Token
  BY BoundAssumption DEF Token
<1>3. SoundSession(latest, issued)
  BY <1>1, <1>2 DEF SoundSession
<1>4. \A p \in Procs : pc[p] \in {"idle", "new"}
  BY DEF Init
<1>5. CopyOK /\ KeptOK
  BY <1>4, ProcFacts DEF CopyOK, CopyOf, KeptOK, Deciding, Started
<1>. QED BY <1>1, <1>3, <1>5 DEF Handshake, AccountOK

(* IInv holds in every reachable state of the gateway.                     *)
THEOREM GatewayInvariant == Spec => []IInv
<1>1. Init => IInv
  BY TypeInit, HandshakeInit DEF IInv
<1>2. IInv /\ [Next]_vars => IInv'
  BY TypeStep, HandshakeStep DEF IInv
<1>. QED BY <1>1, <1>2, PTL DEF Spec

(* TokenConsumedOnce: as long as no process stored or read a session that  *)
(* was out of date, no two resumes are accepted with the same approval     *)
(* token.                                                                  *)
THEOREM GatewayTokenConsumedOnce == Spec => []TokenConsumedOnce
<1>1. IInv => TokenConsumedOnce
  BY DEF IInv, Handshake, KeptOK, TokenConsumedOnce, Accepted, Deciding
<1>. QED BY <1>1, GatewayInvariant, PTL

(* AcceptedDecisionKept: under the same condition, a decision that was     *)
(* acknowledged stays in the session through cancels, further runs,        *)
(* rollbacks of other requests and restarts.                               *)
THEOREM GatewayDecisionKept == Spec => []AcceptedDecisionKept
<1>1. IInv => AcceptedDecisionKept
  BY DEF IInv, Handshake, KeptOK, AcceptedDecisionKept, Accepted, Deciding
<1>. QED BY <1>1, GatewayInvariant, PTL

(* DecisionAccounted: under the same condition, the session keeps no       *)
(* decision whose caller was told that the resume failed or was refused.   *)
THEOREM GatewayDecisionAccounted == Spec => []DecisionAccounted
<1>1. IInv => DecisionAccounted
  BY DEF IInv, Handshake, AccountOK, Accountable, Deciding, Started, DecisionAccounted
<1>. QED BY <1>1, GatewayInvariant, PTL

-----------------------------------------------------------------------------
(* Stored answers.                                                         *)

(* What rests: an answered request, and one that has yet to look.          *)
LEMMA RestFacts ==
  ASSUME TypeOK, ThenOK, Next, NEW r \in Requests,
         pc[r] \in {"ok", "replayed", "notfound", "check"},
         pc[r] = "check" => ~Check(r) /\ ~Restart
  PROVE  pc'[r] = pc[r] /\ req'[r] = req[r]
<1>. USE ProcFacts
<1>1. ASSUME NEW q \in Requests, Receive(q) PROVE pc'[r] = pc[r] /\ req'[r] = req[r]
  <2>1. pc[q] = "new" /\ q # r /\ (Goto(q, "check") \/ Goto(q, "notfound"))
    BY <1>1, ReadFacts DEF Receive
  <2>. QED BY <1>1, <2>1, GotoFacts DEF Receive, TypeOK
<1>2. ASSUME NEW q \in Requests,
             Check(q) \/ Purge(q) \/ Create(q) \/ StartSucceeds(q) \/ StartFails(q)
             \/ StopGet(q) \/ StopActive(q) \/ Record(q)
      PROVE  pc'[r] = pc[r] /\ req'[r] = req[r]
  <2>1. q # r /\ UNCHANGED req
    BY <1>2 DEF Check, Purge, Create, StartSucceeds, StartFails, StopGet, StopActive, Record
  <2>2. CASE StartSucceeds(q)
    BY <2>1, <2>2 DEF StartSucceeds, TypeOK
  <2>3. CASE ~StartSucceeds(q)
    <3>1. \E to : Goto(q, to)
      BY <1>2, <2>3, ReadFacts
      DEF Check, Purge, Proceed, ResumeDecides, Create, StartFails, StopGet, StopActive, Record, Settle, ThenPut
    <3>. QED BY <2>1, <3>1, GotoFacts
  <2>. QED BY <2>2, <2>3
<1>3. ASSUME NEW p \in Procs, PutPrimary(p) \/ PutMirror(p)
      PROVE  pc'[r] = pc[r] /\ req'[r] = req[r]
  <2>1. pc[p] \in {"put", "mirror"} /\ UNCHANGED req /\ (PutReturns(p) \/ Goto(p, "mirror"))
    BY <1>3 DEF PutPrimary, PutMirror
  <2>. QED BY <2>1, ReturnFacts, GotoFacts
<1>4. CASE RunGet \/ RunConfirms \/ RunCompletes \/ RunCancelled
  <2>1. \E to : Goto(Run, to)
    BY <1>4, ReadFacts DEF RunGet, RunConfirms, RunCompletes, RunCancelled, Settle, ThenPut
  <2>. QED BY <1>4, <2>1, GotoFacts DEF RunGet, RunConfirms, RunCompletes, RunCancelled
<1>5. CASE RunLeaves \/ \E k \in idem : AnswerExpires(k)
  BY <1>5 DEF RunLeaves, AnswerExpires, procVars
<1>6. CASE Restart
  BY <1>6 DEF Restart, Answer
<1>. QED BY <1>1, <1>2, <1>3, <1>4, <1>5, <1>6 DEF Next

(* RetryReplayed: for any number of requests and keys, one sent again      *)
(* under its key after it was answered is never carried out again while    *)
(* the stored answer lasts.                                                *)
THEOREM GatewayRetryReplayed == Spec => []RetryReplayed
<1>1. Init => AnswersOK
  BY DEF Init, AnswersOK, RetryReplayed
<1>2. ASSUME TypeOK, ThenOK, AnswersOK, [Next]_vars PROVE AnswersOK'
  <2>. USE ProcFacts DEF IdempotencyKey
  <2>0. answered \subseteq Requests /\ before \in [Requests -> SUBSET Requests]
    BY <1>2 DEF TypeOK, AnswersType
  <2>1. CASE UNCHANGED vars
    BY <1>2, <2>1 DEF vars, answers, procVars, AnswersOK, RetryReplayed
  <2>. SUFFICES ASSUME Next PROVE AnswersOK'
    BY <1>2, <2>1
  <2>2. \A q \in Requests : pc[q] = "ok" => pc'[q] = "ok" /\ req'[q] = req[q]
    BY <1>2, RestFacts
  (* The steps that leave the requests alone and answer none. *)
  <2>3. ASSUME UNCHANGED <<req, before>>, answered' \subseteq answered, idem' \cap old' = {},
               \A q \in answered' : IdempotencyKey(q) \in idem',
               \A r \in Requests : before[r] \cap answered' # {} =>
                                   pc'[r] \in {"check", "replayed", "notfound"}
        PROVE  AnswersOK'
    BY <1>2, <2>0, <2>2, <2>3 DEF AnswersOK, RetryReplayed
  <2>4. ASSUME NEW r \in Requests, Receive(r) PROVE AnswersOK'
    <3>1. PICK i \in Input :
            /\ req' = [req EXCEPT ![r] = i]
            /\ before' = [before EXCEPT ![r] =
                            {q \in answered : i.key # NoKey /\ IdempotencyKey(q) = KeyOf(i)}]
      BY <2>4 DEF Receive
    <3>2. /\ pc[r] = "new" /\ pc'[r] \in {"check", "notfound"} /\ UNCHANGED <<idem, old, answered>>
          /\ \A q \in Requests : q # r => pc'[q] = pc[q]
      BY <1>2, <2>4, ReadFacts, GotoFacts DEF Receive
    <3>3. i.key # NoKey => i.kind # "abandon"
      BY DEF Input
    <3>. QED BY <1>2, <2>0, <2>2, <3>1, <3>2, <3>3 DEF AnswersOK, RetryReplayed, TypeOK
  <2>5. ASSUME NEW r \in Requests, Record(r) PROVE AnswersOK'
    <3>1. /\ pc[r] = "record" /\ pc'[r] = "ok" /\ UNCHANGED <<req, before>>
          /\ \A q \in Requests : q # r => pc'[q] = pc[q]
      BY <1>2, <2>5, GotoFacts DEF Record
    <3>2. \A q \in Requests : r \notin before[q]
      BY <1>2, <3>1 DEF AnswersOK
    <3>3. before[r] \cap answered = {} /\ r \notin answered
      BY <1>2, <3>1 DEF AnswersOK, RetryReplayed
    <3>. QED BY <1>2, <2>0, <2>5, <3>1, <3>2, <3>3 DEF Record, AnswersOK, RetryReplayed
  <2>6. ASSUME NEW r \in Requests, Check(r) \/ Purge(r) PROVE AnswersOK'
    <3>1. /\ UNCHANGED <<req, before>> /\ pc[r] \in {"check", "purge"}
          /\ answered' \subseteq answered /\ idem' \cap old' = {}
          /\ \A q \in answered' : IdempotencyKey(q) \in idem'
      BY <1>2, <2>6 DEF Check, Purge, AnsweredBut, answers, AnswersOK
    <3>2. \A q \in Requests : q # r => pc'[q] = pc[q]
      <4>1. \E to : Goto(r, to)
        BY <2>6 DEF Check, Purge, Proceed, ResumeDecides, Settle, ThenPut
      <4>. QED BY <1>2, <4>1, GotoFacts
    <3>3. ASSUME before[r] \cap answered' # {} PROVE pc'[r] = "replayed"
      <4>1. /\ pc[r] = "check" /\ IdempotencyKey(r) \in idem /\ req[r].kind # "abandon"
            /\ IdempotencyKey(r) \notin old
        BY <1>2, <3>1, <3>3 DEF AnswersOK, RetryReplayed
      <4>2. Settle(r, "replayed")
        BY <2>6, <4>1 DEF Check, Purge
      <4>. QED BY <1>2, <4>2, SettleFacts, GotoFacts
    <3>4. \A q \in Requests : before[q] \cap answered' # {} =>
                              pc'[q] \in {"check", "replayed", "notfound"}
      BY <1>2, <3>1, <3>2, <3>3 DEF AnswersOK, RetryReplayed
    <3>. QED BY <2>3, <3>1, <3>4
  <2>7. ASSUME NEW k \in idem, AnswerExpires(k) PROVE AnswersOK'
    <3>1. /\ UNCHANGED <<req, pc, before>> /\ answered' \subseteq answered
          /\ idem' \cap old' = {} /\ \A q \in answered' : IdempotencyKey(q) \in idem'
      BY <1>2, <2>7 DEF AnswerExpires, AnsweredBut, procVars, AnswersOK
    <3>2. \A q \in Requests : before[q] \cap answered' # {} =>
                              pc'[q] \in {"check", "replayed", "notfound"}
      BY <1>2, <3>1 DEF AnswersOK, RetryReplayed
    <3>. QED BY <2>3, <3>1, <3>2
  <2>a. CASE Restart
    BY <2>3, <2>a DEF Restart
  <2>8. CASE UNCHANGED <<answers, req>> /\ ~Restart /\ \A r \in Requests : ~Check(r)
    <3>1. \A q \in Requests : before[q] \cap answered' # {} =>
                              pc'[q] \in {"check", "replayed", "notfound"}
      BY <1>2, <2>8, RestFacts DEF answers, AnswersOK, RetryReplayed
    <3>. QED BY <1>2, <2>3, <2>8, <3>1 DEF answers, AnswersOK
  <2>9. \/ \E r \in Requests : Receive(r) \/ Record(r) \/ Check(r) \/ Purge(r)
        \/ \E k \in idem : AnswerExpires(k)
        \/ Restart
        \/ UNCHANGED <<answers, req>>
    BY DEF Next, Create, StartSucceeds, StartFails, StopGet, StopActive,
       PutPrimary, PutMirror, RunGet, RunConfirms, RunCompletes, RunCancelled, RunLeaves, procVars
  <2>. QED BY <2>4, <2>5, <2>6, <2>7, <2>a, <2>8, <2>9
<1>3. IInv => TypeOK /\ ThenOK
  BY DEF IInv
<1>4. AnswersOK => RetryReplayed
  BY DEF AnswersOK
<1>. QED BY <1>1, <1>2, <1>3, <1>4, GatewayInvariant, PTL DEF Spec

=============================================================================
