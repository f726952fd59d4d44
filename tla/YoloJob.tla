------------------------------- MODULE YoloJob -------------------------------
(***************************************************************************)
(* One autonomous research job (api/yolo.go): the pipeline goroutine, the  *)
(* streams of its clients, and the requests that cancel it.  They share    *)
(* the YoloJob object (terminal event and claim flag, each under job.mu),  *)
(* its bounded event channel, its context, the runtime journal and the     *)
(* durable record of the research run (research_durable_job.go).           *)
(*                                                                         *)
(* An event is reduced to its type; every type that does not end the job   *)
(* (job_registered, job_started, progress, research_job_started,           *)
(* research_job_completed, ...) is a "note".  Append of the journal and    *)
(* the reads and writes of the state store are atomic.                     *)
(***************************************************************************)
EXTENDS Naturals, Sequences

CONSTANTS
  Streams,      \* requests of WisDevStreamHandler
  Cancels,      \* requests of WisDevJobCancelHandler
  ChanCap,      \* capacity of UnifiedEvents (1024 in the code)
  MaxProgress,  \* bound: progress events of the research loop
  MaxFaults     \* bound: panics, failed saves and crashes

ASSUME ChanAssumption  == ChanCap \in Nat \ {0}
ASSUME BoundAssumption == MaxProgress \in Nat /\ MaxFaults \in Nat

VARIABLES
  pipe,      \* where runWisDevPipeline is
  out,       \* the terminal event it is about to publish
  durable,   \* Status of the run's ResearchDurableJobState
  term,      \* terminalUnifiedEvent of the object, or "none"
  claimed,   \* terminalUnifiedEventJournaled
  ch,        \* UnifiedEvents
  ctxDone,   \* the job's context is cancelled
  held,      \* yoloJobStore has the job
  journal,   \* the journal's entries of this job, oldest first
  record,    \* status of the persisted research job, or "none"
  cpc, cres, \* where each cancel request is, and its answer
  spc, told, \* where each stream is, and the terminal event it has sent
  emits, faults

pipeVars   == <<pipe, out, durable, emits>>
objVars    == <<term, claimed, ch, ctxDone, held>>
storeVars  == <<journal, record>>
cancelVars == <<cpc, cres>>
streamVars == <<spc, told>>
vars == <<pipeVars, objVars, storeVars, cancelVars, streamVars, faults>>

Terminal == {"job_done", "job_failed", "job_cancelled"}
Note     == "note"
None     == "none"

(* "control" is the job_cancelled entry that cancelPersistedResearchJob    *)
(* appends without asking the claim flag.                                  *)
Entry == Terminal \cup {Note, "control"}

RecordStatus == {None, "running", "completed", "failed", "cancelled"}

Pipe == {"none", "starting", "startSend", "begin", "beginSend", "logStart",
         "loop", "loopSend", "saveEnd", "logEnd", "finish", "finishSend",
         "decide", "claim", "append", "deliver", "closing", "closed", "dead"}

CancelPc == {"idle", "set", "claim", "append", "send", "stop", "load", "save",
             "log", "answered", "lost"}
StreamPc == {"idle", "open", "got", "live", "snapshot", "recovered", "gone"}

TypeOK ==
  /\ pipe \in Pipe /\ out \in Terminal /\ durable \in RecordStatus \ {None}
  /\ term \in Terminal \cup {None} /\ claimed \in BOOLEAN
  /\ ch \in Seq(Terminal \cup {Note}) /\ Len(ch) <= ChanCap
  /\ ctxDone \in BOOLEAN /\ held \in BOOLEAN
  /\ journal \in Seq(Entry) /\ record \in RecordStatus
  /\ cpc \in [Cancels -> CancelPc]
  /\ cres \in [Cancels -> {None, "cancelled", "conflict", "panic"}]
  /\ spc \in [Streams -> StreamPc]
  /\ told \in [Streams -> Terminal \cup {None}]
  /\ emits \in 0..MaxProgress /\ faults \in 0..MaxFaults

Init ==
  /\ pipe = "none" /\ out = "job_done" /\ durable = "running"
  /\ term = None /\ claimed = FALSE /\ ch = <<>>
  /\ ctxDone = FALSE /\ held = FALSE
  /\ journal = <<>> /\ record = None
  /\ cpc = [c \in Cancels |-> "idle"] /\ cres = [c \in Cancels |-> None]
  /\ spc = [s \in Streams |-> "idle"] /\ told = [s \in Streams |-> None]
  /\ emits = 0 /\ faults = 0

(* Append; a run of notes is kept as one note.                             *)
AppendJournal(e) ==
  journal' = IF e = Note /\ journal # <<>> /\ journal[Len(journal)] = Note
               THEN journal ELSE Append(journal, e)

Fault == faults < MaxFaults /\ faults' = faults + 1

IsTerminal(e) == e \in Terminal \cup {"control"}
EventType(e)  == IF e = "control" THEN "job_cancelled" ELSE e

(* Faulty variant: the last entry's status is reported as it is.           *)
RecoveredAsLogged(j) == EventType(j[Len(j)])

(* recoverWisDevJobFromJournal: the last entry decides; a job whose last   *)
(* entry is not terminal is reported as failed, its state lost.            *)
Recovered(j) ==
  IF IsTerminal(j[Len(j)]) THEN EventType(j[Len(j)]) ELSE "job_failed"

-----------------------------------------------------------------------------
(* WisDevJobHandler (and the schedule's run handler): the job is stored    *)
(* and its registration journalled before anyone learns its id, and then   *)
(* the pipeline starts.                                                    *)
Register ==
  /\ pipe = "none" /\ pipe' = "starting"
  /\ held' = TRUE /\ AppendJournal(Note)
  /\ UNCHANGED <<out, durable, emits, term, claimed, ch, ctxDone, record,
                 cancelVars, streamVars, faults>>

-----------------------------------------------------------------------------
(* runWisDevPipeline.                                                      *)

PipeOnly == UNCHANGED <<held, cancelVars, streamVars>>

(* send journals the event first and then waits for room or for the        *)
(* context.                                                                *)
JournalNote(from, to) ==
  /\ pipe = from /\ pipe' = to /\ AppendJournal(Note)
  /\ PipeOnly /\ UNCHANGED <<out, durable, term, claimed, ch, ctxDone, record, faults>>

SendStarted == JournalNote("starting", "startSend") /\ UNCHANGED emits

Progress ==
  /\ \/ JournalNote("begin", "beginSend")
     \/ JournalNote("loop", "loopSend")
     \/ JournalNote("finish", "finishSend")
  /\ emits < MaxProgress /\ emits' = emits + 1

(* The select of send and sendTerminal: with the context done and room in  *)
(* the channel, either case may be taken.                                  *)
Push(e) == Len(ch) < ChanCap /\ ch' = Append(ch, e)
Skip    == ctxDone /\ UNCHANGED ch

SelectOnly == PipeOnly /\ UNCHANGED <<out, durable, emits, term, claimed,
                                      ctxDone, storeVars, faults>>

StartedSent ==
  /\ pipe = "startSend"
  /\ \/ Push(Note) /\ pipe' = "begin"
     \/ Skip /\ pipe' = "closing"
  /\ SelectOnly

AfterSend == [beginSend |-> "begin", loopSend |-> "loop", finishSend |-> "finish"]

(* Faulty variant: a progress event waits for room only.                   *)
ProgressSentBlocking ==
  /\ pipe \in DOMAIN AfterSend /\ pipe' = AfterSend[pipe]
  /\ Push(Note)
  /\ SelectOnly

ProgressSent ==
  /\ pipe \in DOMAIN AfterSend /\ pipe' = AfterSend[pipe]
  /\ Push(Note) \/ Skip
  /\ SelectOnly

(* Neither a unified runtime nor a loop: the job fails at once.            *)
NothingToRun ==
  /\ pipe = "starting" /\ pipe' = "decide" /\ out' = "job_failed"
  /\ PipeOnly /\ UNCHANGED <<durable, emits, term, claimed, ch, ctxDone, storeVars, faults>>

(* No unified runtime: the bare loop runs, without events and without a    *)
(* durable record.                                                         *)
LoopWithoutRuntime ==
  /\ pipe = "begin" /\ pipe' = "decide"
  /\ out' \in {"job_done", "job_failed"}
  /\ PipeOnly /\ UNCHANGED <<durable, emits, term, claimed, ch, ctxDone, storeVars, faults>>

(* persistResearchDurableJob saves the record and then journals it; a      *)
(* failed save skips the entry and is reported as one more event.          *)
PersistStart ==
  /\ pipe = "begin"
  /\ \/ pipe' = "logStart" /\ record' = "running" /\ UNCHANGED faults
     \/ pipe' = "loop" /\ Fault /\ UNCHANGED record
  /\ PipeOnly /\ UNCHANGED <<out, durable, emits, term, claimed, ch, ctxDone, journal>>

LogStart == JournalNote("logStart", "loop") /\ UNCHANGED emits

(* The loop returns a result or an error.  What the durable record says of *)
(* an error depends on the context at that moment.                         *)
LoopReturns ==
  /\ pipe = "loop" /\ pipe' = "saveEnd"
  /\ \/ durable' = "completed" /\ out' = "job_done"
     \/ /\ durable' = (IF ctxDone THEN "cancelled" ELSE "failed")
        /\ out' = "job_failed"
  /\ PipeOnly /\ UNCHANGED <<emits, term, claimed, ch, ctxDone, storeVars, faults>>

(* A panic of the loop, or of what follows it: the deferred recover        *)
(* publishes job_failed, and the record is left as it is.                  *)
LoopPanics ==
  /\ pipe \in {"loop", "finish"} /\ pipe' = "decide" /\ out' = "job_failed"
  /\ Fault
  /\ PipeOnly /\ UNCHANGED <<durable, emits, term, claimed, ch, ctxDone, storeVars>>

(* Faulty variant: only a completed run is saved.                          *)
PersistEndCompleted ==
  /\ pipe = "saveEnd" /\ pipe' = "logEnd"
  /\ record' = (IF durable = "completed" THEN durable ELSE record)
  /\ UNCHANGED faults
  /\ PipeOnly /\ UNCHANGED <<out, durable, emits, term, claimed, ch, ctxDone, journal>>

PersistEnd ==
  /\ pipe = "saveEnd"
  /\ \/ pipe' = "logEnd" /\ record' = durable /\ UNCHANGED faults
     \/ pipe' = "finish" /\ Fault /\ UNCHANGED record
  /\ PipeOnly /\ UNCHANGED <<out, durable, emits, term, claimed, ch, ctxDone, journal>>

LogEnd == JournalNote("logEnd", "finish") /\ UNCHANGED emits

RunLoopReturned ==
  /\ pipe = "finish" /\ pipe' = "decide"
  /\ PipeOnly /\ UNCHANGED <<out, durable, emits, term, claimed, ch, ctxDone, storeVars, faults>>

(* sendTerminal: the object first, whatever it holds by now, then the      *)
(* journal if the claim is still free, then the channel.                   *)
PipeSetTerminal ==
  /\ pipe = "decide" /\ pipe' = "claim" /\ term' = out
  /\ PipeOnly /\ UNCHANGED <<out, durable, emits, claimed, ch, ctxDone, storeVars, faults>>

(* Faulty variant: the flag is not looked at.                              *)
PipeClaimAlways ==
  /\ pipe = "claim" /\ pipe' = "append" /\ claimed' = TRUE
  /\ PipeOnly /\ UNCHANGED <<out, durable, emits, term, ch, ctxDone, storeVars, faults>>

PipeClaim ==
  /\ pipe = "claim" /\ claimed' = TRUE
  /\ pipe' = (IF claimed THEN "deliver" ELSE "append")
  /\ PipeOnly /\ UNCHANGED <<out, durable, emits, term, ch, ctxDone, storeVars, faults>>

(* Faulty variant: the entry always says job_done.                         *)
PipeAppendDone ==
  /\ pipe = "append" /\ pipe' = "deliver" /\ AppendJournal("job_done")
  /\ PipeOnly /\ UNCHANGED <<out, durable, emits, term, claimed, ch, ctxDone, record, faults>>

PipeAppend ==
  /\ pipe = "append" /\ pipe' = "deliver" /\ AppendJournal(out)
  /\ PipeOnly /\ UNCHANGED <<out, durable, emits, term, claimed, ch, ctxDone, record, faults>>

PipeDeliver ==
  /\ pipe = "deliver" /\ pipe' = "closing"
  /\ Push(out) \/ Skip
  /\ SelectOnly

PipeClose ==
  /\ pipe = "closing" /\ pipe' = "closed"
  /\ PipeOnly /\ UNCHANGED <<out, durable, emits, term, claimed, ch, ctxDone, storeVars, faults>>

Pipeline ==
  \/ SendStarted \/ Progress \/ StartedSent \/ ProgressSent
  \/ NothingToRun \/ LoopWithoutRuntime \/ PersistStart \/ LogStart
  \/ LoopReturns \/ LoopPanics \/ PersistEnd \/ LogEnd \/ RunLoopReturned
  \/ PipeSetTerminal \/ PipeClaim \/ PipeAppend \/ PipeDeliver \/ PipeClose

-----------------------------------------------------------------------------
(* WisDevJobCancelHandler.                                                 *)

Cancelling(c, from, to) == cpc[c] = from /\ cpc' = [cpc EXCEPT ![c] = to]
Answer(c, res) == cres' = [cres EXCEPT ![c] = res]
CancelOnly == UNCHANGED <<pipeVars, held, streamVars, faults>>

(* The job is in memory: look at its terminal event, and decide by it.     *)
CancelCheck(c) ==
  /\ held
  /\ \/ /\ term = None /\ Cancelling(c, "idle", "set") /\ UNCHANGED cres
     \/ /\ term = "job_cancelled" /\ Cancelling(c, "idle", "answered")
        /\ Answer(c, "cancelled")
     \/ /\ term \in {"job_done", "job_failed"}
        /\ Cancelling(c, "idle", "answered") /\ Answer(c, "conflict")
  /\ CancelOnly /\ UNCHANGED <<term, claimed, ch, ctxDone, storeVars>>

(* Faulty variant: the context is cancelled before the event is set.       *)
CancelSetLate(c) ==
  /\ Cancelling(c, "set", "claim") /\ ctxDone' = TRUE
  /\ CancelOnly /\ UNCHANGED <<term, claimed, ch, storeVars, cres>>

CancelSet(c) ==
  /\ Cancelling(c, "set", "claim") /\ term' = "job_cancelled"
  /\ CancelOnly /\ UNCHANGED <<claimed, ch, ctxDone, storeVars, cres>>

CancelClaim(c) ==
  /\ Cancelling(c, "claim", IF claimed THEN "send" ELSE "append")
  /\ claimed' = TRUE
  /\ CancelOnly /\ UNCHANGED <<term, ch, ctxDone, storeVars, cres>>

CancelAppend(c) ==
  /\ Cancelling(c, "append", "send") /\ AppendJournal("job_cancelled")
  /\ CancelOnly /\ UNCHANGED <<term, claimed, ch, ctxDone, record, cres>>

(* The send does not wait; on a closed channel it panics, the request is   *)
(* lost, and so is the rest of the handler.                                *)
CancelSend(c) ==
  /\ \/ /\ pipe # "closed" /\ Cancelling(c, "send", "stop") /\ UNCHANGED cres
        /\ IF Len(ch) < ChanCap THEN ch' = Append(ch, "job_cancelled")
                                ELSE UNCHANGED ch
     \/ /\ pipe = "closed" /\ Cancelling(c, "send", "answered")
        /\ Answer(c, "panic") /\ UNCHANGED ch
  /\ CancelOnly /\ UNCHANGED <<term, claimed, ctxDone, storeVars>>

CancelStop(c) ==
  /\ Cancelling(c, "stop", "load") /\ ctxDone' = TRUE
  /\ CancelOnly /\ UNCHANGED <<term, claimed, ch, storeVars, cres>>

(* cancelPersistedResearchJob: load, decide by the status, save, journal.  *)
(* The handler of a live job ignores what it returns.                      *)
CancelLoad(c) ==
  /\ \/ record = "running" /\ Cancelling(c, "load", "save") /\ UNCHANGED cres
     \/ /\ record # "running" /\ Cancelling(c, "load", "answered")
        /\ Answer(c, "cancelled")
  /\ CancelOnly /\ UNCHANGED <<objVars, storeVars>>

CancelSave(c) ==
  /\ \/ /\ Cancelling(c, "save", "log") /\ record' = "cancelled"
        /\ UNCHANGED <<cres, faults>>
     \/ /\ Cancelling(c, "save", "answered") /\ Answer(c, "cancelled")
        /\ Fault /\ UNCHANGED record
  /\ UNCHANGED <<pipeVars, objVars, journal, streamVars>>

CancelLog(c) ==
  /\ Cancelling(c, "log", "answered") /\ Answer(c, "cancelled")
  /\ AppendJournal("control")
  /\ CancelOnly /\ UNCHANGED <<objVars, record>>

(* The job is not in memory (any more): the journal answers.               *)
CancelRecovered(c) ==
  /\ ~held /\ journal # <<>>
  /\ Cancelling(c, "idle", "answered")
  /\ Answer(c, IF Recovered(journal) = "job_cancelled" THEN "cancelled" ELSE "conflict")
  /\ CancelOnly /\ UNCHANGED <<objVars, storeVars>>

Cancel(c) ==
  \/ CancelCheck(c) \/ CancelSet(c) \/ CancelClaim(c) \/ CancelAppend(c)
  \/ CancelSend(c) \/ CancelStop(c) \/ CancelLoad(c) \/ CancelSave(c)
  \/ CancelLog(c) \/ CancelRecovered(c)

-----------------------------------------------------------------------------
(* WisDevStreamHandler.                                                    *)

Streaming(s, from, to) == spc[s] = from /\ spc' = [spc EXCEPT ![s] = to]
Tell(s, e) == told' = [told EXCEPT ![s] = e]
StreamOnly == UNCHANGED <<pipeVars, ctxDone, held, record, cancelVars, faults>>

StreamOpen(s) ==
  /\ held /\ Streaming(s, "idle", "open")
  /\ StreamOnly /\ UNCHANGED <<term, claimed, ch, journal, told>>

(* A recovered job has no channel, only its terminal event.                *)
StreamRecovered(s) ==
  /\ ~held /\ journal # <<>>
  /\ Streaming(s, "idle", "recovered") /\ Tell(s, Recovered(journal))
  /\ StreamOnly /\ UNCHANGED <<term, claimed, ch, journal>>

(* The streams of a job share its channel: an event goes to one of them.   *)
StreamReceive(s) ==
  /\ ch # <<>> /\ ch' = Tail(ch)
  /\ \/ /\ Head(ch) = Note /\ Streaming(s, "open", "open") /\ UNCHANGED told
     \/ /\ Head(ch) # Note /\ Streaming(s, "open", "got") /\ Tell(s, Head(ch))
  /\ StreamOnly /\ UNCHANGED <<term, claimed, journal>>

(* Having sent a terminal event, the stream records it in the object.      *)
StreamSetTerminal(s) ==
  /\ Streaming(s, "got", "live") /\ term' = told[s]
  /\ StreamOnly /\ UNCHANGED <<claimed, ch, journal, told>>

(* Faulty variant: the stream ends without a word.                         *)
StreamClosedSilent(s) ==
  /\ pipe = "closed" /\ ch = <<>> /\ Streaming(s, "open", "snapshot")
  /\ StreamOnly /\ UNCHANGED <<term, claimed, ch, journal, told>>

(* The channel is closed and drained: the stream tells the recorded event, *)
(* and if there is none makes one up and journals it.                      *)
StreamClosed(s) ==
  /\ pipe = "closed" /\ ch = <<>> /\ Streaming(s, "open", "snapshot")
  /\ IF term # None
       THEN Tell(s, term) /\ UNCHANGED <<term, claimed, journal>>
       ELSE /\ Tell(s, "job_failed") /\ term' = "job_failed" /\ claimed' = TRUE
            /\ IF claimed THEN UNCHANGED journal ELSE AppendJournal("job_failed")
  /\ StreamOnly /\ UNCHANGED ch

ClientLeaves(s) ==
  /\ Streaming(s, "open", "gone")
  /\ StreamOnly /\ UNCHANGED <<term, claimed, ch, journal, told>>

Reading(s) == StreamReceive(s) \/ StreamSetTerminal(s) \/ StreamClosed(s)

-----------------------------------------------------------------------------
(* yoloStore.get drops a job whose retention has run out.                  *)
Expire ==
  /\ held /\ term # None /\ held' = FALSE
  /\ UNCHANGED <<pipeVars, term, claimed, ch, ctxDone, storeVars, cancelVars,
                 streamVars, faults>>

(* The process dies: the journal and the record survive.                   *)
Crash ==
  /\ pipe \notin {"none", "dead"} /\ Fault
  /\ pipe' = "dead" /\ out' = "job_done" /\ durable' = "running"
  /\ term' = None /\ claimed' = FALSE /\ ch' = <<>>
  /\ ctxDone' = FALSE /\ held' = FALSE
  /\ cpc' = [c \in Cancels |->
               IF cpc[c] \in {"idle", "answered"} THEN cpc[c] ELSE "lost"]
  /\ spc' = [s \in Streams |->
               IF spc[s] \in {"open", "got"} THEN "gone" ELSE spc[s]]
  /\ UNCHANGED <<emits, storeVars, cres, told>>

Next ==
  \/ Register \/ Pipeline \/ Expire \/ Crash
  \/ \E c \in Cancels : Cancel(c)
  \/ \E s \in Streams : StreamOpen(s) \/ StreamRecovered(s) \/ ClientLeaves(s)
                        \/ Reading(s)

(* Goroutines keep running: the pipeline (whose loop is bounded) and the   *)
(* handlers that have begun.  No client has to arrive, to stay or to       *)
(* cancel.                                                                 *)
Fairness ==
  /\ WF_vars(Pipeline)
  /\ \A c \in Cancels : WF_vars(cpc[c] # "idle" /\ Cancel(c))
  /\ \A s \in Streams : WF_vars(Reading(s))

Spec == Init /\ [][Next]_vars /\ Fairness

-----------------------------------------------------------------------------
(* Properties *)

(* The pipeline never closes the channel of a job without a terminal       *)
(* event, whoever cancelled it and wherever it stopped: the event that a   *)
(* stream makes up when the channel closes is never needed.                *)
ClosedHasTerminal == pipe = "closed" => term # None

(* Once a job is reported ended, it is never reported running again: not   *)
(* after its retention expires, not after a restart that finds progress    *)
(* entries behind its terminal entry.                                      *)
StatusAnswer ==
  IF held THEN term ELSE IF journal = <<>> THEN None ELSE Recovered(journal)
EndedStaysEnded ==
  [][(StatusAnswer \in Terminal) => (StatusAnswer' \in Terminal)]_vars

(* A job nobody cancelled is reported after its retention as it was        *)
(* before: the journal's last entry is the event the object held.          *)
Untouched == \A c \in Cancels : cpc[c] = "idle" \/ cres[c] = "conflict"
RecoveryFaithful == pipe = "closed" /\ Untouched => Recovered(journal) = term

(* When the pipeline is done, the durable record is not left running,      *)
(* unless the loop panicked or a save failed.                              *)
RecordSettled == pipe = "closed" /\ record = "running" => faults > 0

(* The journal carries one outcome of a job, and never another one, unless *)
(* a fault came first: after a panic or a failed save the record is still  *)
(* running when a cancel request comes to it, and                          *)
(* cancelPersistedResearchJob appends job_cancelled without asking the     *)
(* claim flag.                                                             *)
Logged  == {journal[i] : i \in DOMAIN journal}
Decided == {EventType(e) : e \in Logged} \cap Terminal
Outcome == INSTANCE JobOutcome WITH
  Outcomes <- Terminal, Cancelled <- "job_cancelled",
  accepted <- journal # <<>>, troubled <- faults > 0, decided <- Decided
OneOutcome == Outcome!Spec

-----------------------------------------------------------------------------
(* The inductive invariant behind the safety properties.                   *)

CancelUnderWay(c) ==
  cpc[c] \in {"set", "claim", "append", "send", "stop", "load", "save", "log"}

(* Nothing happens to a job before its registration or after a crash.      *)
StageOK ==
  /\ pipe = "none" => /\ journal = <<>> /\ record = None /\ ch = <<>>
                      /\ term = None /\ ~claimed /\ ~ctxDone
                      /\ \A c \in Cancels : cpc[c] = "idle"
  /\ pipe # "none" => journal # <<>>
  /\ pipe \in {"none", "dead"} => /\ ~held /\ ch = <<>>
                                  /\ \A c \in Cancels : ~CancelUnderWay(c)
                                  /\ \A s \in Streams : spc[s] \notin {"open", "got"}

(* A request is answered last.                                             *)
AnswerOK == \A c \in Cancels : cpc[c] # "answered" => cres[c] = None

(* Whoever stops the pipeline has set the terminal event.                  *)
TermOK ==
  /\ ctxDone => term # None
  /\ \A c \in Cancels : CancelUnderWay(c) /\ cpc[c] # "set" => term # None
  /\ pipe \in {"claim", "append", "deliver", "closing", "closed"} => term # None
  /\ \A s \in Streams : spc[s] = "got" => told[s] # None

(* Only the holder of the claim writes a terminal entry of the job itself, *)
(* and only once.                                                          *)
Own == Logged \cap Terminal
ClaimOK ==
  /\ pipe # "dead" /\ ~claimed => Own = {}
  /\ pipe = "append" => /\ claimed /\ Own = {}
                        /\ \A c \in Cancels : cpc[c] # "append"
  /\ \A c \in Cancels : cpc[c] = "append" =>
       /\ claimed /\ Own = {}
       /\ \A d \in Cancels : cpc[d] = "append" => c = d

(* The record is running only while the loop is, unless something failed.  *)
RecordOK ==
  /\ record = "running" /\ faults = 0 =>
       pipe \in {"logStart", "loop", "loopSend", "saveEnd"}
  /\ pipe = "saveEnd" => durable # "running"

(* Without a cancel request, object, channel, streams and journal agree    *)
(* with the pipeline.                                                      *)
FaithOK ==
  Untouched =>
    /\ ~ctxDone
    /\ pipe \notin {"append", "deliver", "closing", "closed"} => ~claimed
    /\ pipe \in {"claim", "append", "deliver", "closing", "closed"} => term = out
    /\ pipe \in {"deliver", "closing", "closed"} => journal[Len(journal)] = out
    /\ \A i \in DOMAIN ch : ch[i] # Note => ch[i] = out /\ pipe \in {"closing", "closed"}
    /\ \A s \in Streams : spc[s] = "got" => told[s] = out /\ pipe \in {"closing", "closed"}

(* The persisted cancel follows the claim.  Without a fault it finds the   *)
(* record running only if the claim was not the pipeline's.                *)
ControlOK ==
  /\ \A o, p \in Own : o = p
  /\ pipe \notin {"append", "deliver", "closing", "closed", "dead"} => Own \subseteq {"job_cancelled"}
  /\ \A c \in Cancels : cpc[c] \in {"send", "stop", "load", "save", "log"} => claimed
  /\ faults = 0 /\ ("control" \in Logged \/ \E c \in Cancels : cpc[c] \in {"save", "log"}) =>
       claimed /\ pipe # "append" /\ Own \subseteq {"job_cancelled"}

IInv == TypeOK /\ StageOK /\ AnswerOK /\ TermOK /\ ClaimOK /\ RecordOK /\ FaithOK

-----------------------------------------------------------------------------
(* Liveness.                                                               *)

(* A stream that is open ends, with a terminal event if its client stays:  *)
(* several streams share the channel, but only one gets the event.         *)
StreamsEnd ==
  \A s \in Streams :
    spc[s] = "open" ~> (told[s] # None \/ spc[s] = "gone")

(* A cancelled context releases the pipeline even if the channel is full   *)
(* and nobody reads it.                                                    *)
CancelReleases == ctxDone ~> pipe \in {"closed", "dead"}
=============================================================================
