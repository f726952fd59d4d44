-------------------------- MODULE ExecutionStream --------------------------
(***************************************************************************)
(* The execution service together with a client of its event stream        *)
(* (DurableExecutionService.Stream): what the client is sent while runs    *)
(* start, end and are stopped under it.                                    *)
(***************************************************************************)
EXTENDS ExecutionService

VARIABLES
  stream,   \* where the streaming client is
  emitted,  \* terminal event types the client has been sent
  got       \* the terminal status it read last

streamVars == <<stream, emitted, got>>
allVars    == <<vars, streamVars>>

StreamTypeOK ==
  /\ TypeOK
  /\ stream \in {"poll", "read", "got", "returned"}
  /\ emitted \subseteq TerminalType
  /\ got \in TerminalStatus \cup {"questioning"}

StreamInit == Init /\ stream = "poll" /\ emitted = {} /\ got = "questioning"

-----------------------------------------------------------------------------
(* Stream: every 300 ms read the journal, then the stored status, then the *)
(* map; each is a read of its own.                                         *)

StreamOnly == UNCHANGED vars

StreamRead ==
  /\ stream = "poll" /\ stream' = "read"
  /\ emitted' = emitted \cup journal
  /\ StreamOnly /\ UNCHANGED got

StreamGet ==
  /\ stream = "read"
  /\ \/ status \in TerminalStatus /\ stream' = "got" /\ got' = status
     \/ status \notin TerminalStatus /\ stream' = "poll" /\ UNCHANGED got
  /\ StreamOnly /\ UNCHANGED emitted

SyntheticTerminalEvent(s) ==
  CASE s = "complete"  -> "completed"
    [] s = "abandoned" -> "plan_cancelled"
    [] OTHER           -> "step_failed"

(* Faulty variant: IsActive is not asked.                                  *)
StreamTrustsStatus ==
  /\ stream = "got" /\ stream' = "returned"
  /\ emitted' = IF emitted = {} THEN {SyntheticTerminalEvent(got)} ELSE emitted
  /\ StreamOnly /\ UNCHANGED got

(* IsActive.  A client that was sent no terminal event gets one made up.   *)
StreamCheck ==
  /\ stream = "got"
  /\ \/ /\ cancels # NoRun /\ stream' = "poll"
        /\ got' = "questioning" /\ UNCHANGED emitted
     \/ /\ cancels = NoRun /\ stream' = "returned"
        /\ emitted' = IF emitted = {} THEN {SyntheticTerminalEvent(got)} ELSE emitted
        /\ UNCHANGED got
  /\ StreamOnly

Stream == StreamRead \/ StreamGet \/ StreamCheck

-----------------------------------------------------------------------------
StreamNext == (Next /\ UNCHANGED streamVars) \/ Stream

(* Fairness: goroutines are scheduled; a cancelled context is noticed,     *)
(* since select chooses among its ready cases at random; the client polls. *)
(* Nothing is assumed of callers or of the runner.                         *)
Fairness ==
  /\ \A r \in Runs :
       WF_allVars((RunBegin(r) \/ PersistRunFailure(r) \/ RunLeave(r)) /\ UNCHANGED streamVars)
  /\ \A r \in Runs : WF_allVars(RunCancelled(r) /\ UNCHANGED streamVars)
  /\ WF_allVars(Stream)

StreamSpec == StreamInit /\ [][StreamNext]_allVars
FairSpec   == StreamSpec /\ Fairness

-----------------------------------------------------------------------------
(* A client whose session has reached a terminal status for good, with no  *)
(* run left, is released.                                                  *)
StreamReturns ==
  <>[](Quiet /\ status \in TerminalStatus) => <>(stream = "returned")

(* A stream does not end while a run is at work: a terminal status that a  *)
(* run stores on its way is not taken for the end.  Only a Cancel or       *)
(* Abandon, which takes the entry of a run that still lives, may end it.   *)
StreamOutlivesRun ==
  [][StreamCheck /\ stream' = "returned" /\ stops = 0 => \A r \in Runs : ~Live(r)]_allVars

(* A cancelled run ends and gives up its goroutine.                        *)
CancelledRunLeaves == \A r \in Runs : r \in done ~> phase[r] = "gone"
=============================================================================
