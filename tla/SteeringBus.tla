----------------------------- MODULE SteeringBus -----------------------------
(***************************************************************************)
(* Steering of a running research session (wisdev/steering_bus.go): HTTP   *)
(* and websocket requests queue signals on the bus and journal them; each  *)
(* run of the autonomous loop replays the journal, registers a channel,    *)
(* and takes one signal per iteration.  One session; several runs of its   *)
(* loop may overlap.  The bus is volatile, the journal survives a restart. *)
(*                                                                         *)
(* A signal is a model value: its key (type, payload, queries, timestamp)  *)
(* is the same before and after its way through the journal.               *)
(***************************************************************************)
EXTENDS Naturals, Sequences, FiniteSets

CONSTANTS
  Signals,      \* accepted requests
  Loops,        \* runs of AutonomousLoop.Run for the session
  NoLoop,       \* the bus has no channel for the session
  ChanCap,      \* capacity of a channel (64 in the code)
  PendCap,      \* limit of the pending queue (64)
  ReplayLimit,  \* entries of the journal that are replayed (64)
  MaxOther,     \* bound: other journal entries of the session
  MaxRestarts   \* bound: restarts of the process

ASSUME LoopsAssumption == NoLoop \notin Loops
ASSUME LimitAssumption ==
  /\ ChanCap \in Nat \ {0} /\ PendCap \in 1..ChanCap /\ ReplayLimit \in Nat \ {0}
  /\ MaxOther \in Nat /\ MaxRestarts \in Nat

VARIABLES
  current,  \* the loop whose channel the bus holds, or NoLoop
  chan,     \* the channel of each loop
  pending,  \* signals waiting for a registration
  seen,     \* keys of the signals the bus has accepted
  journal,  \* the session's journal entries
  spc,      \* where each request is
  lpc,      \* where each loop is
  todo,     \* journal entries a loop has to replay, signals it has to flush
  applied,  \* signals applied since the last restart (history)
  journaled, \* loops whose request carries the journal
  others, restarts

busVars  == <<current, chan, pending, seen>>
loopVars == <<lpc, todo, applied>>
vars     == <<busVars, journal, spc, loopVars, journaled, others, restarts>>

Other == "other"
ASSUME OtherAssumption == Other \notin Signals

RequestPc == {"new", "queued", "accepted", "lost"}
LoopPc    == {"idle", "replaying", "flushing", "running", "ended"}

TypeOK ==
  /\ current \in Loops \cup {NoLoop}
  /\ chan \in [Loops -> Seq(Signals)]
  /\ \A l \in Loops : Len(chan[l]) <= ChanCap
  /\ pending \in Seq(Signals) /\ Len(pending) <= PendCap
  /\ seen \subseteq Signals
  /\ journal \in Seq(Signals \cup {Other})
  /\ spc \in [Signals -> RequestPc] /\ lpc \in [Loops -> LoopPc]
  /\ todo \in [Loops -> Seq(Signals \cup {Other})] /\ applied \in Seq(Signals)
  /\ journaled \subseteq Loops
  /\ others \in 0..MaxOther /\ restarts \in 0..MaxRestarts

Init ==
  /\ current = NoLoop /\ chan = [l \in Loops |-> <<>>]
  /\ pending = <<>> /\ seen = {} /\ journal = <<>>
  /\ spc = [s \in Signals |-> "new"] /\ lpc = [l \in Loops |-> "idle"]
  /\ todo = [l \in Loops |-> <<>>] /\ applied = <<>>
  /\ journaled \in SUBSET Loops
  /\ others = 0 /\ restarts = 0

(* The last n elements of a sequence.                                      *)
LastN(seq, n) ==
  SubSeq(seq, IF Len(seq) > n THEN Len(seq) - n + 1 ELSE 1, Len(seq))

-----------------------------------------------------------------------------
(* queueSteeringSignal, under the lock of the bus: a signal seen before is *)
(* ignored; a registered channel with room gets it; otherwise it is        *)
(* pending, and the oldest pending signals make room.                      *)

(* Faulty variant: duplicates are not recognised.                          *)
EnqueueAgain(s) ==
  /\ seen' = seen \cup {s}
  /\ IF current # NoLoop /\ Len(chan[current]) < ChanCap
       THEN chan' = [chan EXCEPT ![current] = Append(@, s)] /\ UNCHANGED pending
       ELSE pending' = LastN(Append(pending, s), PendCap) /\ UNCHANGED chan

(* Faulty variant: a full pending queue turns the new signal away.         *)
EnqueueDropsNew(s) ==
  IF s \in seen THEN UNCHANGED <<chan, pending, seen>>
  ELSE /\ seen' = seen \cup {s}
       /\ IF current # NoLoop /\ Len(chan[current]) < ChanCap
            THEN chan' = [chan EXCEPT ![current] = Append(@, s)] /\ UNCHANGED pending
            ELSE /\ pending' = IF Len(pending) < PendCap THEN Append(pending, s) ELSE pending
                 /\ UNCHANGED chan

Enqueue(s) ==
  IF s \in seen THEN UNCHANGED <<chan, pending, seen>>
  ELSE /\ seen' = seen \cup {s}
       /\ IF current # NoLoop /\ Len(chan[current]) < ChanCap
            THEN chan' = [chan EXCEPT ![current] = Append(@, s)] /\ UNCHANGED pending
            ELSE pending' = LastN(Append(pending, s), PendCap) /\ UNCHANGED chan

-----------------------------------------------------------------------------
(* acceptSteeringSignal: the bus first, then the journal.                  *)

SubmitQueue(s) ==
  /\ spc[s] = "new" /\ spc' = [spc EXCEPT ![s] = "queued"]
  /\ Enqueue(s)
  /\ UNCHANGED <<current, journal, loopVars, journaled, others, restarts>>

SubmitJournal(s) ==
  /\ spc[s] = "queued" /\ spc' = [spc EXCEPT ![s] = "accepted"]
  /\ journal' = Append(journal, s)
  /\ UNCHANGED <<busVars, loopVars, journaled, others, restarts>>

(* Everything else that journals an entry of the session.                  *)
JournalOther ==
  /\ others < MaxOther /\ others' = others + 1
  /\ journal' = Append(journal, Other)
  /\ UNCHANGED <<busVars, spc, loopVars, journaled, restarts>>

-----------------------------------------------------------------------------
(* AutonomousLoop.Run: replay, register, one signal per iteration,         *)
(* unregister.                                                             *)

LoopAt(l, from, to) == lpc[l] = from /\ lpc' = [lpc EXCEPT ![l] = to]

(* Faulty variant: the oldest entries are replayed.                        *)
ReplayReadOldest(l) ==
  /\ LoopAt(l, "idle", "replaying")
  /\ todo' = [todo EXCEPT ![l] =
       IF l \notin journaled THEN <<>>
       ELSE SubSeq(journal, 1, IF Len(journal) < ReplayLimit THEN Len(journal) ELSE ReplayLimit)]
  /\ UNCHANGED <<busVars, journal, spc, applied, journaled, others, restarts>>

(* ReplayJournaledSteeringSignals reads the last entries of the session,   *)
(* whatever their type, and queues the signals among them.  It reads       *)
(* nothing for a loop whose request has no journal: only the unified       *)
(* runtime sets one.                                                       *)
ReplayRead(l) ==
  /\ LoopAt(l, "idle", "replaying")
  /\ todo' = [todo EXCEPT ![l] = IF l \in journaled THEN LastN(journal, ReplayLimit) ELSE <<>>]
  /\ UNCHANGED <<busVars, journal, spc, applied, journaled, others, restarts>>

ReplayNext(l) ==
  /\ lpc[l] = "replaying" /\ todo[l] # <<>>
  /\ IF Head(todo[l]) = Other THEN UNCHANGED <<chan, pending, seen>>
                               ELSE Enqueue(Head(todo[l]))
  /\ todo' = [todo EXCEPT ![l] = Tail(@)]
  /\ UNCHANGED <<current, journal, spc, lpc, applied, journaled, others, restarts>>

(* RegisterSteeringChannel takes over the registration and the pending     *)
(* signals under the lock, and fills them into its channel after it.       *)
Register(l) ==
  /\ todo[l] = <<>> /\ LoopAt(l, "replaying", "flushing")
  /\ current' = l /\ pending' = <<>> /\ todo' = [todo EXCEPT ![l] = pending]
  /\ UNCHANGED <<chan, seen, journal, spc, applied, journaled, others, restarts>>

Flush(l) ==
  /\ lpc[l] = "flushing" /\ todo[l] # <<>> /\ Len(chan[l]) < ChanCap
  /\ chan' = [chan EXCEPT ![l] = Append(@, Head(todo[l]))]
  /\ todo' = [todo EXCEPT ![l] = Tail(@)]
  /\ UNCHANGED <<current, pending, seen, journal, spc, lpc, applied, journaled, others, restarts>>

Registered(l) ==
  /\ todo[l] = <<>> /\ LoopAt(l, "flushing", "running")
  /\ UNCHANGED <<busVars, journal, spc, todo, applied, journaled, others, restarts>>

Poll(l) ==
  /\ lpc[l] = "running" /\ chan[l] # <<>>
  /\ applied' = Append(applied, Head(chan[l]))
  /\ chan' = [chan EXCEPT ![l] = Tail(@)]
  /\ UNCHANGED <<current, pending, seen, journal, spc, lpc, todo, journaled, others, restarts>>

(* Faulty variant: the registration is removed whoever holds it.           *)
UnregisterAny(l) ==
  /\ LoopAt(l, "running", "ended") /\ current' = NoLoop
  /\ UNCHANGED <<chan, pending, seen, journal, spc, todo, applied, journaled, others, restarts>>

(* Faulty variant: the channel is closed and left with the bus.            *)
UnregisterKeeps(l) ==
  /\ LoopAt(l, "running", "ended")
  /\ UNCHANGED <<busVars, journal, spc, todo, applied, journaled, others, restarts>>

(* A loop may end with signals in its channel.                             *)
Unregister(l) ==
  /\ LoopAt(l, "running", "ended")
  /\ current' = IF current = l THEN NoLoop ELSE current
  /\ UNCHANGED <<chan, pending, seen, journal, spc, todo, applied, journaled, others, restarts>>

Loop(l) == ReplayRead(l) \/ ReplayNext(l) \/ Register(l) \/ Flush(l)
           \/ Registered(l) \/ Poll(l) \/ Unregister(l)

-----------------------------------------------------------------------------
(* The process restarts: the bus is empty, requests and loops under way    *)
(* are gone.                                                               *)
Restart ==
  /\ restarts < MaxRestarts /\ restarts' = restarts + 1
  /\ current' = NoLoop /\ chan' = [l \in Loops |-> <<>>]
  /\ pending' = <<>> /\ seen' = {} /\ applied' = <<>>
  /\ todo' = [l \in Loops |-> <<>>]
  /\ spc' = [s \in Signals |-> IF spc[s] = "queued" THEN "lost" ELSE spc[s]]
  /\ lpc' = [l \in Loops |-> IF lpc[l] = "idle" THEN "idle" ELSE "ended"]
  /\ UNCHANGED <<journal, journaled, others>>

Next ==
  \/ \E s \in Signals : SubmitQueue(s) \/ SubmitJournal(s)
  \/ \E l \in Loops : Loop(l)
  \/ JournalOther \/ Restart

(* A loop that has started goes on.                                        *)
Spec == Init /\ [][Next]_vars
        /\ \A l \in Loops : WF_vars(lpc[l] # "idle" /\ Loop(l))

-----------------------------------------------------------------------------
(* Properties *)

(* Where the process holds signals: the pending queue, the channels of     *)
(* loops that have not ended, what a loop is flushing into its channel,    *)
(* and the signals already applied.                                        *)
Boxes == {<<"pending", NoLoop>>, <<"applied", NoLoop>>} \cup ({"chan", "todo"} \X Loops)
Box(b) ==
  CASE b[1] = "pending" -> pending
    [] b[1] = "applied" -> applied
    [] b[1] = "chan"    -> IF lpc[b[2]] # "ended" THEN chan[b[2]] ELSE <<>>
    [] b[1] = "todo"    -> IF lpc[b[2]] = "flushing" THEN todo[b[2]] ELSE <<>>
Places(s) == UNION {{b} \X {i \in DOMAIN Box(b) : Box(b)[i] = s} : b \in Boxes}

(* No signal is in two places: neither a replay that overlaps a request    *)
(* nor two loops that overlap make a signal count twice before a restart.  *)
HeldOnce == \A s \in Signals : Cardinality(Places(s)) <= 1

(* A signal the bus accepts is held from then on, until it is lost in one  *)
(* of three ways: it is the oldest of a full pending queue and a signal    *)
(* accepted now takes its turn at the end, its loop ends before reading    *)
(* it, or the process restarts.  None is lost on arrival.                  *)
LostOnlyKnownWays ==
  [][\A s \in Signals :
       (Places(s) # {} \/ s \in seen' \ seen) /\ Places(s)' = {} =>
         \/ restarts' # restarts
         \/ /\ Len(pending) = PendCap /\ pending[1] = s
            /\ \E t \in seen' \ seen : pending'[PendCap] = t
         \/ \E l \in Loops :
              /\ lpc[l] = "running" /\ lpc'[l] = "ended"
              /\ \E i \in DOMAIN chan[l] : chan[l][i] = s]_vars

(* A loop loses its registration to its own end, to a newer loop or to a   *)
(* restart, never to the end of an older loop.                             *)
RegistrationHeld ==
  [][current # NoLoop /\ current' # current =>
       \/ lpc'[current] = "ended"
       \/ \E l \in Loops : current' = l /\ lpc[l] = "replaying"]_vars

(* A channel the bus holds is open: queueing never sends on a closed one.  *)
HeldChannelOpen == current # NoLoop => lpc[current] \in {"flushing", "running"}

(* Once a loop with the journal has registered, also after a restart, the  *)
(* bus knows every signal among the last ReplayLimit entries of the        *)
(* session's journal.                                                      *)
ReplayComplete ==
  (\E l \in journaled : lpc[l] \in {"flushing", "running"}) =>
    LET recent == LastN(journal, ReplayLimit)
    IN \A i \in DOMAIN recent : recent[i] \in Signals => recent[i] \in seen

-----------------------------------------------------------------------------
(* The inductive invariant behind the safety properties.                   *)

(* A place is determined by the signal it holds.                           *)
OnceOK ==
  \A b, c \in Boxes : \A i \in DOMAIN Box(b), j \in DOMAIN Box(c) :
    Box(b)[i] = Box(c)[j] => b = c /\ i = j

(* The bus has seen what the process holds, and what is to be journalled.  *)
SeenOK ==
  /\ \A b \in Boxes : \A i \in DOMAIN Box(b) : Box(b)[i] \in seen
  /\ \A s \in Signals : spc[s] = "queued" => s \in seen

FlushOK == \A l \in Loops : lpc[l] = "flushing" => todo[l] \in Seq(Signals)

(* What a loop has not seen of the recent entries it has still to replay.  *)
Recent(e) == \E i \in DOMAIN LastN(journal, ReplayLimit) : LastN(journal, ReplayLimit)[i] = e
ReplayOK ==
  \A s \in Signals : Recent(s) /\ s \notin seen =>
    \A l \in journaled : /\ lpc[l] \notin {"flushing", "running"}
                         /\ lpc[l] = "replaying" => \E i \in DOMAIN todo[l] : todo[l][i] = s

IInv == TypeOK /\ HeldChannelOpen /\ OnceOK /\ SeenOK /\ FlushOK /\ ReplayOK

-----------------------------------------------------------------------------
(* Liveness.                                                               *)

(* TestSteeringBusQueuesSignalsUntilSessionRegisters (steering_bus_test.go *)
(* line 29) registers with signals pending and expects to read them.       *)
RegisterReturns ==
  \A l \in Loops : lpc[l] = "flushing" ~> lpc[l] # "flushing"

=============================================================================
