---------------------------- MODULE YoloJobProofs ----------------------------
(***************************************************************************)
(* Proofs about YoloJob, for any number of streams and cancel requests.    *)
(***************************************************************************)
EXTENDS YoloJob, TLAPS

(* Appending to the journal, as the handlers and the pipeline do: the      *)
(* entry is the last one, and decides the job if it is terminal.           *)
LEMMA AppendFacts ==
  ASSUME NEW e \in Entry, journal \in Seq(Entry), AppendJournal(e)
  PROVE  /\ journal' \in Seq(Entry) /\ journal' # <<>>
         /\ journal'[Len(journal')] = e
         /\ Logged' = Logged \cup {e}
         /\ Own' = Own \cup ({e} \cap Terminal)
<1>1. CASE e = Note /\ journal # <<>> /\ journal[Len(journal)] = Note
  <2>1. journal' = journal
    BY <1>1 DEF AppendJournal
  <2>2. {e} \cap Terminal = {}
    BY <1>1 DEF Note, Terminal
  <2>3. e \in {journal[i] : i \in DOMAIN journal}
    <3>1. Len(journal) \in DOMAIN journal
      BY <1>1
    <3>. QED BY <1>1, <3>1
  <2>. QED BY <1>1, <2>1, <2>2, <2>3 DEF Own, Logged
<1>2. CASE ~(e = Note /\ journal # <<>> /\ journal[Len(journal)] = Note)
  <2>1. journal' = Append(journal, e)
    BY <1>2 DEF AppendJournal
  <2>2. /\ journal' \in Seq(Entry) /\ journal' # <<>>
        /\ Len(journal') = Len(journal) + 1
        /\ journal'[Len(journal')] = e
        /\ DOMAIN journal' = 1..(Len(journal) + 1)
        /\ \A i \in 1..Len(journal) : journal'[i] = journal[i]
        /\ Len(journal) \in Nat /\ DOMAIN journal = 1..Len(journal)
    BY <2>1
  <2>3. {journal'[i] : i \in DOMAIN journal'} = {journal[i] : i \in DOMAIN journal} \cup {e}
    BY <2>2
  <2>. QED BY <2>2, <2>3 DEF Own, Logged
<1>. QED BY <1>1, <1>2

LEMMA EntryFacts ==
  /\ Note \in Entry /\ "control" \in Entry /\ Terminal \subseteq Entry
  /\ {Note} \cap Terminal = {} /\ {"control"} \cap Terminal = {}
  /\ \A o \in Terminal : {o} \cap Terminal = {o}
BY DEF Entry, Terminal, Note

(* The log of a job has a recovered status, and it is terminal.            *)
LEMMA RecoveredFacts ==
  ASSUME NEW j \in Seq(Entry), j # <<>>
  PROVE  /\ Recovered(j) \in Terminal
         /\ j[Len(j)] \in Terminal => Recovered(j) = j[Len(j)]
<1>1. j[Len(j)] \in Entry
  OBVIOUS
<1>. QED BY <1>1 DEF Recovered, IsTerminal, EventType, Entry, Terminal, Note

(* What a step does to the channel.                                        *)
LEMMA PushFacts ==
  ASSUME NEW e \in Terminal \cup {Note}, ch \in Seq(Terminal \cup {Note}),
         Len(ch) <= ChanCap, Push(e)
  PROVE  /\ ch' \in Seq(Terminal \cup {Note}) /\ Len(ch') <= ChanCap
         /\ \A i \in DOMAIN ch' : ch'[i] = e \/ \E k \in DOMAIN ch : ch'[i] = ch[k]
BY ChanAssumption DEF Push

LEMMA TailFacts ==
  ASSUME ch \in Seq(Terminal \cup {Note}), Len(ch) <= ChanCap, ch # <<>>, ch' = Tail(ch)
  PROVE  /\ ch' \in Seq(Terminal \cup {Note}) /\ Len(ch') <= ChanCap
         /\ 1 \in DOMAIN ch /\ Head(ch) = ch[1] /\ Head(ch) \in Terminal \cup {Note}
         /\ \A i \in DOMAIN ch' : \E k \in DOMAIN ch : ch'[i] = ch[k]
BY ChanAssumption

(* Every step preserves the inductive invariant: one lemma per action.     *)

LEMMA RegisterStep ==
  ASSUME IInv, Register
  PROVE  IInv'
<1>. USE DEF IInv
<1>1. /\ journal' \in Seq(Entry) /\ journal' # <<>> /\ journal'[Len(journal')] = Note
      /\ Own' = Own \cup ({Note} \cap Terminal)
  BY AppendFacts, EntryFacts DEF Register, cancelVars, streamVars, TypeOK
<1>2. TypeOK'
  BY BoundAssumption, <1>1 DEF Register, cancelVars, streamVars, TypeOK, Pipe, Terminal
<1>3. StageOK'
  BY <1>1 DEF Register, cancelVars, streamVars, StageOK, TypeOK, CancelUnderWay
<1>4. AnswerOK'
  BY <1>1 DEF Register, cancelVars, streamVars, AnswerOK, TypeOK, None
<1>5. TermOK'
  BY <1>1
  DEF Register, cancelVars, streamVars, TermOK, TypeOK, StageOK, CancelUnderWay, Terminal, None
<1>6. ClaimOK'
  BY <1>1
  DEF Register, cancelVars, streamVars, ClaimOK, TypeOK, StageOK, TermOK, CancelUnderWay,
      Terminal, Note
<1>7. RecordOK'
  BY BoundAssumption, <1>1
  DEF Register, cancelVars, streamVars, RecordOK, TypeOK, RecordStatus, None
<1>8. FaithOK'
  BY <1>1
  DEF Register, cancelVars, streamVars, FaithOK, TypeOK, StageOK, AnswerOK, TermOK, Untouched,
      CancelUnderWay, Terminal, Note, None
<1>. QED BY <1>2, <1>3, <1>4, <1>5, <1>6, <1>7, <1>8

LEMMA SendStartedStep ==
  ASSUME IInv, SendStarted
  PROVE  IInv'
<1>. USE DEF IInv
<1>1. /\ journal' \in Seq(Entry) /\ journal' # <<>> /\ journal'[Len(journal')] = Note
      /\ Own' = Own \cup ({Note} \cap Terminal)
  BY AppendFacts, EntryFacts
  DEF SendStarted, JournalNote, PipeOnly, cancelVars, streamVars, TypeOK
<1>2. TypeOK'
  BY BoundAssumption, <1>1
  DEF SendStarted, JournalNote, PipeOnly, cancelVars, streamVars, TypeOK, Pipe, Terminal, None,
      RecordStatus
<1>3. StageOK'
  BY <1>1
  DEF SendStarted, JournalNote, PipeOnly, cancelVars, streamVars, StageOK, TypeOK,
      CancelUnderWay
<1>4. AnswerOK'
  BY <1>1 DEF SendStarted, JournalNote, PipeOnly, cancelVars, streamVars, AnswerOK, TypeOK, None
<1>5. TermOK'
  BY <1>1
  DEF SendStarted, JournalNote, PipeOnly, cancelVars, streamVars, TermOK, TypeOK, StageOK,
      CancelUnderWay, Terminal, None
<1>6. ClaimOK'
  BY <1>1
  DEF SendStarted, JournalNote, PipeOnly, cancelVars, streamVars, ClaimOK, TypeOK, StageOK,
      TermOK, CancelUnderWay, Terminal, Note
<1>7. RecordOK'
  BY BoundAssumption, <1>1
  DEF SendStarted, JournalNote, PipeOnly, cancelVars, streamVars, RecordOK, TypeOK,
      RecordStatus, None
<1>8. FaithOK'
  BY <1>1
  DEF SendStarted, JournalNote, PipeOnly, cancelVars, streamVars, FaithOK, TypeOK, StageOK,
      AnswerOK, TermOK, Untouched, CancelUnderWay, Terminal, Note, None
<1>. QED BY <1>2, <1>3, <1>4, <1>5, <1>6, <1>7, <1>8

LEMMA ProgressStep ==
  ASSUME IInv, Progress
  PROVE  IInv'
<1>. USE DEF IInv
<1>1. /\ journal' \in Seq(Entry) /\ journal' # <<>> /\ journal'[Len(journal')] = Note
      /\ Own' = Own \cup ({Note} \cap Terminal)
  BY AppendFacts, EntryFacts DEF Progress, JournalNote, PipeOnly, cancelVars, streamVars, TypeOK
<1>2. TypeOK'
  BY BoundAssumption, <1>1
  DEF Progress, JournalNote, PipeOnly, cancelVars, streamVars, TypeOK, Pipe, Terminal, None,
      RecordStatus
<1>3. StageOK'
  BY <1>1
  DEF Progress, JournalNote, PipeOnly, cancelVars, streamVars, StageOK, TypeOK, CancelUnderWay
<1>4. AnswerOK'
  BY <1>1 DEF Progress, JournalNote, PipeOnly, cancelVars, streamVars, AnswerOK, TypeOK, None
<1>5. TermOK'
  BY <1>1
  DEF Progress, JournalNote, PipeOnly, cancelVars, streamVars, TermOK, TypeOK, StageOK,
      CancelUnderWay, Terminal, None
<1>6. ClaimOK'
  BY <1>1
  DEF Progress, JournalNote, PipeOnly, cancelVars, streamVars, ClaimOK, TypeOK, StageOK, TermOK,
      CancelUnderWay, Terminal, Note
<1>7. RecordOK'
  BY BoundAssumption, <1>1
  DEF Progress, JournalNote, PipeOnly, cancelVars, streamVars, RecordOK, TypeOK, RecordStatus,
      None
<1>8. FaithOK'
  BY <1>1
  DEF Progress, JournalNote, PipeOnly, cancelVars, streamVars, FaithOK, TypeOK, StageOK,
      AnswerOK, TermOK, Untouched, CancelUnderWay, Terminal, Note, None
<1>. QED BY <1>2, <1>3, <1>4, <1>5, <1>6, <1>7, <1>8

LEMMA StartedSentStep ==
  ASSUME IInv, StartedSent
  PROVE  IInv'
<1>. USE DEF IInv
<1>1. journal' = journal /\ Own' = Own
  BY DEF StartedSent, SelectOnly, storeVars, Skip, PipeOnly, cancelVars, streamVars, Own, Logged
<1>2. /\ ch' \in Seq(Terminal \cup {Note}) /\ Len(ch') <= ChanCap
      /\ \A i \in DOMAIN ch' : ch'[i] = Note \/ \E k \in DOMAIN ch : ch'[i] = ch[k]
  BY PushFacts
  DEF StartedSent, SelectOnly, storeVars, Skip, PipeOnly, cancelVars, streamVars, TypeOK,
      Terminal
<1>3. TypeOK'
  BY BoundAssumption, <1>1, <1>2
  DEF StartedSent, SelectOnly, storeVars, Skip, PipeOnly, cancelVars, streamVars, TypeOK, Pipe,
      Terminal, None, RecordStatus
<1>4. StageOK'
  BY <1>1, <1>2
  DEF StartedSent, SelectOnly, storeVars, Skip, PipeOnly, cancelVars, streamVars, StageOK,
      TypeOK, CancelUnderWay
<1>5. AnswerOK'
  BY <1>1, <1>2
  DEF StartedSent, SelectOnly, storeVars, Skip, PipeOnly, cancelVars, streamVars, AnswerOK,
      TypeOK, None
<1>6. TermOK'
  BY <1>1, <1>2
  DEF StartedSent, SelectOnly, storeVars, Skip, PipeOnly, cancelVars, streamVars, TermOK,
      TypeOK, StageOK, CancelUnderWay, Terminal, None
<1>7. ClaimOK'
  BY <1>1, <1>2
  DEF StartedSent, SelectOnly, storeVars, Skip, PipeOnly, cancelVars, streamVars, ClaimOK,
      TypeOK, StageOK, TermOK, CancelUnderWay, Terminal, Note
<1>8. RecordOK'
  BY BoundAssumption, <1>1, <1>2
  DEF StartedSent, SelectOnly, storeVars, Skip, PipeOnly, cancelVars, streamVars, RecordOK,
      TypeOK, RecordStatus, None
<1>9. FaithOK'
  BY <1>1, <1>2
  DEF StartedSent, SelectOnly, storeVars, Skip, PipeOnly, cancelVars, streamVars, FaithOK,
      TypeOK, StageOK, AnswerOK, TermOK, Untouched, CancelUnderWay, Terminal, Note, None
<1>. QED BY <1>3, <1>4, <1>5, <1>6, <1>7, <1>8, <1>9

LEMMA ProgressSentStep ==
  ASSUME IInv, ProgressSent
  PROVE  IInv'
<1>. USE DEF IInv
<1>1. journal' = journal /\ Own' = Own
  BY
  DEF ProgressSent, AfterSend, SelectOnly, storeVars, Skip, PipeOnly, cancelVars, streamVars,
      Own, Logged
<1>2. /\ ch' \in Seq(Terminal \cup {Note}) /\ Len(ch') <= ChanCap
      /\ \A i \in DOMAIN ch' : ch'[i] = Note \/ \E k \in DOMAIN ch : ch'[i] = ch[k]
  BY PushFacts
  DEF ProgressSent, AfterSend, SelectOnly, storeVars, Skip, PipeOnly, cancelVars, streamVars,
      TypeOK, Terminal
<1>3. TypeOK'
  BY BoundAssumption, <1>1, <1>2
  DEF ProgressSent, AfterSend, SelectOnly, storeVars, Skip, PipeOnly, cancelVars, streamVars,
      TypeOK, Pipe, Terminal, None, RecordStatus
<1>4. StageOK'
  BY <1>1, <1>2
  DEF ProgressSent, AfterSend, SelectOnly, storeVars, Skip, PipeOnly, cancelVars, streamVars,
      StageOK, TypeOK, CancelUnderWay
<1>5. AnswerOK'
  BY <1>1, <1>2
  DEF ProgressSent, AfterSend, SelectOnly, storeVars, Skip, PipeOnly, cancelVars, streamVars,
      AnswerOK, TypeOK, None
<1>6. TermOK'
  BY <1>1, <1>2
  DEF ProgressSent, AfterSend, SelectOnly, storeVars, Skip, PipeOnly, cancelVars, streamVars,
      TermOK, TypeOK, StageOK, CancelUnderWay, Terminal, None
<1>7. ClaimOK'
  BY <1>1, <1>2
  DEF ProgressSent, AfterSend, SelectOnly, storeVars, Skip, PipeOnly, cancelVars, streamVars,
      ClaimOK, TypeOK, StageOK, TermOK, CancelUnderWay, Terminal, Note
<1>8. RecordOK'
  BY BoundAssumption, <1>1, <1>2
  DEF ProgressSent, AfterSend, SelectOnly, storeVars, Skip, PipeOnly, cancelVars, streamVars,
      RecordOK, TypeOK, RecordStatus, None
<1>9. FaithOK'
  BY <1>1, <1>2
  DEF ProgressSent, AfterSend, SelectOnly, storeVars, Skip, PipeOnly, cancelVars, streamVars,
      FaithOK, TypeOK, StageOK, AnswerOK, TermOK, Untouched, CancelUnderWay, Terminal, Note,
      None
<1>. QED BY <1>3, <1>4, <1>5, <1>6, <1>7, <1>8, <1>9

LEMMA NothingToRunStep ==
  ASSUME IInv, NothingToRun
  PROVE  IInv'
<1>. USE DEF IInv
<1>1. journal' = journal /\ Own' = Own
  BY DEF NothingToRun, storeVars, PipeOnly, cancelVars, streamVars, Own, Logged
<1>2. TypeOK'
  BY BoundAssumption, <1>1
  DEF NothingToRun, storeVars, PipeOnly, cancelVars, streamVars, TypeOK, Pipe, Terminal, None,
      RecordStatus
<1>3. StageOK'
  BY <1>1
  DEF NothingToRun, storeVars, PipeOnly, cancelVars, streamVars, StageOK, TypeOK, CancelUnderWay
<1>4. AnswerOK'
  BY <1>1 DEF NothingToRun, storeVars, PipeOnly, cancelVars, streamVars, AnswerOK, TypeOK, None
<1>5. TermOK'
  BY <1>1
  DEF NothingToRun, storeVars, PipeOnly, cancelVars, streamVars, TermOK, TypeOK, StageOK,
      CancelUnderWay, Terminal, None
<1>6. ClaimOK'
  BY <1>1
  DEF NothingToRun, storeVars, PipeOnly, cancelVars, streamVars, ClaimOK, TypeOK, StageOK,
      TermOK, CancelUnderWay, Terminal, Note
<1>7. RecordOK'
  BY BoundAssumption, <1>1
  DEF NothingToRun, storeVars, PipeOnly, cancelVars, streamVars, RecordOK, TypeOK, RecordStatus,
      None
<1>8. FaithOK'
  BY <1>1
  DEF NothingToRun, storeVars, PipeOnly, cancelVars, streamVars, FaithOK, TypeOK, StageOK,
      AnswerOK, TermOK, Untouched, CancelUnderWay, Terminal, Note, None
<1>. QED BY <1>2, <1>3, <1>4, <1>5, <1>6, <1>7, <1>8

LEMMA LoopWithoutRuntimeStep ==
  ASSUME IInv, LoopWithoutRuntime
  PROVE  IInv'
<1>. USE DEF IInv
<1>1. journal' = journal /\ Own' = Own
  BY DEF LoopWithoutRuntime, storeVars, PipeOnly, cancelVars, streamVars, Own, Logged
<1>2. TypeOK'
  BY BoundAssumption, <1>1
  DEF LoopWithoutRuntime, storeVars, PipeOnly, cancelVars, streamVars, TypeOK, Pipe, Terminal,
      None, RecordStatus
<1>3. StageOK'
  BY <1>1
  DEF LoopWithoutRuntime, storeVars, PipeOnly, cancelVars, streamVars, StageOK, TypeOK,
      CancelUnderWay
<1>4. AnswerOK'
  BY <1>1
  DEF LoopWithoutRuntime, storeVars, PipeOnly, cancelVars, streamVars, AnswerOK, TypeOK, None
<1>5. TermOK'
  BY <1>1
  DEF LoopWithoutRuntime, storeVars, PipeOnly, cancelVars, streamVars, TermOK, TypeOK, StageOK,
      CancelUnderWay, Terminal, None
<1>6. ClaimOK'
  BY <1>1
  DEF LoopWithoutRuntime, storeVars, PipeOnly, cancelVars, streamVars, ClaimOK, TypeOK, StageOK,
      TermOK, CancelUnderWay, Terminal, Note
<1>7. RecordOK'
  BY BoundAssumption, <1>1
  DEF LoopWithoutRuntime, storeVars, PipeOnly, cancelVars, streamVars, RecordOK, TypeOK,
      RecordStatus, None
<1>8. FaithOK'
  BY <1>1
  DEF LoopWithoutRuntime, storeVars, PipeOnly, cancelVars, streamVars, FaithOK, TypeOK, StageOK,
      AnswerOK, TermOK, Untouched, CancelUnderWay, Terminal, Note, None
<1>. QED BY <1>2, <1>3, <1>4, <1>5, <1>6, <1>7, <1>8

LEMMA PersistStartStep ==
  ASSUME IInv, PersistStart
  PROVE  IInv'
<1>. USE DEF IInv
<1>1. journal' = journal /\ Own' = Own
  BY DEF PersistStart, Fault, PipeOnly, cancelVars, streamVars, Own, Logged
<1>2. TypeOK'
  BY BoundAssumption, <1>1
  DEF PersistStart, Fault, PipeOnly, cancelVars, streamVars, TypeOK, Pipe, Terminal, None,
      RecordStatus
<1>3. StageOK'
  BY <1>1
  DEF PersistStart, Fault, PipeOnly, cancelVars, streamVars, StageOK, TypeOK, CancelUnderWay
<1>4. AnswerOK'
  BY <1>1 DEF PersistStart, Fault, PipeOnly, cancelVars, streamVars, AnswerOK, TypeOK, None
<1>5. TermOK'
  BY <1>1
  DEF PersistStart, Fault, PipeOnly, cancelVars, streamVars, TermOK, TypeOK, StageOK,
      CancelUnderWay, Terminal, None
<1>6. ClaimOK'
  BY <1>1
  DEF PersistStart, Fault, PipeOnly, cancelVars, streamVars, ClaimOK, TypeOK, StageOK, TermOK,
      CancelUnderWay, Terminal, Note
<1>7. RecordOK'
  BY BoundAssumption, <1>1
  DEF PersistStart, Fault, PipeOnly, cancelVars, streamVars, RecordOK, TypeOK, RecordStatus,
      None
<1>8. FaithOK'
  BY <1>1
  DEF PersistStart, Fault, PipeOnly, cancelVars, streamVars, FaithOK, TypeOK, StageOK, AnswerOK,
      TermOK, Untouched, CancelUnderWay, Terminal, Note, None
<1>. QED BY <1>2, <1>3, <1>4, <1>5, <1>6, <1>7, <1>8

LEMMA LogStartStep ==
  ASSUME IInv, LogStart
  PROVE  IInv'
<1>. USE DEF IInv
<1>1. /\ journal' \in Seq(Entry) /\ journal' # <<>> /\ journal'[Len(journal')] = Note
      /\ Own' = Own \cup ({Note} \cap Terminal)
  BY AppendFacts, EntryFacts DEF LogStart, JournalNote, PipeOnly, cancelVars, streamVars, TypeOK
<1>2. TypeOK'
  BY BoundAssumption, <1>1
  DEF LogStart, JournalNote, PipeOnly, cancelVars, streamVars, TypeOK, Pipe, Terminal, None,
      RecordStatus
<1>3. StageOK'
  BY <1>1
  DEF LogStart, JournalNote, PipeOnly, cancelVars, streamVars, StageOK, TypeOK, CancelUnderWay
<1>4. AnswerOK'
  BY <1>1 DEF LogStart, JournalNote, PipeOnly, cancelVars, streamVars, AnswerOK, TypeOK, None
<1>5. TermOK'
  BY <1>1
  DEF LogStart, JournalNote, PipeOnly, cancelVars, streamVars, TermOK, TypeOK, StageOK,
      CancelUnderWay, Terminal, None
<1>6. ClaimOK'
  BY <1>1
  DEF LogStart, JournalNote, PipeOnly, cancelVars, streamVars, ClaimOK, TypeOK, StageOK, TermOK,
      CancelUnderWay, Terminal, Note
<1>7. RecordOK'
  BY BoundAssumption, <1>1
  DEF LogStart, JournalNote, PipeOnly, cancelVars, streamVars, RecordOK, TypeOK, RecordStatus,
      None
<1>8. FaithOK'
  BY <1>1
  DEF LogStart, JournalNote, PipeOnly, cancelVars, streamVars, FaithOK, TypeOK, StageOK,
      AnswerOK, TermOK, Untouched, CancelUnderWay, Terminal, Note, None
<1>. QED BY <1>2, <1>3, <1>4, <1>5, <1>6, <1>7, <1>8

LEMMA LoopReturnsStep ==
  ASSUME IInv, LoopReturns
  PROVE  IInv'
<1>. USE DEF IInv
<1>1. journal' = journal /\ Own' = Own
  BY DEF LoopReturns, storeVars, PipeOnly, cancelVars, streamVars, Own, Logged
<1>2. TypeOK'
  BY BoundAssumption, <1>1
  DEF LoopReturns, storeVars, PipeOnly, cancelVars, streamVars, TypeOK, Pipe, Terminal, None,
      RecordStatus
<1>3. StageOK'
  BY <1>1
  DEF LoopReturns, storeVars, PipeOnly, cancelVars, streamVars, StageOK, TypeOK, CancelUnderWay
<1>4. AnswerOK'
  BY <1>1 DEF LoopReturns, storeVars, PipeOnly, cancelVars, streamVars, AnswerOK, TypeOK, None
<1>5. TermOK'
  BY <1>1
  DEF LoopReturns, storeVars, PipeOnly, cancelVars, streamVars, TermOK, TypeOK, StageOK,
      CancelUnderWay, Terminal, None
<1>6. ClaimOK'
  BY <1>1
  DEF LoopReturns, storeVars, PipeOnly, cancelVars, streamVars, ClaimOK, TypeOK, StageOK,
      TermOK, CancelUnderWay, Terminal, Note
<1>7. RecordOK'
  BY BoundAssumption, <1>1
  DEF LoopReturns, storeVars, PipeOnly, cancelVars, streamVars, RecordOK, TypeOK, RecordStatus,
      None
<1>8. FaithOK'
  BY <1>1
  DEF LoopReturns, storeVars, PipeOnly, cancelVars, streamVars, FaithOK, TypeOK, StageOK,
      AnswerOK, TermOK, Untouched, CancelUnderWay, Terminal, Note, None
<1>. QED BY <1>2, <1>3, <1>4, <1>5, <1>6, <1>7, <1>8

LEMMA LoopPanicsStep ==
  ASSUME IInv, LoopPanics
  PROVE  IInv'
<1>. USE DEF IInv
<1>1. journal' = journal /\ Own' = Own
  BY DEF LoopPanics, Fault, storeVars, PipeOnly, cancelVars, streamVars, Own, Logged
<1>2. TypeOK'
  BY BoundAssumption, <1>1
  DEF LoopPanics, Fault, storeVars, PipeOnly, cancelVars, streamVars, TypeOK, Pipe, Terminal,
      None, RecordStatus
<1>3. StageOK'
  BY <1>1
  DEF LoopPanics, Fault, storeVars, PipeOnly, cancelVars, streamVars, StageOK, TypeOK,
      CancelUnderWay
<1>4. AnswerOK'
  BY <1>1
  DEF LoopPanics, Fault, storeVars, PipeOnly, cancelVars, streamVars, AnswerOK, TypeOK, None
<1>5. TermOK'
  BY <1>1
  DEF LoopPanics, Fault, storeVars, PipeOnly, cancelVars, streamVars, TermOK, TypeOK, StageOK,
      CancelUnderWay, Terminal, None
<1>6. ClaimOK'
  BY <1>1
  DEF LoopPanics, Fault, storeVars, PipeOnly, cancelVars, streamVars, ClaimOK, TypeOK, StageOK,
      TermOK, CancelUnderWay, Terminal, Note
<1>7. RecordOK'
  BY BoundAssumption, <1>1
  DEF LoopPanics, Fault, storeVars, PipeOnly, cancelVars, streamVars, RecordOK, TypeOK,
      RecordStatus, None
<1>8. FaithOK'
  BY <1>1
  DEF LoopPanics, Fault, storeVars, PipeOnly, cancelVars, streamVars, FaithOK, TypeOK, StageOK,
      AnswerOK, TermOK, Untouched, CancelUnderWay, Terminal, Note, None
<1>. QED BY <1>2, <1>3, <1>4, <1>5, <1>6, <1>7, <1>8

LEMMA PersistEndStep ==
  ASSUME IInv, PersistEnd
  PROVE  IInv'
<1>. USE DEF IInv
<1>1. journal' = journal /\ Own' = Own
  BY DEF PersistEnd, Fault, PipeOnly, cancelVars, streamVars, Own, Logged
<1>2. TypeOK'
  BY BoundAssumption, <1>1
  DEF PersistEnd, Fault, PipeOnly, cancelVars, streamVars, TypeOK, Pipe, Terminal, None,
      RecordStatus
<1>3. StageOK'
  BY <1>1
  DEF PersistEnd, Fault, PipeOnly, cancelVars, streamVars, StageOK, TypeOK, CancelUnderWay
<1>4. AnswerOK'
  BY <1>1 DEF PersistEnd, Fault, PipeOnly, cancelVars, streamVars, AnswerOK, TypeOK, None
<1>5. TermOK'
  BY <1>1
  DEF PersistEnd, Fault, PipeOnly, cancelVars, streamVars, TermOK, TypeOK, StageOK,
      CancelUnderWay, Terminal, None
<1>6. ClaimOK'
  BY <1>1
  DEF PersistEnd, Fault, PipeOnly, cancelVars, streamVars, ClaimOK, TypeOK, StageOK, TermOK,
      CancelUnderWay, Terminal, Note
<1>7. RecordOK'
  BY BoundAssumption, <1>1
  DEF PersistEnd, Fault, PipeOnly, cancelVars, streamVars, RecordOK, TypeOK, RecordStatus, None
<1>8. FaithOK'
  BY <1>1
  DEF PersistEnd, Fault, PipeOnly, cancelVars, streamVars, FaithOK, TypeOK, StageOK, AnswerOK,
      TermOK, Untouched, CancelUnderWay, Terminal, Note, None
<1>. QED BY <1>2, <1>3, <1>4, <1>5, <1>6, <1>7, <1>8

LEMMA LogEndStep ==
  ASSUME IInv, LogEnd
  PROVE  IInv'
<1>. USE DEF IInv
<1>1. /\ journal' \in Seq(Entry) /\ journal' # <<>> /\ journal'[Len(journal')] = Note
      /\ Own' = Own \cup ({Note} \cap Terminal)
  BY AppendFacts, EntryFacts DEF LogEnd, JournalNote, PipeOnly, cancelVars, streamVars, TypeOK
<1>2. TypeOK'
  BY BoundAssumption, <1>1
  DEF LogEnd, JournalNote, PipeOnly, cancelVars, streamVars, TypeOK, Pipe, Terminal, None,
      RecordStatus
<1>3. StageOK'
  BY <1>1
  DEF LogEnd, JournalNote, PipeOnly, cancelVars, streamVars, StageOK, TypeOK, CancelUnderWay
<1>4. AnswerOK'
  BY <1>1 DEF LogEnd, JournalNote, PipeOnly, cancelVars, streamVars, AnswerOK, TypeOK, None
<1>5. TermOK'
  BY <1>1
  DEF LogEnd, JournalNote, PipeOnly, cancelVars, streamVars, TermOK, TypeOK, StageOK,
      CancelUnderWay, Terminal, None
<1>6. ClaimOK'
  BY <1>1
  DEF LogEnd, JournalNote, PipeOnly, cancelVars, streamVars, ClaimOK, TypeOK, StageOK, TermOK,
      CancelUnderWay, Terminal, Note
<1>7. RecordOK'
  BY BoundAssumption, <1>1
  DEF LogEnd, JournalNote, PipeOnly, cancelVars, streamVars, RecordOK, TypeOK, RecordStatus,
      None
<1>8. FaithOK'
  BY <1>1
  DEF LogEnd, JournalNote, PipeOnly, cancelVars, streamVars, FaithOK, TypeOK, StageOK, AnswerOK,
      TermOK, Untouched, CancelUnderWay, Terminal, Note, None
<1>. QED BY <1>2, <1>3, <1>4, <1>5, <1>6, <1>7, <1>8

LEMMA RunLoopReturnedStep ==
  ASSUME IInv, RunLoopReturned
  PROVE  IInv'
<1>. USE DEF IInv
<1>1. journal' = journal /\ Own' = Own
  BY DEF RunLoopReturned, storeVars, PipeOnly, cancelVars, streamVars, Own, Logged
<1>2. TypeOK'
  BY BoundAssumption, <1>1
  DEF RunLoopReturned, storeVars, PipeOnly, cancelVars, streamVars, TypeOK, Pipe, Terminal,
      None, RecordStatus
<1>3. StageOK'
  BY <1>1
  DEF RunLoopReturned, storeVars, PipeOnly, cancelVars, streamVars, StageOK, TypeOK,
      CancelUnderWay
<1>4. AnswerOK'
  BY <1>1
  DEF RunLoopReturned, storeVars, PipeOnly, cancelVars, streamVars, AnswerOK, TypeOK, None
<1>5. TermOK'
  BY <1>1
  DEF RunLoopReturned, storeVars, PipeOnly, cancelVars, streamVars, TermOK, TypeOK, StageOK,
      CancelUnderWay, Terminal, None
<1>6. ClaimOK'
  BY <1>1
  DEF RunLoopReturned, storeVars, PipeOnly, cancelVars, streamVars, ClaimOK, TypeOK, StageOK,
      TermOK, CancelUnderWay, Terminal, Note
<1>7. RecordOK'
  BY BoundAssumption, <1>1
  DEF RunLoopReturned, storeVars, PipeOnly, cancelVars, streamVars, RecordOK, TypeOK,
      RecordStatus, None
<1>8. FaithOK'
  BY <1>1
  DEF RunLoopReturned, storeVars, PipeOnly, cancelVars, streamVars, FaithOK, TypeOK, StageOK,
      AnswerOK, TermOK, Untouched, CancelUnderWay, Terminal, Note, None
<1>. QED BY <1>2, <1>3, <1>4, <1>5, <1>6, <1>7, <1>8

LEMMA PipeSetTerminalStep ==
  ASSUME IInv, PipeSetTerminal
  PROVE  IInv'
<1>. USE DEF IInv
<1>1. journal' = journal /\ Own' = Own
  BY DEF PipeSetTerminal, storeVars, PipeOnly, cancelVars, streamVars, Own, Logged
<1>2. TypeOK'
  BY BoundAssumption, <1>1
  DEF PipeSetTerminal, storeVars, PipeOnly, cancelVars, streamVars, TypeOK, Pipe, Terminal,
      None, RecordStatus
<1>3. StageOK'
  BY <1>1
  DEF PipeSetTerminal, storeVars, PipeOnly, cancelVars, streamVars, StageOK, TypeOK,
      CancelUnderWay
<1>4. AnswerOK'
  BY <1>1
  DEF PipeSetTerminal, storeVars, PipeOnly, cancelVars, streamVars, AnswerOK, TypeOK, None
<1>5. TermOK'
  BY <1>1
  DEF PipeSetTerminal, storeVars, PipeOnly, cancelVars, streamVars, TermOK, TypeOK, StageOK,
      CancelUnderWay, Terminal, None
<1>6. ClaimOK'
  BY <1>1
  DEF PipeSetTerminal, storeVars, PipeOnly, cancelVars, streamVars, ClaimOK, TypeOK, StageOK,
      TermOK, CancelUnderWay, Terminal, Note
<1>7. RecordOK'
  BY BoundAssumption, <1>1
  DEF PipeSetTerminal, storeVars, PipeOnly, cancelVars, streamVars, RecordOK, TypeOK,
      RecordStatus, None
<1>8. FaithOK'
  BY <1>1
  DEF PipeSetTerminal, storeVars, PipeOnly, cancelVars, streamVars, FaithOK, TypeOK, StageOK,
      AnswerOK, TermOK, Untouched, CancelUnderWay, Terminal, Note, None
<1>. QED BY <1>2, <1>3, <1>4, <1>5, <1>6, <1>7, <1>8

LEMMA PipeClaimStep ==
  ASSUME IInv, PipeClaim
  PROVE  IInv'
<1>. USE DEF IInv
<1>1. journal' = journal /\ Own' = Own
  BY DEF PipeClaim, storeVars, PipeOnly, cancelVars, streamVars, Own, Logged
<1>2. TypeOK'
  BY BoundAssumption, <1>1
  DEF PipeClaim, storeVars, PipeOnly, cancelVars, streamVars, TypeOK, Pipe, Terminal, None,
      RecordStatus
<1>3. StageOK'
  BY <1>1
  DEF PipeClaim, storeVars, PipeOnly, cancelVars, streamVars, StageOK, TypeOK, CancelUnderWay
<1>4. AnswerOK'
  BY <1>1 DEF PipeClaim, storeVars, PipeOnly, cancelVars, streamVars, AnswerOK, TypeOK, None
<1>5. TermOK'
  BY <1>1
  DEF PipeClaim, storeVars, PipeOnly, cancelVars, streamVars, TermOK, TypeOK, StageOK,
      CancelUnderWay, Terminal, None
<1>6. ClaimOK'
  BY <1>1
  DEF PipeClaim, storeVars, PipeOnly, cancelVars, streamVars, ClaimOK, TypeOK, StageOK, TermOK,
      CancelUnderWay, Terminal, Note
<1>7. RecordOK'
  BY BoundAssumption, <1>1
  DEF PipeClaim, storeVars, PipeOnly, cancelVars, streamVars, RecordOK, TypeOK, RecordStatus,
      None
<1>8. FaithOK'
  BY <1>1
  DEF PipeClaim, storeVars, PipeOnly, cancelVars, streamVars, FaithOK, TypeOK, StageOK,
      AnswerOK, TermOK, Untouched, CancelUnderWay, Terminal, Note, None
<1>. QED BY <1>2, <1>3, <1>4, <1>5, <1>6, <1>7, <1>8

LEMMA PipeAppendStep ==
  ASSUME IInv, PipeAppend
  PROVE  IInv'
<1>. USE DEF IInv
<1>1. /\ journal' \in Seq(Entry) /\ journal' # <<>> /\ journal'[Len(journal')] = out
      /\ Own' = Own \cup ({out} \cap Terminal)
  BY AppendFacts, EntryFacts DEF PipeAppend, PipeOnly, cancelVars, streamVars, TypeOK
<1>2. TypeOK'
  BY BoundAssumption, <1>1
  DEF PipeAppend, PipeOnly, cancelVars, streamVars, TypeOK, Pipe, Terminal, None, RecordStatus
<1>3. StageOK'
  BY <1>1 DEF PipeAppend, PipeOnly, cancelVars, streamVars, StageOK, TypeOK, CancelUnderWay
<1>4. AnswerOK'
  BY <1>1 DEF PipeAppend, PipeOnly, cancelVars, streamVars, AnswerOK, TypeOK, None
<1>5. TermOK'
  BY <1>1
  DEF PipeAppend, PipeOnly, cancelVars, streamVars, TermOK, TypeOK, StageOK, CancelUnderWay,
      Terminal, None
<1>6. ClaimOK'
  BY <1>1
  DEF PipeAppend, PipeOnly, cancelVars, streamVars, ClaimOK, TypeOK, StageOK, TermOK,
      CancelUnderWay, Terminal, Note
<1>7. RecordOK'
  BY BoundAssumption, <1>1
  DEF PipeAppend, PipeOnly, cancelVars, streamVars, RecordOK, TypeOK, RecordStatus, None
<1>8. FaithOK'
  BY <1>1
  DEF PipeAppend, PipeOnly, cancelVars, streamVars, FaithOK, TypeOK, StageOK, AnswerOK, TermOK,
      Untouched, CancelUnderWay, Terminal, Note, None
<1>. QED BY <1>2, <1>3, <1>4, <1>5, <1>6, <1>7, <1>8

LEMMA PipeDeliverStep ==
  ASSUME IInv, PipeDeliver
  PROVE  IInv'
<1>. USE DEF IInv
<1>1. journal' = journal /\ Own' = Own
  BY DEF PipeDeliver, SelectOnly, storeVars, Skip, PipeOnly, cancelVars, streamVars, Own, Logged
<1>2. /\ ch' \in Seq(Terminal \cup {Note}) /\ Len(ch') <= ChanCap
      /\ \A i \in DOMAIN ch' : ch'[i] = out \/ \E k \in DOMAIN ch : ch'[i] = ch[k]
  BY PushFacts
  DEF PipeDeliver, SelectOnly, storeVars, Skip, PipeOnly, cancelVars, streamVars, TypeOK,
      Terminal
<1>3. TypeOK'
  BY BoundAssumption, <1>1, <1>2
  DEF PipeDeliver, SelectOnly, storeVars, Skip, PipeOnly, cancelVars, streamVars, TypeOK, Pipe,
      Terminal, None, RecordStatus
<1>4. StageOK'
  BY <1>1, <1>2
  DEF PipeDeliver, SelectOnly, storeVars, Skip, PipeOnly, cancelVars, streamVars, StageOK,
      TypeOK, CancelUnderWay
<1>5. AnswerOK'
  BY <1>1, <1>2
  DEF PipeDeliver, SelectOnly, storeVars, Skip, PipeOnly, cancelVars, streamVars, AnswerOK,
      TypeOK, None
<1>6. TermOK'
  BY <1>1, <1>2
  DEF PipeDeliver, SelectOnly, storeVars, Skip, PipeOnly, cancelVars, streamVars, TermOK,
      TypeOK, StageOK, CancelUnderWay, Terminal, None
<1>7. ClaimOK'
  BY <1>1, <1>2
  DEF PipeDeliver, SelectOnly, storeVars, Skip, PipeOnly, cancelVars, streamVars, ClaimOK,
      TypeOK, StageOK, TermOK, CancelUnderWay, Terminal, Note
<1>8. RecordOK'
  BY BoundAssumption, <1>1, <1>2
  DEF PipeDeliver, SelectOnly, storeVars, Skip, PipeOnly, cancelVars, streamVars, RecordOK,
      TypeOK, RecordStatus, None
<1>9. FaithOK'
  BY <1>1, <1>2
  DEF PipeDeliver, SelectOnly, storeVars, Skip, PipeOnly, cancelVars, streamVars, FaithOK,
      TypeOK, StageOK, AnswerOK, TermOK, Untouched, CancelUnderWay, Terminal, Note, None
<1>. QED BY <1>3, <1>4, <1>5, <1>6, <1>7, <1>8, <1>9

LEMMA PipeCloseStep ==
  ASSUME IInv, PipeClose
  PROVE  IInv'
<1>. USE DEF IInv
<1>1. journal' = journal /\ Own' = Own
  BY DEF PipeClose, storeVars, PipeOnly, cancelVars, streamVars, Own, Logged
<1>2. TypeOK'
  BY BoundAssumption, <1>1
  DEF PipeClose, storeVars, PipeOnly, cancelVars, streamVars, TypeOK, Pipe, Terminal, None,
      RecordStatus
<1>3. StageOK'
  BY <1>1
  DEF PipeClose, storeVars, PipeOnly, cancelVars, streamVars, StageOK, TypeOK, CancelUnderWay
<1>4. AnswerOK'
  BY <1>1 DEF PipeClose, storeVars, PipeOnly, cancelVars, streamVars, AnswerOK, TypeOK, None
<1>5. TermOK'
  BY <1>1
  DEF PipeClose, storeVars, PipeOnly, cancelVars, streamVars, TermOK, TypeOK, StageOK,
      CancelUnderWay, Terminal, None
<1>6. ClaimOK'
  BY <1>1
  DEF PipeClose, storeVars, PipeOnly, cancelVars, streamVars, ClaimOK, TypeOK, StageOK, TermOK,
      CancelUnderWay, Terminal, Note
<1>7. RecordOK'
  BY BoundAssumption, <1>1
  DEF PipeClose, storeVars, PipeOnly, cancelVars, streamVars, RecordOK, TypeOK, RecordStatus,
      None
<1>8. FaithOK'
  BY <1>1
  DEF PipeClose, storeVars, PipeOnly, cancelVars, streamVars, FaithOK, TypeOK, StageOK,
      AnswerOK, TermOK, Untouched, CancelUnderWay, Terminal, Note, None
<1>. QED BY <1>2, <1>3, <1>4, <1>5, <1>6, <1>7, <1>8

LEMMA CancelCheckStep ==
  ASSUME NEW c \in Cancels, IInv, CancelCheck(c)
  PROVE  IInv'
<1>. USE DEF IInv
<1>1. journal' = journal /\ Own' = Own
  BY DEF CancelCheck, storeVars, CancelOnly, Cancelling, Answer, pipeVars, streamVars, Own, Logged
<1>2. TypeOK'
  BY BoundAssumption, <1>1
  DEF CancelCheck, storeVars, CancelOnly, Cancelling, Answer, pipeVars, streamVars, TypeOK,
      CancelPc, Terminal, None
<1>3. StageOK'
  BY <1>1
  DEF CancelCheck, storeVars, CancelOnly, Cancelling, Answer, pipeVars, streamVars, StageOK,
      TypeOK, CancelUnderWay
<1>4. AnswerOK'
  BY <1>1
  DEF CancelCheck, storeVars, CancelOnly, Cancelling, Answer, pipeVars, streamVars, AnswerOK,
      TypeOK, None
<1>5. TermOK'
  BY <1>1
  DEF CancelCheck, storeVars, CancelOnly, Cancelling, Answer, pipeVars, streamVars, TermOK,
      TypeOK, StageOK, CancelUnderWay, Terminal, None
<1>6. ClaimOK'
  BY <1>1
  DEF CancelCheck, storeVars, CancelOnly, Cancelling, Answer, pipeVars, streamVars, ClaimOK,
      TypeOK, StageOK, TermOK, CancelUnderWay, Terminal, Note
<1>7. RecordOK'
  BY BoundAssumption, <1>1
  DEF CancelCheck, storeVars, CancelOnly, Cancelling, Answer, pipeVars, streamVars, RecordOK,
      TypeOK, RecordStatus, None
<1>8. FaithOK'
  BY <1>1
  DEF CancelCheck, storeVars, CancelOnly, Cancelling, Answer, pipeVars, streamVars, FaithOK,
      TypeOK, StageOK, AnswerOK, TermOK, Untouched, CancelUnderWay, Terminal, Note, None
<1>. QED BY <1>2, <1>3, <1>4, <1>5, <1>6, <1>7, <1>8

LEMMA CancelSetStep ==
  ASSUME NEW c \in Cancels, IInv, CancelSet(c)
  PROVE  IInv'
<1>. USE DEF IInv
<1>1. journal' = journal /\ Own' = Own
  BY DEF CancelSet, storeVars, CancelOnly, Cancelling, Answer, pipeVars, streamVars, Own, Logged
<1>2. TypeOK'
  BY BoundAssumption, <1>1
  DEF CancelSet, storeVars, CancelOnly, Cancelling, Answer, pipeVars, streamVars, TypeOK,
      CancelPc, Terminal, None
<1>3. StageOK'
  BY <1>1
  DEF CancelSet, storeVars, CancelOnly, Cancelling, Answer, pipeVars, streamVars, StageOK,
      TypeOK, CancelUnderWay
<1>4. AnswerOK'
  BY <1>1
  DEF CancelSet, storeVars, CancelOnly, Cancelling, Answer, pipeVars, streamVars, AnswerOK,
      TypeOK, None
<1>5. TermOK'
  BY <1>1
  DEF CancelSet, storeVars, CancelOnly, Cancelling, Answer, pipeVars, streamVars, TermOK,
      TypeOK, StageOK, CancelUnderWay, Terminal, None
<1>6. ClaimOK'
  BY <1>1
  DEF CancelSet, storeVars, CancelOnly, Cancelling, Answer, pipeVars, streamVars, ClaimOK,
      TypeOK, StageOK, TermOK, CancelUnderWay, Terminal, Note
<1>7. RecordOK'
  BY BoundAssumption, <1>1
  DEF CancelSet, storeVars, CancelOnly, Cancelling, Answer, pipeVars, streamVars, RecordOK,
      TypeOK, RecordStatus, None
<1>8. FaithOK'
  BY <1>1
  DEF CancelSet, storeVars, CancelOnly, Cancelling, Answer, pipeVars, streamVars, FaithOK,
      TypeOK, StageOK, AnswerOK, TermOK, Untouched, CancelUnderWay, Terminal, Note, None
<1>. QED BY <1>2, <1>3, <1>4, <1>5, <1>6, <1>7, <1>8

LEMMA CancelClaimStep ==
  ASSUME NEW c \in Cancels, IInv, CancelClaim(c)
  PROVE  IInv'
<1>. USE DEF IInv
<1>1. journal' = journal /\ Own' = Own
  BY DEF CancelClaim, storeVars, CancelOnly, Cancelling, Answer, pipeVars, streamVars, Own, Logged
<1>2. TypeOK'
  BY BoundAssumption, <1>1
  DEF CancelClaim, storeVars, CancelOnly, Cancelling, Answer, pipeVars, streamVars, TypeOK,
      CancelPc, Terminal, None
<1>3. StageOK'
  BY <1>1
  DEF CancelClaim, storeVars, CancelOnly, Cancelling, Answer, pipeVars, streamVars, StageOK,
      TypeOK, CancelUnderWay
<1>4. AnswerOK'
  BY <1>1
  DEF CancelClaim, storeVars, CancelOnly, Cancelling, Answer, pipeVars, streamVars, AnswerOK,
      TypeOK, None
<1>5. TermOK'
  BY <1>1
  DEF CancelClaim, storeVars, CancelOnly, Cancelling, Answer, pipeVars, streamVars, TermOK,
      TypeOK, StageOK, CancelUnderWay, Terminal, None
<1>6. ClaimOK'
  BY <1>1
  DEF CancelClaim, storeVars, CancelOnly, Cancelling, Answer, pipeVars, streamVars, ClaimOK,
      TypeOK, StageOK, TermOK, CancelUnderWay, Terminal, Note
<1>7. RecordOK'
  BY BoundAssumption, <1>1
  DEF CancelClaim, storeVars, CancelOnly, Cancelling, Answer, pipeVars, streamVars, RecordOK,
      TypeOK, RecordStatus, None
<1>8. FaithOK'
  BY <1>1
  DEF CancelClaim, storeVars, CancelOnly, Cancelling, Answer, pipeVars, streamVars, FaithOK,
      TypeOK, StageOK, AnswerOK, TermOK, Untouched, CancelUnderWay, Terminal, Note, None
<1>. QED BY <1>2, <1>3, <1>4, <1>5, <1>6, <1>7, <1>8

LEMMA CancelAppendStep ==
  ASSUME NEW c \in Cancels, IInv, CancelAppend(c)
  PROVE  IInv'
<1>. USE DEF IInv
<1>1. /\ journal' \in Seq(Entry) /\ journal' # <<>> /\ journal'[Len(journal')] = "job_cancelled"
      /\ Own' = Own \cup ({"job_cancelled"} \cap Terminal)
  BY AppendFacts, EntryFacts
  DEF CancelAppend, CancelOnly, Cancelling, Answer, pipeVars, streamVars, TypeOK, Terminal
<1>2. TypeOK'
  BY BoundAssumption, <1>1
  DEF CancelAppend, CancelOnly, Cancelling, Answer, pipeVars, streamVars, TypeOK, CancelPc,
      Terminal, None
<1>3. StageOK'
  BY <1>1
  DEF CancelAppend, CancelOnly, Cancelling, Answer, pipeVars, streamVars, StageOK, TypeOK,
      CancelUnderWay
<1>4. AnswerOK'
  BY <1>1
  DEF CancelAppend, CancelOnly, Cancelling, Answer, pipeVars, streamVars, AnswerOK, TypeOK, None
<1>5. TermOK'
  BY <1>1
  DEF CancelAppend, CancelOnly, Cancelling, Answer, pipeVars, streamVars, TermOK, TypeOK,
      StageOK, CancelUnderWay, Terminal, None
<1>6. ClaimOK'
  BY <1>1
  DEF CancelAppend, CancelOnly, Cancelling, Answer, pipeVars, streamVars, ClaimOK, TypeOK,
      StageOK, TermOK, CancelUnderWay, Terminal, Note
<1>7. RecordOK'
  BY BoundAssumption, <1>1
  DEF CancelAppend, CancelOnly, Cancelling, Answer, pipeVars, streamVars, RecordOK, TypeOK,
      RecordStatus, None
<1>8. FaithOK'
  BY <1>1
  DEF CancelAppend, CancelOnly, Cancelling, Answer, pipeVars, streamVars, FaithOK, TypeOK,
      StageOK, AnswerOK, TermOK, Untouched, CancelUnderWay, Terminal, Note, None
<1>. QED BY <1>2, <1>3, <1>4, <1>5, <1>6, <1>7, <1>8

LEMMA CancelSendStep ==
  ASSUME NEW c \in Cancels, IInv, CancelSend(c)
  PROVE  IInv'
<1>. USE DEF IInv
<1>1. journal' = journal /\ Own' = Own
  BY DEF CancelSend, storeVars, CancelOnly, Cancelling, Answer, pipeVars, streamVars, Own, Logged
<1>2. /\ ch' \in Seq(Terminal \cup {Note}) /\ Len(ch') <= ChanCap
      /\ \A i \in DOMAIN ch' : ch'[i] = "job_cancelled" \/ \E k \in DOMAIN ch : ch'[i] = ch[k]
  BY PushFacts
  DEF CancelSend, storeVars, CancelOnly, Cancelling, Answer, pipeVars, streamVars, TypeOK,
      Terminal, Push
<1>3. TypeOK'
  BY BoundAssumption, <1>1, <1>2
  DEF CancelSend, storeVars, CancelOnly, Cancelling, Answer, pipeVars, streamVars, TypeOK,
      CancelPc, Terminal, None
<1>4. StageOK'
  BY <1>1, <1>2
  DEF CancelSend, storeVars, CancelOnly, Cancelling, Answer, pipeVars, streamVars, StageOK,
      TypeOK, CancelUnderWay
<1>5. AnswerOK'
  BY <1>1, <1>2
  DEF CancelSend, storeVars, CancelOnly, Cancelling, Answer, pipeVars, streamVars, AnswerOK,
      TypeOK, None
<1>6. TermOK'
  BY <1>1, <1>2
  DEF CancelSend, storeVars, CancelOnly, Cancelling, Answer, pipeVars, streamVars, TermOK,
      TypeOK, StageOK, CancelUnderWay, Terminal, None
<1>7. ClaimOK'
  BY <1>1, <1>2
  DEF CancelSend, storeVars, CancelOnly, Cancelling, Answer, pipeVars, streamVars, ClaimOK,
      TypeOK, StageOK, TermOK, CancelUnderWay, Terminal, Note
<1>8. RecordOK'
  BY BoundAssumption, <1>1, <1>2
  DEF CancelSend, storeVars, CancelOnly, Cancelling, Answer, pipeVars, streamVars, RecordOK,
      TypeOK, RecordStatus, None
<1>9. FaithOK'
  BY <1>1, <1>2
  DEF CancelSend, storeVars, CancelOnly, Cancelling, Answer, pipeVars, streamVars, FaithOK,
      TypeOK, StageOK, AnswerOK, TermOK, Untouched, CancelUnderWay, Terminal, Note, None
<1>. QED BY <1>3, <1>4, <1>5, <1>6, <1>7, <1>8, <1>9

LEMMA CancelStopStep ==
  ASSUME NEW c \in Cancels, IInv, CancelStop(c)
  PROVE  IInv'
<1>. USE DEF IInv
<1>1. journal' = journal /\ Own' = Own
  BY DEF CancelStop, storeVars, CancelOnly, Cancelling, Answer, pipeVars, streamVars, Own, Logged
<1>2. TypeOK'
  BY BoundAssumption, <1>1
  DEF CancelStop, storeVars, CancelOnly, Cancelling, Answer, pipeVars, streamVars, TypeOK,
      CancelPc, Terminal, None
<1>3. StageOK'
  BY <1>1
  DEF CancelStop, storeVars, CancelOnly, Cancelling, Answer, pipeVars, streamVars, StageOK,
      TypeOK, CancelUnderWay
<1>4. AnswerOK'
  BY <1>1
  DEF CancelStop, storeVars, CancelOnly, Cancelling, Answer, pipeVars, streamVars, AnswerOK,
      TypeOK, None
<1>5. TermOK'
  BY <1>1
  DEF CancelStop, storeVars, CancelOnly, Cancelling, Answer, pipeVars, streamVars, TermOK,
      TypeOK, StageOK, CancelUnderWay, Terminal, None
<1>6. ClaimOK'
  BY <1>1
  DEF CancelStop, storeVars, CancelOnly, Cancelling, Answer, pipeVars, streamVars, ClaimOK,
      TypeOK, StageOK, TermOK, CancelUnderWay, Terminal, Note
<1>7. RecordOK'
  BY BoundAssumption, <1>1
  DEF CancelStop, storeVars, CancelOnly, Cancelling, Answer, pipeVars, streamVars, RecordOK,
      TypeOK, RecordStatus, None
<1>8. FaithOK'
  BY <1>1
  DEF CancelStop, storeVars, CancelOnly, Cancelling, Answer, pipeVars, streamVars, FaithOK,
      TypeOK, StageOK, AnswerOK, TermOK, Untouched, CancelUnderWay, Terminal, Note, None
<1>. QED BY <1>2, <1>3, <1>4, <1>5, <1>6, <1>7, <1>8

LEMMA CancelLoadStep ==
  ASSUME NEW c \in Cancels, IInv, CancelLoad(c)
  PROVE  IInv'
<1>. USE DEF IInv
<1>1. journal' = journal /\ Own' = Own
  BY
  DEF CancelLoad, objVars, storeVars, CancelOnly, Cancelling, Answer, pipeVars, streamVars,
      Own, Logged
<1>2. TypeOK'
  BY BoundAssumption, <1>1
  DEF CancelLoad, objVars, storeVars, CancelOnly, Cancelling, Answer, pipeVars, streamVars,
      TypeOK, CancelPc, Terminal, None
<1>3. StageOK'
  BY <1>1
  DEF CancelLoad, objVars, storeVars, CancelOnly, Cancelling, Answer, pipeVars, streamVars,
      StageOK, TypeOK, CancelUnderWay
<1>4. AnswerOK'
  BY <1>1
  DEF CancelLoad, objVars, storeVars, CancelOnly, Cancelling, Answer, pipeVars, streamVars,
      AnswerOK, TypeOK, None
<1>5. TermOK'
  BY <1>1
  DEF CancelLoad, objVars, storeVars, CancelOnly, Cancelling, Answer, pipeVars, streamVars,
      TermOK, TypeOK, StageOK, CancelUnderWay, Terminal, None
<1>6. ClaimOK'
  BY <1>1
  DEF CancelLoad, objVars, storeVars, CancelOnly, Cancelling, Answer, pipeVars, streamVars,
      ClaimOK, TypeOK, StageOK, TermOK, CancelUnderWay, Terminal, Note
<1>7. RecordOK'
  BY BoundAssumption, <1>1
  DEF CancelLoad, objVars, storeVars, CancelOnly, Cancelling, Answer, pipeVars, streamVars,
      RecordOK, TypeOK, RecordStatus, None
<1>8. FaithOK'
  BY <1>1
  DEF CancelLoad, objVars, storeVars, CancelOnly, Cancelling, Answer, pipeVars, streamVars,
      FaithOK, TypeOK, StageOK, AnswerOK, TermOK, Untouched, CancelUnderWay, Terminal, Note,
      None
<1>. QED BY <1>2, <1>3, <1>4, <1>5, <1>6, <1>7, <1>8

LEMMA CancelSaveStep ==
  ASSUME NEW c \in Cancels, IInv, CancelSave(c)
  PROVE  IInv'
<1>. USE DEF IInv
<1>1. journal' = journal /\ Own' = Own
  BY
  DEF CancelSave, Fault, objVars, CancelOnly, Cancelling, Answer, pipeVars, streamVars, Own, Logged
<1>2. TypeOK'
  <2>1. record' \in RecordStatus /\ faults' \in 0..MaxFaults
    BY BoundAssumption DEF CancelSave, Fault, TypeOK, RecordStatus
  <2>2. cpc' \in [Cancels -> CancelPc] /\ cres' \in [Cancels -> {None, "cancelled", "conflict", "panic"}]
    BY DEF CancelSave, Cancelling, Answer, TypeOK, CancelPc
  <2>. QED BY <1>1, <2>1, <2>2 DEF CancelSave, objVars, pipeVars, streamVars, TypeOK
<1>3. StageOK'
  BY <1>1
  DEF CancelSave, Fault, objVars, CancelOnly, Cancelling, Answer, pipeVars, streamVars, StageOK,
      TypeOK, CancelUnderWay
<1>4. AnswerOK'
  BY <1>1
  DEF CancelSave, Fault, objVars, CancelOnly, Cancelling, Answer, pipeVars, streamVars,
      AnswerOK, TypeOK, None
<1>5. TermOK'
  BY <1>1
  DEF CancelSave, Fault, objVars, CancelOnly, Cancelling, Answer, pipeVars, streamVars, TermOK,
      TypeOK, StageOK, CancelUnderWay, Terminal, None
<1>6. ClaimOK'
  BY <1>1
  DEF CancelSave, Fault, objVars, CancelOnly, Cancelling, Answer, pipeVars, streamVars, ClaimOK,
      TypeOK, StageOK, TermOK, CancelUnderWay, Terminal, Note
<1>7. RecordOK'
  BY BoundAssumption, <1>1
  DEF CancelSave, Fault, objVars, CancelOnly, Cancelling, Answer, pipeVars, streamVars,
      RecordOK, TypeOK, RecordStatus, None
<1>8. FaithOK'
  BY <1>1
  DEF CancelSave, Fault, objVars, CancelOnly, Cancelling, Answer, pipeVars, streamVars, FaithOK,
      TypeOK, StageOK, AnswerOK, TermOK, Untouched, CancelUnderWay, Terminal, Note, None
<1>. QED BY <1>2, <1>3, <1>4, <1>5, <1>6, <1>7, <1>8

LEMMA CancelLogStep ==
  ASSUME NEW c \in Cancels, IInv, CancelLog(c)
  PROVE  IInv'
<1>. USE DEF IInv
<1>1. /\ journal' \in Seq(Entry) /\ journal' # <<>> /\ journal'[Len(journal')] = "control"
      /\ Own' = Own \cup ({"control"} \cap Terminal)
  BY AppendFacts, EntryFacts
  DEF CancelLog, objVars, CancelOnly, Cancelling, Answer, pipeVars, streamVars, TypeOK
<1>2. TypeOK'
  BY BoundAssumption, <1>1
  DEF CancelLog, objVars, CancelOnly, Cancelling, Answer, pipeVars, streamVars, TypeOK,
      CancelPc, Terminal, None
<1>3. StageOK'
  BY <1>1
  DEF CancelLog, objVars, CancelOnly, Cancelling, Answer, pipeVars, streamVars, StageOK, TypeOK,
      CancelUnderWay
<1>4. AnswerOK'
  BY <1>1
  DEF CancelLog, objVars, CancelOnly, Cancelling, Answer, pipeVars, streamVars, AnswerOK,
      TypeOK, None
<1>5. TermOK'
  BY <1>1
  DEF CancelLog, objVars, CancelOnly, Cancelling, Answer, pipeVars, streamVars, TermOK, TypeOK,
      StageOK, CancelUnderWay, Terminal, None
<1>6. ClaimOK'
  BY <1>1
  DEF CancelLog, objVars, CancelOnly, Cancelling, Answer, pipeVars, streamVars, ClaimOK, TypeOK,
      StageOK, TermOK, CancelUnderWay, Terminal, Note
<1>7. RecordOK'
  BY BoundAssumption, <1>1
  DEF CancelLog, objVars, CancelOnly, Cancelling, Answer, pipeVars, streamVars, RecordOK,
      TypeOK, RecordStatus, None
<1>8. FaithOK'
  BY <1>1
  DEF CancelLog, objVars, CancelOnly, Cancelling, Answer, pipeVars, streamVars, FaithOK, TypeOK,
      StageOK, AnswerOK, TermOK, Untouched, CancelUnderWay, Terminal, Note, None
<1>. QED BY <1>2, <1>3, <1>4, <1>5, <1>6, <1>7, <1>8

LEMMA CancelRecoveredStep ==
  ASSUME NEW c \in Cancels, IInv, CancelRecovered(c)
  PROVE  IInv'
<1>. USE DEF IInv
<1>1. journal' = journal /\ Own' = Own
  BY
  DEF CancelRecovered, objVars, storeVars, CancelOnly, Cancelling, Answer, pipeVars, streamVars,
      Own, Logged
<1>2. TypeOK'
  BY BoundAssumption, <1>1
  DEF CancelRecovered, objVars, storeVars, CancelOnly, Cancelling, Answer, pipeVars, streamVars,
      TypeOK, CancelPc, Terminal, None
<1>3. StageOK'
  BY <1>1
  DEF CancelRecovered, objVars, storeVars, CancelOnly, Cancelling, Answer, pipeVars, streamVars,
      StageOK, TypeOK, CancelUnderWay
<1>4. AnswerOK'
  BY <1>1
  DEF CancelRecovered, objVars, storeVars, CancelOnly, Cancelling, Answer, pipeVars, streamVars,
      AnswerOK, TypeOK, None
<1>5. TermOK'
  BY <1>1
  DEF CancelRecovered, objVars, storeVars, CancelOnly, Cancelling, Answer, pipeVars, streamVars,
      TermOK, TypeOK, StageOK, CancelUnderWay, Terminal, None
<1>6. ClaimOK'
  BY <1>1
  DEF CancelRecovered, objVars, storeVars, CancelOnly, Cancelling, Answer, pipeVars, streamVars,
      ClaimOK, TypeOK, StageOK, TermOK, CancelUnderWay, Terminal, Note
<1>7. RecordOK'
  BY BoundAssumption, <1>1
  DEF CancelRecovered, objVars, storeVars, CancelOnly, Cancelling, Answer, pipeVars, streamVars,
      RecordOK, TypeOK, RecordStatus, None
<1>8. FaithOK'
  BY <1>1
  DEF CancelRecovered, objVars, storeVars, CancelOnly, Cancelling, Answer, pipeVars, streamVars,
      FaithOK, TypeOK, StageOK, AnswerOK, TermOK, Untouched, CancelUnderWay, Terminal, Note,
      None
<1>. QED BY <1>2, <1>3, <1>4, <1>5, <1>6, <1>7, <1>8

LEMMA StreamOpenStep ==
  ASSUME NEW s \in Streams, IInv, StreamOpen(s)
  PROVE  IInv'
<1>. USE DEF IInv
<1>1. journal' = journal /\ Own' = Own
  BY DEF StreamOpen, StreamOnly, Streaming, Tell, pipeVars, cancelVars, Own, Logged
<1>2. TypeOK'
  BY BoundAssumption, <1>1
  DEF StreamOpen, StreamOnly, Streaming, Tell, pipeVars, cancelVars, TypeOK, StreamPc, None
<1>3. StageOK'
  BY <1>1
  DEF StreamOpen, StreamOnly, Streaming, Tell, pipeVars, cancelVars, StageOK, TypeOK,
      CancelUnderWay
<1>4. AnswerOK'
  BY <1>1
  DEF StreamOpen, StreamOnly, Streaming, Tell, pipeVars, cancelVars, AnswerOK, TypeOK, None
<1>5. TermOK'
  BY <1>1
  DEF StreamOpen, StreamOnly, Streaming, Tell, pipeVars, cancelVars, TermOK, TypeOK, StageOK,
      CancelUnderWay, Terminal, None
<1>6. ClaimOK'
  BY <1>1
  DEF StreamOpen, StreamOnly, Streaming, Tell, pipeVars, cancelVars, ClaimOK, TypeOK, StageOK,
      TermOK, CancelUnderWay, Terminal, Note
<1>7. RecordOK'
  BY BoundAssumption, <1>1
  DEF StreamOpen, StreamOnly, Streaming, Tell, pipeVars, cancelVars, RecordOK, TypeOK,
      RecordStatus, None
<1>8. FaithOK'
  BY <1>1
  DEF StreamOpen, StreamOnly, Streaming, Tell, pipeVars, cancelVars, FaithOK, TypeOK, StageOK,
      AnswerOK, TermOK, Untouched, CancelUnderWay, Terminal, Note, None
<1>. QED BY <1>2, <1>3, <1>4, <1>5, <1>6, <1>7, <1>8

LEMMA StreamRecoveredStep ==
  ASSUME NEW s \in Streams, IInv, StreamRecovered(s)
  PROVE  IInv'
<1>. USE DEF IInv
<1>1. journal' = journal /\ Own' = Own
  BY DEF StreamRecovered, StreamOnly, Streaming, Tell, pipeVars, cancelVars, Own, Logged
<1>2. TypeOK'
  BY RecoveredFacts, BoundAssumption, <1>1
  DEF StreamRecovered, StreamOnly, Streaming, Tell, pipeVars, cancelVars, TypeOK, StreamPc, None
<1>3. StageOK'
  BY <1>1
  DEF StreamRecovered, StreamOnly, Streaming, Tell, pipeVars, cancelVars, StageOK, TypeOK,
      CancelUnderWay
<1>4. AnswerOK'
  BY <1>1
  DEF StreamRecovered, StreamOnly, Streaming, Tell, pipeVars, cancelVars, AnswerOK, TypeOK, None
<1>5. TermOK'
  BY <1>1
  DEF StreamRecovered, StreamOnly, Streaming, Tell, pipeVars, cancelVars, TermOK, TypeOK,
      StageOK, CancelUnderWay, Terminal, None
<1>6. ClaimOK'
  BY <1>1
  DEF StreamRecovered, StreamOnly, Streaming, Tell, pipeVars, cancelVars, ClaimOK, TypeOK,
      StageOK, TermOK, CancelUnderWay, Terminal, Note
<1>7. RecordOK'
  BY BoundAssumption, <1>1
  DEF StreamRecovered, StreamOnly, Streaming, Tell, pipeVars, cancelVars, RecordOK, TypeOK,
      RecordStatus, None
<1>8. FaithOK'
  BY <1>1
  DEF StreamRecovered, StreamOnly, Streaming, Tell, pipeVars, cancelVars, FaithOK, TypeOK,
      StageOK, AnswerOK, TermOK, Untouched, CancelUnderWay, Terminal, Note, None
<1>. QED BY <1>2, <1>3, <1>4, <1>5, <1>6, <1>7, <1>8

LEMMA StreamReceiveStep ==
  ASSUME NEW s \in Streams, IInv, StreamReceive(s)
  PROVE  IInv'
<1>. USE DEF IInv
<1>1. journal' = journal /\ Own' = Own
  BY DEF StreamReceive, StreamOnly, Streaming, Tell, pipeVars, cancelVars, Own, Logged
<1>2. /\ ch' \in Seq(Terminal \cup {Note}) /\ Len(ch') <= ChanCap
      /\ 1 \in DOMAIN ch /\ Head(ch) = ch[1] /\ Head(ch) \in Terminal \cup {Note}
      /\ \A i \in DOMAIN ch' : \E k \in DOMAIN ch : ch'[i] = ch[k]
  BY TailFacts DEF StreamReceive, StreamOnly, Streaming, Tell, pipeVars, cancelVars, TypeOK
<1>3. TypeOK'
  BY BoundAssumption, <1>1, <1>2
  DEF StreamReceive, StreamOnly, Streaming, Tell, pipeVars, cancelVars, TypeOK, StreamPc
<1>4. StageOK'
  BY <1>1, <1>2
  DEF StreamReceive, StreamOnly, Streaming, Tell, pipeVars, cancelVars, StageOK, TypeOK,
      CancelUnderWay
<1>5. AnswerOK'
  BY <1>1, <1>2
  DEF StreamReceive, StreamOnly, Streaming, Tell, pipeVars, cancelVars, AnswerOK, TypeOK, None
<1>6. TermOK'
  BY <1>1, <1>2
  DEF StreamReceive, StreamOnly, Streaming, Tell, pipeVars, cancelVars, TermOK, TypeOK, StageOK,
      CancelUnderWay, Terminal, None
<1>7. ClaimOK'
  BY <1>1, <1>2
  DEF StreamReceive, StreamOnly, Streaming, Tell, pipeVars, cancelVars, ClaimOK, TypeOK,
      StageOK, TermOK, CancelUnderWay, Terminal, Note
<1>8. RecordOK'
  BY BoundAssumption, <1>1, <1>2
  DEF StreamReceive, StreamOnly, Streaming, Tell, pipeVars, cancelVars, RecordOK, TypeOK,
      RecordStatus, None
<1>9. FaithOK'
  BY <1>1, <1>2
  DEF StreamReceive, StreamOnly, Streaming, Tell, pipeVars, cancelVars, FaithOK, TypeOK,
      StageOK, AnswerOK, TermOK, Untouched, CancelUnderWay, Terminal, Note, None
<1>. QED BY <1>3, <1>4, <1>5, <1>6, <1>7, <1>8, <1>9

LEMMA StreamSetTerminalStep ==
  ASSUME NEW s \in Streams, IInv, StreamSetTerminal(s)
  PROVE  IInv'
<1>. USE DEF IInv
<1>1. journal' = journal /\ Own' = Own
  BY DEF StreamSetTerminal, StreamOnly, Streaming, Tell, pipeVars, cancelVars, Own, Logged
<1>2. pipe \notin {"none", "dead"}
  BY DEF StreamSetTerminal, Streaming, StageOK
<1>3. TypeOK'
  BY BoundAssumption, <1>1, <1>2
  DEF StreamSetTerminal, StreamOnly, Streaming, Tell, pipeVars, cancelVars, TypeOK, StreamPc,
      None
<1>4. StageOK'
  BY <1>1, <1>2
  DEF StreamSetTerminal, StreamOnly, Streaming, Tell, pipeVars, cancelVars, StageOK, TypeOK,
      CancelUnderWay
<1>5. AnswerOK'
  BY <1>1, <1>2
  DEF StreamSetTerminal, StreamOnly, Streaming, Tell, pipeVars, cancelVars, AnswerOK, TypeOK,
      None
<1>6. TermOK'
  BY <1>1, <1>2
  DEF StreamSetTerminal, StreamOnly, Streaming, Tell, pipeVars, cancelVars, TermOK, TypeOK,
      StageOK, CancelUnderWay, Terminal, None
<1>7. ClaimOK'
  BY <1>1, <1>2
  DEF StreamSetTerminal, StreamOnly, Streaming, Tell, pipeVars, cancelVars, ClaimOK, TypeOK,
      StageOK, TermOK, CancelUnderWay, Terminal, Note
<1>8. RecordOK'
  BY BoundAssumption, <1>1, <1>2
  DEF StreamSetTerminal, StreamOnly, Streaming, Tell, pipeVars, cancelVars, RecordOK, TypeOK,
      RecordStatus, None
<1>9. FaithOK'
  BY <1>1, <1>2
  DEF StreamSetTerminal, StreamOnly, Streaming, Tell, pipeVars, cancelVars, FaithOK, TypeOK,
      StageOK, AnswerOK, TermOK, Untouched, CancelUnderWay, Terminal, Note, None
<1>. QED BY <1>3, <1>4, <1>5, <1>6, <1>7, <1>8, <1>9

LEMMA StreamClosedStep ==
  ASSUME NEW s \in Streams, IInv, StreamClosed(s)
  PROVE  IInv'
<1>. USE DEF IInv
<1>1. journal' = journal /\ Own' = Own
  BY
  DEF StreamClosed, StreamOnly, Streaming, Tell, pipeVars, cancelVars, Own, Logged, StageOK, TermOK
<1>2. TypeOK'
  BY BoundAssumption, <1>1
  DEF StreamClosed, StreamOnly, Streaming, Tell, pipeVars, cancelVars, TypeOK, StreamPc, None,
      Terminal
<1>3. StageOK'
  BY <1>1
  DEF StreamClosed, StreamOnly, Streaming, Tell, pipeVars, cancelVars, StageOK, TypeOK,
      CancelUnderWay
<1>4. AnswerOK'
  BY <1>1
  DEF StreamClosed, StreamOnly, Streaming, Tell, pipeVars, cancelVars, AnswerOK, TypeOK, None
<1>5. TermOK'
  BY <1>1
  DEF StreamClosed, StreamOnly, Streaming, Tell, pipeVars, cancelVars, TermOK, TypeOK, StageOK,
      CancelUnderWay, Terminal, None
<1>6. ClaimOK'
  BY <1>1
  DEF StreamClosed, StreamOnly, Streaming, Tell, pipeVars, cancelVars, ClaimOK, TypeOK, StageOK,
      TermOK, CancelUnderWay, Terminal, Note
<1>7. RecordOK'
  BY BoundAssumption, <1>1
  DEF StreamClosed, StreamOnly, Streaming, Tell, pipeVars, cancelVars, RecordOK, TypeOK,
      RecordStatus, None
<1>8. FaithOK'
  BY <1>1
  DEF StreamClosed, StreamOnly, Streaming, Tell, pipeVars, cancelVars, FaithOK, TypeOK, StageOK,
      AnswerOK, TermOK, Untouched, CancelUnderWay, Terminal, Note, None
<1>. QED BY <1>2, <1>3, <1>4, <1>5, <1>6, <1>7, <1>8

LEMMA ClientLeavesStep ==
  ASSUME NEW s \in Streams, IInv, ClientLeaves(s)
  PROVE  IInv'
<1>. USE DEF IInv
<1>1. journal' = journal /\ Own' = Own
  BY DEF ClientLeaves, StreamOnly, Streaming, Tell, pipeVars, cancelVars, Own, Logged
<1>2. TypeOK'
  BY BoundAssumption, <1>1
  DEF ClientLeaves, StreamOnly, Streaming, Tell, pipeVars, cancelVars, TypeOK, StreamPc, None
<1>3. StageOK'
  BY <1>1
  DEF ClientLeaves, StreamOnly, Streaming, Tell, pipeVars, cancelVars, StageOK, TypeOK,
      CancelUnderWay
<1>4. AnswerOK'
  BY <1>1
  DEF ClientLeaves, StreamOnly, Streaming, Tell, pipeVars, cancelVars, AnswerOK, TypeOK, None
<1>5. TermOK'
  BY <1>1
  DEF ClientLeaves, StreamOnly, Streaming, Tell, pipeVars, cancelVars, TermOK, TypeOK, StageOK,
      CancelUnderWay, Terminal, None
<1>6. ClaimOK'
  BY <1>1
  DEF ClientLeaves, StreamOnly, Streaming, Tell, pipeVars, cancelVars, ClaimOK, TypeOK, StageOK,
      TermOK, CancelUnderWay, Terminal, Note
<1>7. RecordOK'
  BY BoundAssumption, <1>1
  DEF ClientLeaves, StreamOnly, Streaming, Tell, pipeVars, cancelVars, RecordOK, TypeOK,
      RecordStatus, None
<1>8. FaithOK'
  BY <1>1
  DEF ClientLeaves, StreamOnly, Streaming, Tell, pipeVars, cancelVars, FaithOK, TypeOK, StageOK,
      AnswerOK, TermOK, Untouched, CancelUnderWay, Terminal, Note, None
<1>. QED BY <1>2, <1>3, <1>4, <1>5, <1>6, <1>7, <1>8

LEMMA ExpireStep ==
  ASSUME IInv, Expire
  PROVE  IInv'
<1>. USE DEF IInv
<1>1. journal' = journal /\ Own' = Own
  BY DEF Expire, pipeVars, storeVars, cancelVars, streamVars, Own, Logged
<1>2. TypeOK'
  BY BoundAssumption, <1>1 DEF Expire, pipeVars, storeVars, cancelVars, streamVars, TypeOK
<1>3. StageOK'
  BY <1>1
  DEF Expire, pipeVars, storeVars, cancelVars, streamVars, StageOK, TypeOK, CancelUnderWay
<1>4. AnswerOK'
  BY <1>1 DEF Expire, pipeVars, storeVars, cancelVars, streamVars, AnswerOK, TypeOK, None
<1>5. TermOK'
  BY <1>1
  DEF Expire, pipeVars, storeVars, cancelVars, streamVars, TermOK, TypeOK, StageOK,
      CancelUnderWay, Terminal, None
<1>6. ClaimOK'
  BY <1>1
  DEF Expire, pipeVars, storeVars, cancelVars, streamVars, ClaimOK, TypeOK, StageOK, TermOK,
      CancelUnderWay, Terminal, Note
<1>7. RecordOK'
  BY BoundAssumption, <1>1
  DEF Expire, pipeVars, storeVars, cancelVars, streamVars, RecordOK, TypeOK, RecordStatus, None
<1>8. FaithOK'
  BY <1>1
  DEF Expire, pipeVars, storeVars, cancelVars, streamVars, FaithOK, TypeOK, StageOK, AnswerOK,
      TermOK, Untouched, CancelUnderWay, Terminal, Note, None
<1>. QED BY <1>2, <1>3, <1>4, <1>5, <1>6, <1>7, <1>8

LEMMA CrashStep ==
  ASSUME IInv, Crash
  PROVE  IInv'
<1>. USE DEF IInv
<1>1. journal' = journal /\ Own' = Own
  BY DEF Crash, Fault, storeVars, Own, Logged
<1>2. TypeOK'
  <2>1. cpc' \in [Cancels -> CancelPc]
    BY DEF Crash, TypeOK, CancelPc
  <2>2. spc' \in [Streams -> StreamPc]
    BY DEF Crash, TypeOK, StreamPc
  <2>3. ch' \in Seq(Terminal \cup {Note}) /\ Len(ch') <= ChanCap
    BY ChanAssumption DEF Crash
  <2>4. pipe' \in Pipe /\ durable' \in RecordStatus \ {None} /\ faults' \in 0..MaxFaults
    BY BoundAssumption DEF Crash, Fault, TypeOK, Pipe, RecordStatus, None
  <2>5. out' \in Terminal /\ term' \in Terminal \cup {None}
    BY DEF Crash, Terminal
  <2>. QED BY <1>1, <2>1, <2>2, <2>3, <2>4, <2>5 DEF Crash, storeVars, TypeOK
<1>3. StageOK'
  BY <1>1 DEF Crash, Fault, storeVars, StageOK, TypeOK, CancelUnderWay
<1>4. AnswerOK'
  BY <1>1 DEF Crash, Fault, storeVars, AnswerOK, TypeOK, None
<1>5. TermOK'
  BY <1>1 DEF Crash, Fault, storeVars, TermOK, TypeOK, StageOK, CancelUnderWay, Terminal, None
<1>6. ClaimOK'
  BY <1>1
  DEF Crash, Fault, storeVars, ClaimOK, TypeOK, StageOK, TermOK, CancelUnderWay, Terminal, Note
<1>7. RecordOK'
  BY BoundAssumption, <1>1 DEF Crash, Fault, storeVars, RecordOK, TypeOK, RecordStatus, None
<1>8. FaithOK'
  BY <1>1
  DEF Crash, Fault, storeVars, FaithOK, TypeOK, StageOK, AnswerOK, TermOK, Untouched,
      CancelUnderWay, Terminal, Note, None
<1>. QED BY <1>2, <1>3, <1>4, <1>5, <1>6, <1>7, <1>8

LEMMA InvInit == Init => IInv
<1>. SUFFICES ASSUME Init PROVE IInv
  OBVIOUS
<1>1. TypeOK
  <2>1. ch \in Seq(Terminal \cup {Note}) /\ Len(ch) <= ChanCap /\ journal \in Seq(Entry)
    BY ChanAssumption DEF Init
  <2>2. pipe \in Pipe /\ out \in Terminal /\ durable \in RecordStatus \ {None}
    BY DEF Init, Pipe, Terminal, RecordStatus, None
  <2>3. record \in RecordStatus /\ cpc \in [Cancels -> CancelPc] /\ spc \in [Streams -> StreamPc]
    BY DEF Init, RecordStatus, CancelPc, StreamPc
  <2>4. term \in Terminal \cup {None} /\ claimed \in BOOLEAN /\ ctxDone \in BOOLEAN /\ held \in BOOLEAN
    BY DEF Init
  <2>5. emits \in 0..MaxProgress /\ faults \in 0..MaxFaults
    BY BoundAssumption DEF Init
  <2>6. /\ cres \in [Cancels -> {None, "cancelled", "conflict", "panic"}]
        /\ told \in [Streams -> Terminal \cup {None}]
    BY DEF Init
  <2>. QED BY <2>1, <2>2, <2>3, <2>4, <2>5, <2>6 DEF TypeOK
<1>2. StageOK /\ AnswerOK /\ TermOK /\ RecordOK
  BY DEF Init, StageOK, AnswerOK, TermOK, RecordOK, CancelUnderWay, None
<1>3. Own = {}
  BY DEF Init, Own, Logged
<1>4. ClaimOK /\ FaithOK
  BY <1>3 DEF Init, ClaimOK, FaithOK
<1>. QED BY <1>1, <1>2, <1>4 DEF IInv

LEMMA InvStep == IInv /\ [Next]_vars => IInv'
<1>. SUFFICES ASSUME IInv, [Next]_vars PROVE IInv'
  OBVIOUS
<1>1. CASE Pipeline
  BY <1>1, SendStartedStep, ProgressStep, StartedSentStep, ProgressSentStep, NothingToRunStep,
     LoopWithoutRuntimeStep, PersistStartStep, LogStartStep, LoopReturnsStep, LoopPanicsStep,
     PersistEndStep, LogEndStep, RunLoopReturnedStep, PipeSetTerminalStep, PipeClaimStep,
     PipeAppendStep, PipeDeliverStep, PipeCloseStep DEF Pipeline
<1>2. ASSUME NEW c \in Cancels, Cancel(c) PROVE IInv'
  BY <1>2, CancelCheckStep, CancelSetStep, CancelClaimStep, CancelAppendStep, CancelSendStep,
     CancelStopStep, CancelLoadStep, CancelSaveStep, CancelLogStep, CancelRecoveredStep DEF Cancel
<1>3. ASSUME NEW s \in Streams,
             StreamOpen(s) \/ StreamRecovered(s) \/ ClientLeaves(s) \/ Reading(s)
      PROVE  IInv'
  BY <1>3, StreamOpenStep, StreamRecoveredStep, ClientLeavesStep, StreamReceiveStep,
     StreamSetTerminalStep, StreamClosedStep DEF Reading
<1>4. CASE UNCHANGED vars
  <2>1. Own' = Own
    BY <1>4 DEF vars, storeVars, Own, Logged
  <2>. QED BY <1>4, <2>1 DEF IInv, TypeOK, StageOK, AnswerOK, TermOK, ClaimOK, RecordOK, FaithOK,
         Untouched, CancelUnderWay, vars, pipeVars, objVars, storeVars, cancelVars, streamVars
<1>. QED BY <1>1, <1>2, <1>3, <1>4, RegisterStep, ExpireStep, CrashStep DEF Next

(* IInv holds in every reachable state of a job.                           *)
THEOREM JobInvariant == Spec => []IInv
BY InvInit, InvStep, PTL DEF Spec

(* ClosedHasTerminal: the channel of a job is never closed without a       *)
(* terminal event, whoever cancelled it and wherever the pipeline stopped. *)
THEOREM JobClosedHasTerminal == Spec => []ClosedHasTerminal
<1>1. IInv => ClosedHasTerminal
  BY DEF IInv, TermOK, ClosedHasTerminal
<1>. QED BY <1>1, JobInvariant, PTL

(* RecordSettled: only a panic or a failed save leaves the durable record  *)
(* of a finished pipeline running.                                         *)
THEOREM JobRecordSettled == Spec => []RecordSettled
<1>1. IInv => RecordSettled
  BY BoundAssumption DEF IInv, TypeOK, RecordOK, RecordSettled
<1>. QED BY <1>1, JobInvariant, PTL

(* RecoveryFaithful: a finished job nobody cancelled is recovered from the *)
(* journal as the object reported it.                                      *)
THEOREM JobRecoveryFaithful == Spec => []RecoveryFaithful
<1>1. ASSUME IInv, pipe = "closed", Untouched
      PROVE  Recovered(journal) = term
  <2>1. journal \in Seq(Entry) /\ journal # <<>> /\ out \in Terminal
    BY <1>1 DEF IInv, TypeOK, StageOK
  <2>2. journal[Len(journal)] = out /\ term = out
    BY <1>1 DEF IInv, FaithOK
  <2>. QED BY <2>1, <2>2, RecoveredFacts
<1>2. IInv => RecoveryFaithful
  BY <1>1 DEF RecoveryFaithful
<1>. QED BY <1>2, JobInvariant, PTL

(* What a step does to the journal: nothing, a note, the one entry of the  *)
(* claim's holder, or the entry of a persisted cancel.                     *)
LEMMA JournalStep ==
  ASSUME IInv, Next
  PROVE  /\ journal' \in Seq(Entry) /\ (journal # <<>> => journal' # <<>>)
         /\ \/ UNCHANGED journal
            \/ journal' # <<>> /\ UNCHANGED faults /\ Logged' = Logged \cup {Note}
            \/ /\ journal # <<>> /\ Own = {} /\ UNCHANGED faults
               /\ \/ PipeAppend /\ Logged' = Logged \cup {out}
                  \/ Logged' = Logged \cup {"job_cancelled"}
            \/ /\ \E c \in Cancels : CancelLog(c)
               /\ journal # <<>> /\ UNCHANGED faults /\ Logged' = Logged \cup {"control"}
<1>. USE DEF IInv
<1>1. journal \in Seq(Entry) /\ (journal = <<>> => pipe = "none")
  BY DEF TypeOK, StageOK
<1>2. ASSUME NEW e \in Entry, AppendJournal(e)
      PROVE  journal' \in Seq(Entry) /\ journal' # <<>> /\ Logged' = Logged \cup {e}
  BY <1>1, <1>2, AppendFacts
<1>5. CASE Register
  BY <1>2, <1>5, EntryFacts DEF Register
<1>6. CASE Pipeline
  <2>1. CASE PipeAppend
    BY <1>1, <1>2, <2>1, EntryFacts DEF PipeAppend, TypeOK, ClaimOK
  <2>2. CASE SendStarted \/ Progress \/ LogStart \/ LogEnd
    BY <1>2, <2>2, EntryFacts DEF SendStarted, Progress, LogStart, LogEnd, JournalNote
  <2>. QED BY <1>1, <1>6, <2>1, <2>2
         DEF Pipeline, StartedSent, ProgressSent, NothingToRun, LoopWithoutRuntime, PersistStart,
             LoopReturns, LoopPanics, PersistEnd, RunLoopReturned, PipeSetTerminal, PipeClaim,
             PipeDeliver, PipeClose, SelectOnly, storeVars
<1>7. ASSUME NEW c \in Cancels, Cancel(c)
      PROVE  UNCHANGED journal \/ CancelAppend(c) \/ CancelLog(c)
  BY <1>7 DEF Cancel, CancelCheck, CancelSet, CancelClaim, CancelSend, CancelStop, CancelLoad,
              CancelSave, CancelRecovered, storeVars
<1>8. ASSUME NEW c \in Cancels, CancelAppend(c)
      PROVE  Own = {} /\ pipe # "none" /\ UNCHANGED faults /\ AppendJournal("job_cancelled")
  BY <1>8 DEF CancelAppend, CancelOnly, Cancelling, ClaimOK, StageOK
<1>9. ASSUME NEW c \in Cancels, CancelLog(c)
      PROVE  pipe # "none" /\ UNCHANGED faults /\ AppendJournal("control")
  BY <1>9 DEF CancelLog, CancelOnly, Cancelling, StageOK
<1>10. ASSUME NEW s \in Streams,
              StreamOpen(s) \/ StreamRecovered(s) \/ ClientLeaves(s) \/ Reading(s)
       PROVE  UNCHANGED journal
  BY <1>10 DEF StreamOpen, StreamRecovered, ClientLeaves, Reading, StreamReceive,
               StreamSetTerminal, StreamClosed, TermOK
<1>11. CASE Expire \/ Crash
  BY <1>1, <1>11 DEF Expire, Crash, storeVars
<1>12. "job_cancelled" \in Entry
  BY DEF Entry, Terminal
<1>13. ASSUME NEW c \in Cancels, Cancel(c) PROVE UNCHANGED journal \/ CancelLog(c) \/
         (/\ journal # <<>> /\ journal' # <<>> /\ journal' \in Seq(Entry) /\ Own = {}
          /\ UNCHANGED faults /\ Logged' = Logged \cup {"job_cancelled"})
  BY <1>1, <1>2, <1>7, <1>8, <1>12, <1>13
<1>14. ASSUME NEW c \in Cancels, CancelLog(c)
       PROVE  /\ journal # <<>> /\ journal' # <<>> /\ journal' \in Seq(Entry)
              /\ UNCHANGED faults /\ Logged' = Logged \cup {"control"}
  BY <1>1, <1>2, <1>9, <1>14, EntryFacts
<1>. QED BY <1>1, <1>5, <1>6, <1>10, <1>11, <1>13, <1>14 DEF Next

(* EndedStaysEnded: a job once reported ended is never reported running    *)
(* again, through cancellation, expiry, crash and recovery.                *)
THEOREM JobEndedStaysEnded == Spec => EndedStaysEnded
<1>1. ASSUME IInv, IInv', [Next]_vars, StatusAnswer \in Terminal
      PROVE  StatusAnswer' \in Terminal
  <2>1. CASE UNCHANGED vars
    BY <1>1, <2>1 DEF StatusAnswer, vars, objVars, storeVars
  <2>2. CASE Next
    <3>1. journal # <<>>
      BY <1>1 DEF IInv, StageOK, StatusAnswer, Terminal, None
    <3>2. journal' \in Seq(Entry) /\ journal' # <<>>
      BY <1>1, <2>2, <3>1, JournalStep
    <3>3. Recovered(journal)' \in Terminal
      BY <3>2, RecoveredFacts
    <3>4. CASE ~held'
      BY <3>2, <3>3, <3>4 DEF StatusAnswer
    <3>5. CASE held'
      <4>1. held /\ term # None
        BY <1>1, <2>2, <3>1, <3>5
        DEF Next, Register, Pipeline, SendStarted, Progress, StartedSent, ProgressSent,
            NothingToRun, LoopWithoutRuntime, PersistStart, LogStart, LoopReturns, LoopPanics,
            PersistEnd, LogEnd, RunLoopReturned, PipeSetTerminal, PipeClaim, PipeAppend,
            PipeDeliver, PipeClose, JournalNote, SelectOnly, PipeOnly, Expire, Crash, Cancel,
            CancelCheck, CancelSet, CancelClaim, CancelAppend, CancelSend, CancelStop, CancelLoad,
            CancelSave, CancelLog, CancelRecovered, CancelOnly, Reading, StreamOpen,
            StreamRecovered, ClientLeaves, StreamReceive, StreamSetTerminal, StreamClosed,
            StreamOnly, objVars, IInv, StageOK, StatusAnswer, Terminal, None
      <4>2. term' # None
        BY <1>1, <2>2, <3>5, <4>1
        DEF Next, Register, Pipeline, SendStarted, Progress, StartedSent, ProgressSent,
            NothingToRun, LoopWithoutRuntime, PersistStart, LogStart, LoopReturns, LoopPanics,
            PersistEnd, LogEnd, RunLoopReturned, PipeSetTerminal, PipeClaim, PipeAppend,
            PipeDeliver, PipeClose, JournalNote, SelectOnly, PipeOnly, Expire, Crash, Cancel,
            CancelCheck, CancelSet, CancelClaim, CancelAppend, CancelSend, CancelStop, CancelLoad,
            CancelSave, CancelLog, CancelRecovered, CancelOnly, Reading, StreamOpen,
            StreamRecovered, ClientLeaves, StreamReceive, StreamSetTerminal, StreamClosed,
            Streaming, StreamOnly, objVars, IInv, TypeOK, TermOK, Terminal, None
      <4>. QED BY <1>1, <3>5, <4>2 DEF IInv, TypeOK, StatusAnswer
    <3>. QED BY <3>4, <3>5
  <2>. QED BY <1>1, <2>1, <2>2
<1>2. IInv /\ IInv' /\ [Next]_vars
        => [(StatusAnswer \in Terminal) => (StatusAnswer' \in Terminal)]_vars
  BY <1>1
<1>. QED BY <1>2, JobInvariant, PTL DEF Spec, EndedStaysEnded

(* The outcomes in the journal are the job's own and that of a persisted   *)
(* cancel.                                                                 *)
LEMMA DecidedFacts ==
  ASSUME NEW L
  PROVE  {EventType(e) : e \in L} \cap Terminal =
           (L \cap Terminal) \cup {o \in {"job_cancelled"} : "control" \in L}
<1>1. \A e : EventType(e) = IF e = "control" THEN "job_cancelled" ELSE e
  BY DEF EventType
<1>2. "job_cancelled" \in Terminal /\ "control" \notin Terminal
  BY DEF Terminal
<1>. QED BY <1>1, <1>2

(* A step that adds no outcome, begins no persisted cancel and leaves the  *)
(* claim with its holder.                                                  *)
LEMMA ControlQuiet ==
  ASSUME ControlOK, TypeOK, faults' \in Nat, faults <= faults', claimed => claimed', Own' = Own,
         "control" \in Logged' => "control" \in Logged,
         \A c \in Cancels : /\ cpc'[c] \in {"save", "log"} => cpc[c] \in {"save", "log"}
                            /\ cpc'[c] \in {"send", "stop", "load", "save", "log"} =>
                                 claimed' \/ cpc[c] \in {"send", "stop", "load", "save", "log"},
         pipe' = "append" => pipe = "append" \/ ~claimed,
         pipe \in {"append", "deliver", "closing", "closed", "dead"} =>
           pipe' \in {"append", "deliver", "closing", "closed", "dead"}
  PROVE  ControlOK'
BY DEF ControlOK, TypeOK

LEMMA FaultsGrow ==
  ASSUME TypeOK, [Next]_vars
  PROVE  faults \in Nat /\ faults' \in Nat /\ faults <= faults'
<1>1. faults \in Nat
  BY BoundAssumption DEF TypeOK
<1>2. Fault \/ UNCHANGED faults
  BY DEF Next, Register, Pipeline, SendStarted, Progress, StartedSent, ProgressSent,
         NothingToRun, LoopWithoutRuntime, PersistStart, LogStart, LoopReturns, LoopPanics,
         PersistEnd, LogEnd, RunLoopReturned, PipeSetTerminal, PipeClaim, PipeAppend,
         PipeDeliver, PipeClose, JournalNote, SelectOnly, Expire, Crash, Cancel,
         CancelCheck, CancelSet, CancelClaim, CancelAppend, CancelSend, CancelStop, CancelLoad,
         CancelSave, CancelLog, CancelRecovered, CancelOnly, Reading, StreamOpen,
         StreamRecovered, ClientLeaves, StreamReceive, StreamSetTerminal, StreamClosed,
         StreamOnly, vars
<1>. QED BY <1>1, <1>2 DEF Fault

LEMMA ControlStep == ASSUME IInv, ControlOK, [Next]_vars PROVE ControlOK'
<1>. USE DEF IInv
<1>0. faults \in Nat /\ faults' \in Nat /\ faults <= faults'
  BY FaultsGrow
<1>1. ASSUME UNCHANGED journal \/ Logged' = Logged \cup {Note}
      PROVE  Own' = Own /\ ("control" \in Logged' => "control" \in Logged)
  BY <1>1 DEF Own, Logged, Note, Terminal
<1>2. ASSUME Pipeline, ~PipeAppend PROVE ControlOK'
  <2>1. /\ UNCHANGED cpc /\ (claimed => claimed')
        /\ pipe' = "append" => pipe = "append" \/ ~claimed
    BY <1>2 DEF Pipeline, SendStarted, Progress, StartedSent, ProgressSent,
         NothingToRun, LoopWithoutRuntime, PersistStart, LogStart, LoopReturns, LoopPanics,
         PersistEnd, LogEnd, RunLoopReturned, PipeSetTerminal, PipeClaim,
         PipeDeliver, PipeClose, JournalNote, SelectOnly, PipeOnly, AfterSend, cancelVars
  <2>2. pipe \in {"append", "deliver", "closing", "closed", "dead"} =>
          pipe' \in {"append", "deliver", "closing", "closed", "dead"}
    BY <1>2 DEF Pipeline, SendStarted, Progress, StartedSent, ProgressSent,
         NothingToRun, LoopWithoutRuntime, PersistStart, LogStart, LoopReturns, LoopPanics,
         PersistEnd, LogEnd, RunLoopReturned, PipeSetTerminal, PipeClaim,
         PipeDeliver, PipeClose, JournalNote, AfterSend
  <2>3. UNCHANGED journal \/ Logged' = Logged \cup {Note}
    <3>1. UNCHANGED journal \/ AppendJournal(Note)
      BY <1>2 DEF Pipeline, SendStarted, Progress, StartedSent, ProgressSent,
           NothingToRun, LoopWithoutRuntime, PersistStart, LogStart, LoopReturns, LoopPanics,
           PersistEnd, LogEnd, RunLoopReturned, PipeSetTerminal, PipeClaim,
           PipeDeliver, PipeClose, JournalNote, SelectOnly, storeVars
    <3>. QED BY <3>1, AppendFacts, EntryFacts DEF TypeOK
  <2>. QED BY <1>0, <1>1, <2>1, <2>2, <2>3, ControlQuiet
<1>3. CASE PipeAppend
  <2>1. /\ pipe = "append" /\ pipe' = "deliver" /\ AppendJournal(out)
        /\ UNCHANGED <<cpc, claimed, faults>> /\ out \in Terminal /\ Own = {}
    BY <1>3 DEF PipeAppend, PipeOnly, cancelVars, TypeOK, ClaimOK
  <2>2. Logged' = Logged \cup {out} /\ Own' = {out} /\ out # "control"
    BY <2>1, AppendFacts, EntryFacts DEF TypeOK, Terminal
  <2>. QED BY <2>1, <2>2 DEF ControlOK
<1>4. ASSUME NEW c \in Cancels,
             \/ CancelCheck(c) \/ CancelSet(c) \/ CancelClaim(c) \/ CancelSend(c)
             \/ CancelStop(c) \/ CancelSave(c) \/ CancelRecovered(c)
      PROVE  ControlOK'
  <2>1. UNCHANGED <<journal, pipe>> /\ (claimed => claimed')
    BY <1>4 DEF CancelCheck, CancelSet, CancelClaim, CancelSend, CancelStop, CancelSave,
                CancelRecovered, CancelOnly, pipeVars, storeVars, objVars
  <2>2. \A d \in Cancels : d # c => cpc'[d] = cpc[d]
    BY <1>4 DEF CancelCheck, CancelSet, CancelClaim, CancelSend, CancelStop, CancelSave,
                CancelRecovered, Cancelling, TypeOK
  <2>3. /\ cpc'[c] \in {"save", "log"} => cpc[c] \in {"save", "log"}
        /\ cpc'[c] \in {"send", "stop", "load", "save", "log"} =>
             claimed' \/ cpc[c] \in {"send", "stop", "load", "save", "log"}
    BY <1>4 DEF CancelCheck, CancelSet, CancelClaim, CancelSend, CancelStop, CancelSave,
                CancelRecovered, Cancelling, TypeOK
  <2>. QED BY <1>0, <1>1, <2>1, <2>2, <2>3, ControlQuiet
<1>5. ASSUME NEW c \in Cancels, CancelAppend(c) PROVE ControlOK'
  <2>1. /\ cpc[c] = "append" /\ cpc' = [cpc EXCEPT ![c] = "send"]
        /\ UNCHANGED <<pipe, claimed, faults>> /\ AppendJournal("job_cancelled")
    BY <1>5 DEF CancelAppend, Cancelling, CancelOnly, pipeVars
  <2>2. Logged' = Logged \cup {"job_cancelled"}
    BY <2>1, AppendFacts DEF TypeOK, Entry, Terminal
  <2>3. claimed /\ pipe # "append" /\ Own' = {"job_cancelled"}
    BY <2>1, <2>2 DEF ClaimOK, Own, Terminal
  <2>. QED BY <2>1, <2>2, <2>3 DEF ControlOK, TypeOK
<1>6. ASSUME NEW c \in Cancels, CancelLoad(c) PROVE ControlOK'
  <2>1. UNCHANGED <<pipe, claimed, faults, journal>> /\ cpc[c] = "load"
    BY <1>6 DEF CancelLoad, CancelOnly, Cancelling, pipeVars, objVars, storeVars
  <2>2. \/ cpc' = [cpc EXCEPT ![c] = "save"] /\ record = "running"
        \/ cpc' = [cpc EXCEPT ![c] = "answered"]
    BY <1>6 DEF CancelLoad, Cancelling
  <2>3. record = "running" /\ faults = 0 => pipe # "append" /\ Own \subseteq {"job_cancelled"}
    BY DEF RecordOK, ControlOK
  <2>. QED BY <2>1, <2>2, <2>3 DEF ControlOK, TypeOK, Own, Logged
<1>7. ASSUME NEW c \in Cancels, CancelLog(c) PROVE ControlOK'
  <2>1. /\ cpc[c] = "log" /\ cpc' = [cpc EXCEPT ![c] = "answered"]
        /\ UNCHANGED <<pipe, claimed, faults>> /\ AppendJournal("control")
    BY <1>7 DEF CancelLog, Cancelling, CancelOnly, pipeVars, objVars
  <2>2. Own' = Own
    <3>1. "control" \in Entry /\ {"control"} \cap Terminal = {} /\ journal \in Seq(Entry)
      BY EntryFacts DEF TypeOK
    <3>2. Own' = Own \cup ({"control"} \cap Terminal)
      BY <2>1, <3>1, AppendFacts
    <3>. QED BY <3>1, <3>2
  <2>. QED BY <2>1, <2>2 DEF ControlOK, TypeOK
<1>8. ASSUME NEW s \in Streams,
             StreamOpen(s) \/ StreamRecovered(s) \/ ClientLeaves(s) \/ Reading(s)
      PROVE  ControlOK'
  <2>1. UNCHANGED <<pipe, cpc, journal>> /\ (claimed => claimed')
    BY <1>8 DEF StreamOpen, StreamRecovered, ClientLeaves, Reading, StreamReceive,
                StreamSetTerminal, StreamClosed, StreamOnly, pipeVars, cancelVars, TermOK
  <2>. QED BY <1>0, <1>1, <2>1, ControlQuiet
<1>9. CASE Register \/ Expire \/ UNCHANGED vars
  <2>1. UNCHANGED <<cpc, claimed>> /\ (UNCHANGED pipe \/ (pipe = "none" /\ pipe' = "starting"))
    BY <1>9 DEF Register, Expire, vars, pipeVars, objVars, cancelVars
  <2>2. UNCHANGED journal \/ Logged' = Logged \cup {Note}
    BY <1>9, AppendFacts, EntryFacts DEF Register, Expire, vars, storeVars, TypeOK
  <2>. QED BY <1>0, <1>1, <2>1, <2>2, ControlQuiet
<1>10. CASE Crash
  <2>1. /\ pipe' = "dead" /\ faults' # 0 /\ UNCHANGED journal
        /\ \A c \in Cancels : cpc'[c] \notin {"send", "stop", "load", "save", "log"}
    BY <1>0, <1>10 DEF Crash, Fault, storeVars
  <2>2. Own' = Own
    BY <2>1, <1>1
  <2>. QED BY <2>1, <2>2 DEF ControlOK
<1>. QED BY <1>2, <1>3, <1>4, <1>5, <1>6, <1>7, <1>8, <1>9, <1>10 DEF Next, Cancel

(* OneOutcome: a job implements JobOutcome.  Its journal holds one outcome *)
(* unless a panic, a failed save or a crash happened; and never three, or  *)
(* two neither of which says that the job was cancelled.                   *)
THEOREM JobOneOutcome == Spec => OneOutcome
<1>1. Init => Outcome!Init /\ ControlOK
  BY DEF Init, Outcome!Init, Decided, Logged, Own, ControlOK
<1>2. ASSUME IInv, ControlOK, [Next]_vars
      PROVE  [Outcome!Next]_<<journal # <<>>, faults > 0, Decided>>
  <2>1. CASE UNCHANGED vars
    BY <2>1 DEF vars, storeVars, Decided, Logged
  <2>2. CASE Next
    <3>. DEFINE C == {o \in {"job_cancelled"} : "control" \in Logged}
    <3>1. Decided = Own \cup C /\ Decided' = Own' \cup C'
      BY DecidedFacts DEF Decided, Own
    <3>2. faults \in Nat /\ faults' \in Nat /\ faults <= faults'
      BY <1>2, FaultsGrow DEF IInv
    <3>3. CASE UNCHANGED journal
      BY <3>2, <3>3 DEF Outcome!Next, Outcome!Trouble, Decided, Logged
    <3>4. CASE journal' # <<>> /\ UNCHANGED faults /\ Logged' = Logged \cup {Note}
      <4>1. Decided' = Decided
        BY <3>1, <3>4 DEF Own, Note, Terminal
      <4>. QED BY <3>4, <4>1 DEF Outcome!Next, Outcome!Accept
    <3>5. ASSUME NEW o \in Terminal, journal # <<>>, journal' # <<>>, Own = {}, UNCHANGED faults,
                 Logged' = Logged \cup {o}, o # "job_cancelled" => pipe = "append"
          PROVE  [Outcome!Next]_<<journal # <<>>, faults > 0, Decided>>
      <4>1. Own' = {o} /\ C' = C
        BY <3>5 DEF Own, Terminal
      <4>2. CASE C = {}
        BY <3>1, <3>5, <4>1, <4>2 DEF Outcome!Next, Outcome!Decide
      <4>3. CASE "control" \in Logged
        <5>1. Decided = {"job_cancelled"} /\ Decided' = {"job_cancelled", o}
          BY <3>1, <3>5, <4>1, <4>3
        <5>2. o # "job_cancelled" => faults > 0
          BY <1>2, <3>2, <3>5, <4>3 DEF ControlOK
        <5>3. "job_cancelled" \in Terminal
          BY DEF Terminal
        <5>. QED BY <3>5, <5>1, <5>2, <5>3 DEF Outcome!Next, Outcome!Contradict
      <4>. QED BY <4>2, <4>3
    <3>6. ASSUME NEW c \in Cancels, CancelLog(c), journal # <<>>, journal' # <<>>, UNCHANGED faults,
                 Logged' = Logged \cup {"control"}
          PROVE  [Outcome!Next]_<<journal # <<>>, faults > 0, Decided>>
      <4>1. Own' = Own /\ Decided' = Own \cup {"job_cancelled"} /\ cpc[c] = "log"
        BY <3>1, <3>6 DEF Own, Terminal, CancelLog, Cancelling
      <4>2. CASE Own = {}
        <5>1. Decided \in {{}, {"job_cancelled"}} /\ Decided' = {"job_cancelled"}
          BY <3>1, <4>1, <4>2
        <5>2. "job_cancelled" \in Terminal
          BY DEF Terminal
        <5>. QED BY <3>6, <5>1, <5>2 DEF Outcome!Next, Outcome!Decide
      <4>3. ASSUME NEW o \in Own PROVE [Outcome!Next]_<<journal # <<>>, faults > 0, Decided>>
        <5>1. Own = {o} /\ o \in Terminal /\ "job_cancelled" \in Terminal
          BY <1>2, <4>3 DEF ControlOK, Own, Terminal
        <5>2. CASE o = "job_cancelled" \/ "control" \in Logged
          <6>1. Decided' = Decided
            BY <3>1, <4>1, <5>1, <5>2
          <6>. QED BY <3>6, <6>1
        <5>3. CASE o # "job_cancelled" /\ "control" \notin Logged
          <6>1. Decided = {o} /\ Decided' = {o, "job_cancelled"}
            BY <3>1, <4>1, <5>1, <5>3
          <6>2. faults > 0
            BY <1>2, <3>2, <4>1, <5>1, <5>3 DEF ControlOK
          <6>. QED BY <3>6, <5>1, <5>3, <6>1, <6>2 DEF Outcome!Next, Outcome!Contradict
        <5>. QED BY <5>2, <5>3
      <4>. QED BY <4>2, <4>3
    <3>7. out \in Terminal /\ "job_cancelled" \in Terminal
      BY <1>2 DEF IInv, TypeOK, Terminal
    <3>. QED BY <1>2, <2>2, <3>3, <3>4, <3>5, <3>6, <3>7, JournalStep DEF PipeAppend
  <2>. QED BY <1>2, <2>1, <2>2
<1>. QED BY <1>1, <1>2, ControlStep, JobInvariant, PTL DEF Spec, OneOutcome, Outcome!Spec, Outcome!vars

=============================================================================
