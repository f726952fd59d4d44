-------------------------- MODULE SteeringBusProofs --------------------------
(***************************************************************************)
(* Proofs about SteeringBus, for any signals, loops and limits.            *)
(***************************************************************************)
EXTENDS SteeringBus, SequenceTheorems, FiniteSetTheorems, TLAPS

-----------------------------------------------------------------------------
(* Sequences.                                                              *)

LEMMA LastNFacts ==
  ASSUME NEW S, NEW q \in Seq(S), NEW n \in Nat \ {0}
  PROVE  /\ LastN(q, n) \in Seq(S)
         /\ Len(LastN(q, n)) = IF Len(q) > n THEN n ELSE Len(q)
         /\ \A i \in 1..Len(LastN(q, n)) :
              LastN(q, n)[i] = q[i + (Len(q) - Len(LastN(q, n)))]
<1>1. Len(q) \in Nat /\ \A i \in 1..Len(q) : q[i] \in S
  OBVIOUS
<1>2. CASE Len(q) > n
  <2>1. PICK m \in Nat : m = Len(q) - n /\ Len(q) - m = n
    BY <1>1, <1>2
  <2>2. LastN(q, n) = SubSeq(q, m + 1, Len(q))
    BY <1>2, <2>1 DEF LastN
  <2>3. \A i \in (m + 1)..Len(q) : q[i] \in S
    BY <1>1, <2>1
  <2>4. /\ SubSeq(q, m + 1, Len(q)) \in Seq(S)
        /\ Len(SubSeq(q, m + 1, Len(q))) = IF m + 1 <= Len(q) THEN Len(q) - (m + 1) + 1 ELSE 0
        /\ \A i \in 1..(Len(q) - (m + 1) + 1) : SubSeq(q, m + 1, Len(q))[i] = q[m + 1 + i - 1]
    BY <1>1, <2>1, <2>3, SubSeqProperties
  <2>5. Len(LastN(q, n)) = n
    BY <1>1, <1>2, <2>1, <2>2, <2>4
  <2>6. ASSUME NEW i \in 1..n PROVE LastN(q, n)[i] = q[i + m]
    <3>1. i \in 1..(Len(q) - (m + 1) + 1) /\ m + 1 + i - 1 = i + m
      BY <1>1, <2>1
    <3>. QED BY <2>2, <2>4, <3>1
  <2>7. LastN(q, n) \in Seq(S)
    BY <2>2, <2>4
  <2>. QED BY <1>2, <2>1, <2>5, <2>6, <2>7
<1>3. CASE ~(Len(q) > n)
  <2>1. LastN(q, n) = q
    BY <1>3, SubSeqFull DEF LastN
  <2>. QED BY <1>1, <1>3, <2>1
<1>. QED BY <1>2, <1>3

LEMMA AppendFacts ==
  ASSUME NEW S, NEW q \in Seq(S), NEW e \in S
  PROVE  /\ Append(q, e) \in Seq(S) /\ Len(q) \in Nat
         /\ DOMAIN q = 1..Len(q) /\ DOMAIN Append(q, e) = 1..(Len(q) + 1)
         /\ Len(Append(q, e)) = Len(q) + 1
         /\ \A i \in 1..Len(q) : Append(q, e)[i] = q[i]
         /\ Append(q, e)[Len(q) + 1] = e
OBVIOUS

LEMMA TailFacts ==
  ASSUME NEW S, NEW q \in Seq(S), q # <<>>
  PROVE  /\ Head(q) \in S /\ Head(q) = q[1] /\ 1 \in DOMAIN q
         /\ Tail(q) \in Seq(S) /\ Len(q) \in Nat /\ Len(q) >= 1
         /\ DOMAIN q = 1..Len(q) /\ DOMAIN Tail(q) = 1..(Len(q) - 1)
         /\ Len(Tail(q)) = Len(q) - 1
         /\ \A i \in 1..(Len(q) - 1) : Tail(q)[i] = q[i + 1]
OBVIOUS

(* The pending queue after one more signal: it is the last one, and the    *)
(* others have moved up by one if the queue was full.                      *)
LEMMA PendingFacts ==
  ASSUME NEW q \in Seq(Signals), Len(q) <= PendCap, NEW s \in Signals
  PROVE  LET t == LastN(Append(q, s), PendCap)
             d == IF Len(q) = PendCap THEN 1 ELSE 0
         IN /\ t \in Seq(Signals) /\ Len(t) <= PendCap
            /\ Len(t) = Len(q) + 1 - d /\ Len(t) >= 1 /\ Len(q) \in Nat
            /\ DOMAIN t = 1..Len(t) /\ DOMAIN q = 1..Len(q)
            /\ t[Len(t)] = s
            /\ \A i \in 1..(Len(t) - 1) : t[i] = q[i + d]
<1>. DEFINE a == Append(q, s)
            t == LastN(a, PendCap)
            d == IF Len(q) = PendCap THEN 1 ELSE 0
<1>1. /\ a \in Seq(Signals) /\ Len(a) = Len(q) + 1 /\ Len(q) \in Nat /\ DOMAIN q = 1..Len(q)
      /\ a[Len(q) + 1] = s /\ \A i \in 1..Len(q) : a[i] = q[i]
  BY AppendFacts
<1>2. PendCap \in Nat \ {0}
  BY LimitAssumption
<1>. HIDE DEF a
<1>3. /\ t \in Seq(Signals) /\ Len(t) = (IF Len(a) > PendCap THEN PendCap ELSE Len(a))
      /\ \A i \in 1..Len(t) : t[i] = a[i + (Len(a) - Len(t))]
  BY <1>1, <1>2, LastNFacts
<1>. HIDE DEF t
<1>4. CASE Len(q) = PendCap
  <2>1. d = 1 /\ Len(t) = PendCap /\ Len(a) - Len(t) = 1
    BY <1>1, <1>2, <1>3, <1>4
  <2>2. t[Len(t)] = s /\ \A i \in 1..(Len(t) - 1) : t[i] = q[i + 1]
    BY <1>1, <1>2, <1>3, <1>4, <2>1
  <2>. QED BY <1>1, <1>2, <1>3, <1>4, <2>1, <2>2 DEF a, t
<1>5. CASE Len(q) # PendCap
  <2>0. Len(q) \in Nat /\ Len(a) = Len(q) + 1 /\ d = 0
    BY <1>1, <1>5
  <2>. HIDE DEF d
  <2>1. Len(q) < PendCap /\ ~(Len(a) > PendCap) /\ d = 0
    BY <1>2, <1>5, <2>0
  <2>2. Len(t) = Len(q) + 1 /\ Len(t) = Len(a)
    BY <1>1, <1>3, <2>1
  <2>3. \A i \in 1..Len(t) : t[i] = a[i]
    <3>1. Len(a) - Len(t) = 0 /\ Len(t) \in Nat
      BY <2>0, <2>2
    <3>2. \A i \in 1..Len(t) : i + 0 = i
      BY <3>1
    <3>. QED BY <1>3, <3>1, <3>2
  <2>4. t[Len(t)] = s /\ \A i \in 1..(Len(t) - 1) : t[i] = q[i + d]
    BY <1>1, <2>1, <2>2, <2>3
  <2>5. Len(t) = Len(q) + 1 - d /\ Len(t) >= 1 /\ Len(t) <= PendCap
    BY <1>2, <2>0, <2>1, <2>2
  <2>6. DOMAIN t = 1..Len(t)
    BY <1>3
  <2>. QED BY <1>1, <1>3, <2>4, <2>5, <2>6 DEF a, t, d
<1>. QED BY <1>4, <1>5

-----------------------------------------------------------------------------
(* queueSteeringSignal.                                                    *)

LEMMA EnqueueFacts ==
  ASSUME TypeOK, NEW s \in Signals, Enqueue(s)
  PROVE  /\ seen' = seen \cup {s}
         /\ chan' \in [Loops -> Seq(Signals)] /\ \A l \in Loops : Len(chan'[l]) <= ChanCap
         /\ pending' \in Seq(Signals) /\ Len(pending') <= PendCap
         /\ \/ s \in seen /\ UNCHANGED <<chan, pending>>
            \/ /\ s \notin seen /\ UNCHANGED pending /\ current \in Loops
               /\ chan'[current] = Append(chan[current], s)
               /\ \A l \in Loops : l # current => chan'[l] = chan[l]
            \/ /\ s \notin seen /\ UNCHANGED chan
               /\ pending' = LastN(Append(pending, s), PendCap)
<1>1. CASE s \in seen
  BY <1>1 DEF Enqueue, TypeOK
<1>2. CASE s \notin seen /\ current # NoLoop /\ Len(chan[current]) < ChanCap
  <2>1. current \in Loops /\ chan' = [chan EXCEPT ![current] = Append(chan[current], s)]
        /\ UNCHANGED pending /\ seen' = seen \cup {s}
    BY <1>2 DEF Enqueue, TypeOK
  <2>2. Append(chan[current], s) \in Seq(Signals)
        /\ Len(Append(chan[current], s)) <= ChanCap
    <3>1. chan[current] \in Seq(Signals) /\ Len(chan[current]) \in Nat
      BY <2>1 DEF TypeOK
    <3>. QED BY <1>2, <3>1, AppendFacts, LimitAssumption
  <2>. QED BY <1>2, <2>1, <2>2 DEF TypeOK
<1>3. CASE s \notin seen /\ ~(current # NoLoop /\ Len(chan[current]) < ChanCap)
  <2>1. pending' = LastN(Append(pending, s), PendCap) /\ UNCHANGED chan /\ seen' = seen \cup {s}
    BY <1>3 DEF Enqueue
  <2>2. pending' \in Seq(Signals) /\ Len(pending') <= PendCap
    BY <2>1, PendingFacts DEF TypeOK
  <2>. QED BY <1>3, <2>1, <2>2 DEF TypeOK
<1>. QED BY <1>1, <1>2, <1>3

-----------------------------------------------------------------------------
(* Types, the registered channel, and what a loop is flushing.             *)

Basic == TypeOK /\ HeldChannelOpen /\ FlushOK

LEMMA BasicInit == Init => Basic
BY LimitAssumption, LoopsAssumption, EmptySeq
   DEF Init, Basic, TypeOK, HeldChannelOpen, FlushOK, RequestPc, LoopPc

LEMMA EnqueueBasic ==
  ASSUME Basic, NEW s \in Signals, Enqueue(s), UNCHANGED <<current, lpc, applied, journaled, others, restarts>>,
         journal' \in Seq(Signals \cup {Other}), spc' \in [Signals -> RequestPc],
         todo' \in [Loops -> Seq(Signals \cup {Other})],
         \A l \in Loops : lpc[l] = "flushing" => todo'[l] = todo[l]
  PROVE  Basic'
<1>1. /\ seen' = seen \cup {s}
      /\ chan' \in [Loops -> Seq(Signals)] /\ \A l \in Loops : Len(chan'[l]) <= ChanCap
      /\ pending' \in Seq(Signals) /\ Len(pending') <= PendCap
  BY EnqueueFacts DEF Basic
<1>2. TypeOK'
  BY <1>1 DEF Basic, TypeOK
<1>3. HeldChannelOpen' /\ FlushOK'
  BY DEF Basic, HeldChannelOpen, FlushOK
<1>. QED BY <1>2, <1>3 DEF Basic

LEMMA BasicStep == Basic /\ [Next]_vars => Basic'
<1>. SUFFICES ASSUME Basic, [Next]_vars PROVE Basic'
  OBVIOUS
<1>. USE DEF Basic
<1>1. ASSUME NEW s \in Signals, SubmitQueue(s) PROVE Basic'
  <2>1. spc' \in [Signals -> RequestPc]
    BY <1>1 DEF SubmitQueue, TypeOK, RequestPc
  <2>2. /\ Enqueue(s) /\ UNCHANGED <<current, lpc, applied, journaled, others, restarts>>
        /\ UNCHANGED <<journal, todo>>
    BY <1>1 DEF SubmitQueue, loopVars
  <2>. HIDE DEF Basic
  <2>. QED BY <2>1, <2>2, EnqueueBasic DEF Basic, TypeOK
<1>2. ASSUME NEW s \in Signals, SubmitJournal(s) PROVE Basic'
  <2>1. journal' \in Seq(Signals \cup {Other})
    BY <1>2, AppendFacts DEF SubmitJournal, TypeOK
  <2>. QED BY <1>2, <2>1 DEF SubmitJournal, TypeOK, HeldChannelOpen, FlushOK, busVars, loopVars, RequestPc
<1>3. CASE JournalOther
  <2>1. journal' \in Seq(Signals \cup {Other}) /\ others' \in 0..MaxOther
    BY <1>3, AppendFacts, LimitAssumption DEF JournalOther, TypeOK
  <2>. QED BY <1>3, <2>1 DEF JournalOther, TypeOK, HeldChannelOpen, FlushOK, busVars, loopVars
<1>4. ASSUME NEW l \in Loops, ReplayRead(l) PROVE Basic'
  <2>1. LastN(journal, ReplayLimit) \in Seq(Signals \cup {Other})
    BY LastNFacts, LimitAssumption DEF TypeOK
  <2>. QED BY <1>4, <2>1, LoopsAssumption
           DEF ReplayRead, LoopAt, TypeOK, HeldChannelOpen, FlushOK, busVars, LoopPc
<1>5. ASSUME NEW l \in Loops, ReplayNext(l) PROVE Basic'
  <2>1. /\ todo[l] \in Seq(Signals \cup {Other}) /\ todo[l] # <<>> /\ lpc[l] = "replaying"
        /\ todo' = [todo EXCEPT ![l] = Tail(@)]
        /\ UNCHANGED <<current, lpc, applied, journaled, others, restarts>> /\ UNCHANGED <<journal, spc>>
    BY <1>5 DEF ReplayNext, TypeOK
  <2>2. Head(todo[l]) \in Signals \cup {Other} /\ Tail(todo[l]) \in Seq(Signals \cup {Other})
    BY <2>1, TailFacts
  <2>3. /\ todo' \in [Loops -> Seq(Signals \cup {Other})]
        /\ \A k \in Loops : lpc[k] = "flushing" => todo'[k] = todo[k]
    BY <2>1, <2>2 DEF TypeOK
  <2>4. CASE Head(todo[l]) = Other
    BY <1>5, <2>1, <2>3, <2>4 DEF ReplayNext, TypeOK, HeldChannelOpen, FlushOK
  <2>5. CASE Head(todo[l]) # Other
    <3>1. Head(todo[l]) \in Signals /\ Enqueue(Head(todo[l]))
      BY <1>5, <2>2, <2>5 DEF ReplayNext
    <3>2. journal' \in Seq(Signals \cup {Other}) /\ spc' \in [Signals -> RequestPc]
      BY <2>1 DEF TypeOK
    <3>. HIDE DEF Basic
    <3>. QED BY <2>1, <2>3, <3>1, <3>2, EnqueueBasic
  <2>. QED BY <2>4, <2>5
<1>6. ASSUME NEW l \in Loops, Register(l) PROVE Basic'
  <2>1. pending \in Seq(Signals) /\ pending \in Seq(Signals \cup {Other}) /\ PendCap \in Nat
    BY LimitAssumption DEF TypeOK
  <2>2. <<>> \in Seq(Signals) /\ Len(<<>>) <= PendCap
    BY <2>1
  <2>. QED BY <1>6, <2>1, <2>2
           DEF Register, LoopAt, TypeOK, HeldChannelOpen, FlushOK, LoopPc
<1>7. ASSUME NEW l \in Loops, Flush(l) PROVE Basic'
  <2>1. /\ todo[l] \in Seq(Signals) /\ todo[l] # <<>>
        /\ chan[l] \in Seq(Signals) /\ Len(chan[l]) < ChanCap
        /\ chan' = [chan EXCEPT ![l] = Append(@, Head(todo[l]))]
        /\ todo' = [todo EXCEPT ![l] = Tail(@)]
        /\ UNCHANGED <<current, pending, seen, journal, spc, lpc, applied, journaled, others, restarts>>
    BY <1>7 DEF Flush, TypeOK, FlushOK
  <2>2. /\ Head(todo[l]) \in Signals /\ Tail(todo[l]) \in Seq(Signals)
        /\ Tail(todo[l]) \in Seq(Signals \cup {Other})
    BY <2>1, TailFacts
  <2>3. /\ Append(chan[l], Head(todo[l])) \in Seq(Signals)
        /\ Len(Append(chan[l], Head(todo[l]))) <= ChanCap
    BY <2>1, <2>2, AppendFacts, LimitAssumption
  <2>4. chan' \in [Loops -> Seq(Signals)] /\ \A k \in Loops : Len(chan'[k]) <= ChanCap
    BY <2>1, <2>3 DEF TypeOK
  <2>5. todo' \in [Loops -> Seq(Signals \cup {Other})] /\ FlushOK'
    BY <2>1, <2>2 DEF TypeOK, FlushOK
  <2>. QED BY <2>1, <2>4, <2>5 DEF TypeOK, HeldChannelOpen
<1>8. ASSUME NEW l \in Loops, Registered(l) PROVE Basic'
  BY <1>8, LoopsAssumption DEF Registered, LoopAt, TypeOK, HeldChannelOpen, FlushOK, busVars, LoopPc
<1>9. ASSUME NEW l \in Loops, Poll(l) PROVE Basic'
  <2>1. /\ chan[l] \in Seq(Signals) /\ chan[l] # <<>> /\ Len(chan[l]) <= ChanCap
        /\ chan' = [chan EXCEPT ![l] = Tail(@)] /\ applied' = Append(applied, Head(chan[l]))
        /\ UNCHANGED <<current, pending, seen, journal, spc, lpc, todo, journaled, others, restarts>>
    BY <1>9 DEF Poll, TypeOK
  <2>2. /\ Head(chan[l]) \in Signals /\ Tail(chan[l]) \in Seq(Signals)
        /\ Len(Tail(chan[l])) <= ChanCap
    BY <2>1, TailFacts, LimitAssumption
  <2>3. applied' \in Seq(Signals)
    BY <2>1, <2>2, AppendFacts DEF TypeOK
  <2>4. chan' \in [Loops -> Seq(Signals)] /\ \A k \in Loops : Len(chan'[k]) <= ChanCap
    BY <2>1, <2>2 DEF TypeOK
  <2>. QED BY <2>1, <2>3, <2>4 DEF TypeOK, HeldChannelOpen, FlushOK
<1>10. ASSUME NEW l \in Loops, Unregister(l) PROVE Basic'
  BY <1>10, LoopsAssumption DEF Unregister, LoopAt, TypeOK, HeldChannelOpen, FlushOK, LoopPc
<1>11. CASE Restart
  <2>1. <<>> \in Seq(Signals) /\ <<>> \in Seq(Signals \cup {Other}) /\ Len(<<>>) = 0
    OBVIOUS
  <2>2. PendCap \in Nat /\ ChanCap \in Nat /\ restarts' \in 0..MaxRestarts
    BY <1>11, LimitAssumption DEF Restart, TypeOK
  <2>3. spc' \in [Signals -> RequestPc] /\ lpc' \in [Loops -> LoopPc]
        /\ \A l \in Loops : lpc'[l] # "flushing"
    BY <1>11 DEF Restart, TypeOK, RequestPc, LoopPc
  <2>. QED BY <1>11, <2>1, <2>2, <2>3 DEF Restart, TypeOK, HeldChannelOpen, FlushOK
<1>12. CASE UNCHANGED vars
  BY <1>12 DEF vars, busVars, loopVars, TypeOK, HeldChannelOpen, FlushOK
<1>. QED BY <1>1, <1>2, <1>3, <1>4, <1>5, <1>6, <1>7, <1>8, <1>9, <1>10, <1>11, <1>12 DEF Next, Loop

-----------------------------------------------------------------------------
(* The replay of the journal.                                              *)

(* An entry is recent after an append only if it was, or is the new one.   *)
LEMMA RecentAppend ==
  ASSUME TypeOK, NEW e \in Signals \cup {Other}, journal' = Append(journal, e),
         NEW x, Recent(x)'
  PROVE  Recent(x) \/ x = e
<1>. DEFINE a == Append(journal, e)
            t == LastN(journal, ReplayLimit)
            u == LastN(a, ReplayLimit)
            R == ReplayLimit
<1>1. /\ a \in Seq(Signals \cup {Other}) /\ Len(journal) \in Nat /\ Len(a) = Len(journal) + 1
      /\ a[Len(journal) + 1] = e /\ \A i \in 1..Len(journal) : a[i] = journal[i]
  BY AppendFacts DEF TypeOK
<1>2. R \in Nat \ {0} /\ journal \in Seq(Signals \cup {Other})
  BY LimitAssumption DEF TypeOK
<1>3. PICK i \in DOMAIN u : u[i] = x
  BY DEF Recent
<1>. HIDE DEF a
<1>4. /\ u \in Seq(Signals \cup {Other}) /\ Len(u) = (IF Len(a) > R THEN R ELSE Len(a))
      /\ \A k \in 1..Len(u) : u[k] = a[k + (Len(a) - Len(u))]
  BY <1>1, <1>2, LastNFacts
<1>5. /\ t \in Seq(Signals \cup {Other}) /\ Len(t) = (IF Len(journal) > R THEN R ELSE Len(journal))
      /\ \A k \in 1..Len(t) : t[k] = journal[k + (Len(journal) - Len(t))]
  BY <1>2, LastNFacts
<1>. HIDE DEF t, u
<1>6. i \in 1..Len(u) /\ Len(u) \in Nat /\ Len(t) \in Nat /\ DOMAIN t = 1..Len(t)
  BY <1>3, <1>4, <1>5
<1>. HIDE DEF R
<1>7. CASE Len(journal) < R
  <2>1. Len(u) = Len(journal) + 1 /\ Len(a) - Len(u) = 0 /\ Len(t) = Len(journal)
        /\ Len(journal) - Len(t) = 0
    BY <1>1, <1>2, <1>4, <1>5, <1>7
  <2>2. u[i] = a[i]
    BY <1>4, <1>6, <2>1
  <2>3. CASE i = Len(journal) + 1
    BY <1>1, <1>3, <2>2, <2>3
  <2>4. CASE i # Len(journal) + 1
    <3>1. i \in 1..Len(journal) /\ i \in 1..Len(t)
      BY <1>1, <1>6, <2>1, <2>4
    <3>2. t[i] = journal[i + 0]
      BY <1>5, <2>1, <3>1
    <3>3. i + 0 = i
      BY <3>1
    <3>. QED BY <1>1, <1>3, <1>6, <2>2, <3>1, <3>2, <3>3 DEF Recent, t, R
  <2>. QED BY <2>3, <2>4
<1>8. CASE ~(Len(journal) < R)
  <2>1. Len(u) = R /\ Len(t) = R
    BY <1>1, <1>2, <1>4, <1>5, <1>8
  <2>2. u[i] = a[i + (Len(journal) + 1 - R)]
    BY <1>1, <1>4, <1>6, <2>1
  <2>3. CASE i = R
    <3>1. i + (Len(journal) + 1 - R) = Len(journal) + 1
      BY <1>1, <1>2, <2>3
    <3>. QED BY <1>1, <1>3, <2>2, <3>1
  <2>4. CASE i # R
    <3>1. /\ i + 1 \in 1..Len(t) /\ i + (Len(journal) + 1 - R) \in 1..Len(journal)
          /\ (i + 1) + (Len(journal) - R) = i + (Len(journal) + 1 - R)
      BY <1>1, <1>2, <1>6, <1>8, <2>1, <2>4
    <3>2. t[i + 1] = journal[(i + 1) + (Len(journal) - R)]
      BY <1>5, <2>1, <3>1
    <3>3. t[i + 1] = x
      BY <1>1, <1>3, <2>2, <3>1, <3>2
    <3>. QED BY <1>6, <3>1, <3>3 DEF Recent, t, R
  <2>. QED BY <2>3, <2>4
<1>. QED BY <1>7, <1>8

(* What a sequence holds besides its head is in its tail.                  *)
LEMMA InTail ==
  ASSUME NEW S, NEW q \in Seq(S), q # <<>>, NEW x, x # Head(q), \E i \in DOMAIN q : q[i] = x
  PROVE  \E i \in DOMAIN Tail(q) : Tail(q)[i] = x
<1>1. PICK i \in DOMAIN q : q[i] = x
  OBVIOUS
<1>2. /\ Head(q) = q[1] /\ Len(q) \in Nat /\ DOMAIN q = 1..Len(q) /\ DOMAIN Tail(q) = 1..(Len(q) - 1)
      /\ \A k \in 1..(Len(q) - 1) : Tail(q)[k] = q[k + 1]
  BY TailFacts
<1>3. i - 1 \in 1..(Len(q) - 1) /\ (i - 1) + 1 = i
  BY <1>1, <1>2
<1>. QED BY <1>1, <1>2, <1>3

LEMMA ReplayStep == Basic /\ SeenOK /\ ReplayOK /\ [Next]_vars => ReplayOK'
<1>. SUFFICES ASSUME Basic, SeenOK, ReplayOK, [Next]_vars,
                     NEW s \in Signals, Recent(s)', s \notin seen',
                     NEW k \in journaled'
              PROVE  /\ lpc'[k] \notin {"flushing", "running"}
                     /\ lpc'[k] = "replaying" => \E i \in DOMAIN todo'[k] : todo'[k][i] = s
  BY DEF ReplayOK
<1>. DEFINE Goal == /\ lpc'[k] \notin {"flushing", "running"}
                    /\ lpc'[k] = "replaying" => \E i \in DOMAIN todo'[k] : todo'[k][i] = s
            Old == /\ lpc[k] \notin {"flushing", "running"}
                   /\ lpc[k] = "replaying" => \E i \in DOMAIN todo[k] : todo[k][i] = s
<1>. k \in journaled /\ k \in Loops
  <2>1. journaled' = journaled
    BY DEF Next, Loop, SubmitQueue, SubmitJournal, JournalOther, ReplayRead, ReplayNext, Register,
           Flush, Registered, Poll, Unregister, Restart, vars
  <2>. QED BY <2>1 DEF Basic, TypeOK
<1>0. Recent(s) /\ s \notin seen => Old
  BY DEF ReplayOK
<1>1. ASSUME NEW r \in Signals, SubmitQueue(r) PROVE Goal
  <2>1. seen \subseteq seen' /\ UNCHANGED <<journal, lpc, todo>>
    BY <1>1, EnqueueFacts DEF SubmitQueue, Basic, loopVars
  <2>. QED BY <1>0, <2>1 DEF Recent
<1>2. ASSUME NEW r \in Signals, SubmitJournal(r) PROVE Goal
  <2>1. /\ journal' = Append(journal, r) /\ spc[r] = "queued"
        /\ UNCHANGED <<seen, lpc, todo>>
    BY <1>2 DEF SubmitJournal, busVars, loopVars
  <2>2. Recent(s)
    BY <2>1, RecentAppend DEF Basic, SeenOK
  <2>. QED BY <1>0, <2>1, <2>2
<1>3. CASE JournalOther
  <2>1. journal' = Append(journal, Other) /\ UNCHANGED <<seen, lpc, todo>>
    BY <1>3 DEF JournalOther, busVars, loopVars
  <2>2. Recent(s)
    BY <2>1, RecentAppend, OtherAssumption DEF Basic
  <2>. QED BY <1>0, <2>1, <2>2
<1>4. ASSUME NEW l \in Loops, ReplayRead(l) PROVE Goal
  <2>1. /\ UNCHANGED <<seen, journal>> /\ lpc[l] = "idle" /\ lpc' = [lpc EXCEPT ![l] = "replaying"]
        /\ todo' = [todo EXCEPT ![l] = IF l \in journaled THEN LastN(journal, ReplayLimit) ELSE <<>>]
        /\ l \in DOMAIN lpc /\ l \in DOMAIN todo /\ k \in DOMAIN lpc /\ k \in DOMAIN todo
    BY <1>4 DEF ReplayRead, LoopAt, busVars, Basic, TypeOK
  <2>2. Recent(s) /\ s \notin seen
    BY <2>1 DEF Recent
  <2>3. CASE k = l
    BY <2>1, <2>2, <2>3 DEF Recent
  <2>4. CASE k # l
    BY <1>0, <2>1, <2>2, <2>4
  <2>. QED BY <2>3, <2>4
<1>5. ASSUME NEW l \in Loops, ReplayNext(l) PROVE Goal
  <2>1. /\ todo[l] \in Seq(Signals \cup {Other}) /\ todo[l] # <<>> /\ lpc[l] = "replaying"
        /\ todo' = [todo EXCEPT ![l] = Tail(@)] /\ k \in DOMAIN todo
        /\ UNCHANGED <<lpc, journal>>
    BY <1>5 DEF ReplayNext, Basic, TypeOK
  <2>2. s # Head(todo[l]) /\ s \notin seen
    <3>1. CASE Head(todo[l]) = Other
      BY <1>5, <3>1, OtherAssumption DEF ReplayNext
    <3>2. CASE Head(todo[l]) # Other
      <4>1. Head(todo[l]) \in Signals
        BY <2>1, <3>2, TailFacts
      <4>2. seen' = seen \cup {Head(todo[l])}
        BY <1>5, <3>2, <4>1, EnqueueFacts DEF ReplayNext, Basic
      <4>. QED BY <4>2
    <3>. QED BY <3>1, <3>2
  <2>3. Recent(s)
    BY <2>1 DEF Recent
  <2>4. Old
    BY <1>0, <2>2, <2>3
  <2>5. CASE k = l
    <3>1. \E i \in DOMAIN todo[l] : todo[l][i] = s
      BY <2>1, <2>4, <2>5
    <3>2. \E i \in DOMAIN Tail(todo[l]) : Tail(todo[l])[i] = s
      BY <2>1, <2>2, <3>1, InTail
    <3>. QED BY <2>1, <2>5, <3>2
  <2>6. CASE k # l
    BY <2>1, <2>4, <2>6
  <2>. QED BY <2>5, <2>6
<1>6. ASSUME NEW l \in Loops, Register(l) PROVE Goal
  <2>1. /\ lpc[l] = "replaying" /\ todo[l] = <<>> /\ UNCHANGED <<seen, journal>>
        /\ k # l => lpc'[k] = lpc[k] /\ todo'[k] = todo[k]
    BY <1>6 DEF Register, LoopAt, Basic, TypeOK
  <2>2. Old
    BY <1>0, <2>1 DEF Recent
  <2>3. DOMAIN <<>> = {}
    OBVIOUS
  <2>. QED BY <2>1, <2>2, <2>3
<1>7. ASSUME NEW l \in Loops, Flush(l) \/ Registered(l) \/ Poll(l) \/ Unregister(l) PROVE Goal
  <2>1. /\ lpc[l] \in {"flushing", "running"} /\ UNCHANGED <<seen, journal>>
        /\ k # l => lpc'[k] = lpc[k] /\ todo'[k] = todo[k]
    BY <1>7 DEF Flush, Registered, Poll, Unregister, LoopAt, busVars, Basic, TypeOK
  <2>2. Old
    BY <1>0, <2>1 DEF Recent
  <2>. QED BY <2>1, <2>2
<1>8. CASE Restart
  BY <1>8 DEF Restart, Basic, TypeOK
<1>9. CASE UNCHANGED vars
  <2>1. UNCHANGED <<seen, journal, lpc, todo>>
    BY <1>9 DEF vars, busVars, loopVars
  <2>. QED BY <1>0, <2>1 DEF Recent
<1>. QED BY <1>1, <1>2, <1>3, <1>4, <1>5, <1>6, <1>7, <1>8, <1>9 DEF Next, Loop

-----------------------------------------------------------------------------
(* Boxes of signals: h before and g after a step, over a set B of boxes.   *)

Once(h) ==
  \A b, c \in DOMAIN h : \A i \in DOMAIN h[b], j \in DOMAIN h[c] :
    h[b][i] = h[c][j] => b = c /\ i = j
In(h, s) == \E b \in DOMAIN h : \E i \in DOMAIN h[b] : h[b][i] = s

(* Boxes that keep their signals or lose them all.                         *)
LEMMA SubOnce ==
  ASSUME NEW B, NEW h \in [B -> Seq(Signals)], NEW g \in [B -> Seq(Signals)], Once(h),
         \A b \in B : g[b] = h[b] \/ g[b] = <<>>
  PROVE  Once(g) /\ \A r : In(g, r) => In(h, r)
<1>1. DOMAIN <<>> = {} /\ DOMAIN h = B /\ DOMAIN g = B
  OBVIOUS
<1>2. \A b \in B : \A i \in DOMAIN g[b] : i \in DOMAIN h[b] /\ g[b][i] = h[b][i]
  BY <1>1
<1>. QED BY <1>1, <1>2 DEF Once, In

(* All signals of x move to y, which was empty.                            *)
Swapped(B, h, g, x, y) ==
  /\ h \in [B -> Seq(Signals)] /\ g \in [B -> Seq(Signals)] /\ x \in B /\ y \in B /\ x # y
  /\ h[y] = <<>> /\ g[x] = <<>> /\ g[y] = h[x]
  /\ \A b \in B : b # x /\ b # y => g[b] = h[b]

LEMMA SwapOnce ==
  ASSUME NEW B, NEW h, NEW g, NEW x, NEW y, Swapped(B, h, g, x, y), Once(h)
  PROVE  Once(g) /\ \A r : In(g, r) <=> In(h, r)
<1>. USE DEF Swapped
<1>1. DOMAIN <<>> = {} /\ DOMAIN h = B /\ DOMAIN g = B
  OBVIOUS
<1>2. ASSUME NEW b \in B, NEW i \in DOMAIN g[b]
      PROVE  /\ b # x
             /\ b = y => i \in DOMAIN h[x] /\ g[b][i] = h[x][i]
             /\ b # y => i \in DOMAIN h[b] /\ g[b][i] = h[b][i]
  BY <1>1
<1>3. Once(g)
  BY <1>1, <1>2 DEF Once
<1>4. ASSUME NEW r, In(g, r) PROVE In(h, r)
  BY <1>1, <1>2, <1>4 DEF In
<1>5. ASSUME NEW r, In(h, r) PROVE In(g, r)
  <2>0. PICK b \in B : \E i \in DOMAIN h[b] : h[b][i] = r
    BY <1>1, <1>5 DEF In
  <2>1. PICK i \in DOMAIN h[b] : h[b][i] = r
    BY <2>0
  <2>2. b # y
    BY <1>1, <2>1
  <2>3. CASE b = x
    BY <1>1, <2>1, <2>3 DEF In
  <2>4. CASE b # x
    BY <1>1, <2>1, <2>2, <2>4 DEF In
  <2>. QED BY <2>3, <2>4
<1>. QED BY <1>3, <1>4, <1>5

(* The first signal of x becomes the last one of y.                        *)
Moved(B, h, g, x, y) ==
  /\ h \in [B -> Seq(Signals)] /\ g \in [B -> Seq(Signals)] /\ x \in B /\ y \in B /\ x # y
  /\ h[x] # <<>> /\ g[x] = Tail(h[x]) /\ g[y] = Append(h[y], Head(h[x]))
  /\ \A b \in B : b # x /\ b # y => g[b] = h[b]

LEMMA MoveOnce ==
  ASSUME NEW B, NEW h, NEW g, NEW x, NEW y, Moved(B, h, g, x, y), Once(h)
  PROVE  Once(g) /\ \A r : In(g, r) <=> In(h, r)
<1>. USE DEF Moved
<1>. DEFINE n == Len(h[y])
            m == Len(h[x])
            fb(b, i) == IF b = y /\ i = n + 1 THEN x ELSE b
            fi(b, i) == IF b = x THEN i + 1 ELSE IF b = y /\ i = n + 1 THEN 1 ELSE i
<1>1. h[x] \in Seq(Signals) /\ h[y] \in Seq(Signals) /\ DOMAIN h = B /\ DOMAIN g = B
  OBVIOUS
<1>2. /\ Head(h[x]) \in Signals /\ Head(h[x]) = h[x][1] /\ m \in Nat /\ m >= 1
      /\ DOMAIN h[x] = 1..m /\ DOMAIN g[x] = 1..(m - 1)
      /\ \A i \in 1..(m - 1) : g[x][i] = h[x][i + 1]
  BY <1>1, TailFacts
<1>3. /\ n \in Nat /\ DOMAIN h[y] = 1..n /\ DOMAIN g[y] = 1..(n + 1)
      /\ (\A i \in 1..n : g[y][i] = h[y][i]) /\ g[y][n + 1] = h[x][1]
  BY <1>1, <1>2, AppendFacts
<1>. HIDE DEF n, m
<1>4. ASSUME NEW b \in B, NEW i \in DOMAIN g[b]
      PROVE  fb(b, i) \in B /\ fi(b, i) \in DOMAIN h[fb(b, i)] /\ g[b][i] = h[fb(b, i)][fi(b, i)]
  <2>1. CASE b = x
    <3>1. i + 1 \in 1..m /\ i \in 1..(m - 1)
      BY <1>2, <1>4, <2>1
    <3>. QED BY <1>2, <2>1, <3>1
  <2>2. CASE b = y /\ i = n + 1
    <3>1. 1 \in 1..m
      BY <1>2
    <3>. QED BY <1>2, <1>3, <2>2, <3>1
  <2>3. CASE b = y /\ i # n + 1
    <3>1. i \in 1..n
      BY <1>3, <1>4, <2>3
    <3>. QED BY <1>3, <2>3, <3>1
  <2>4. CASE b # x /\ b # y
    BY <1>4, <2>4
  <2>. QED BY <2>1, <2>2, <2>3, <2>4
<1>5. ASSUME NEW b \in B, NEW i \in DOMAIN g[b], NEW c \in B, NEW j \in DOMAIN g[c],
             fb(b, i) = fb(c, j), fi(b, i) = fi(c, j)
      PROVE  b = c /\ i = j
  <2>1. /\ b = x => i \in Nat /\ i >= 1
        /\ c = x => j \in Nat /\ j >= 1
        /\ b = y => i \in Nat
        /\ c = y => j \in Nat
    BY <1>2, <1>3, <1>5
  <2>2. CASE b = x
    BY <1>5, <2>1, <2>2
  <2>3. CASE b = y /\ i = n + 1
    BY <1>5, <2>1, <2>3
  <2>4. CASE b = y /\ i # n + 1
    BY <1>5, <2>1, <2>4
  <2>5. CASE b # x /\ b # y
    BY <1>5, <2>1, <2>5
  <2>. QED BY <2>2, <2>3, <2>4, <2>5
<1>. HIDE DEF fb, fi
<1>6. Once(g)
  BY <1>1, <1>4, <1>5 DEF Once
<1>7. ASSUME NEW r, In(g, r) PROVE In(h, r)
  <2>0. PICK b \in B : \E i \in DOMAIN g[b] : g[b][i] = r
    BY <1>1, <1>7 DEF In
  <2>1. PICK i \in DOMAIN g[b] : g[b][i] = r
    BY <2>0
  <2>. QED BY <1>1, <1>4, <2>1 DEF In
<1>8. ASSUME NEW r, In(h, r) PROVE In(g, r)
  <2>0. PICK b \in B : \E i \in DOMAIN h[b] : h[b][i] = r
    BY <1>1, <1>8 DEF In
  <2>1. PICK i \in DOMAIN h[b] : h[b][i] = r
    BY <2>0
  <2>2. CASE b = x /\ i = 1
    <3>1. n + 1 \in DOMAIN g[y] /\ g[y][n + 1] = r
      BY <1>3, <2>1, <2>2
    <3>. QED BY <1>1, <3>1 DEF In
  <2>3. CASE b = x /\ i # 1
    <3>1. i - 1 \in 1..(m - 1) /\ (i - 1) + 1 = i
      BY <1>2, <2>1, <2>3
    <3>2. i - 1 \in DOMAIN g[x] /\ g[x][i - 1] = r
      BY <1>2, <2>1, <2>3, <3>1
    <3>. QED BY <1>1, <3>2 DEF In
  <2>4. CASE b = y
    <3>1. i \in 1..n /\ i \in 1..(n + 1)
      BY <1>3, <2>1, <2>4
    <3>2. i \in DOMAIN g[y] /\ g[y][i] = r
      BY <1>3, <2>1, <2>4, <3>1
    <3>. QED BY <1>1, <3>2 DEF In
  <2>5. CASE b # x /\ b # y
    BY <1>1, <2>1, <2>5 DEF In
  <2>. QED BY <2>2, <2>3, <2>4, <2>5
<1>. QED BY <1>6, <1>7, <1>8

(* A new signal s becomes the last one of x, which may lose its first one. *)
Added(B, h, g, x, s, d) ==
  /\ h \in [B -> Seq(Signals)] /\ g \in [B -> Seq(Signals)] /\ x \in B /\ s \in Signals
  /\ d \in {0, 1} /\ d <= Len(h[x]) /\ Len(g[x]) = Len(h[x]) + 1 - d /\ g[x][Len(g[x])] = s
  /\ \A i \in 1..(Len(g[x]) - 1) : g[x][i] = h[x][i + d]
  /\ \A b \in B : b # x => g[b] = h[b]

LEMMA AddOnce ==
  ASSUME NEW B, NEW h, NEW g, NEW x, NEW s, NEW d, Added(B, h, g, x, s, d), Once(h), ~In(h, s)
  PROVE  /\ Once(g) /\ In(g, s) /\ \A r : In(g, r) => In(h, r) \/ r = s
         /\ \A r : In(h, r) => In(g, r) \/ (d = 1 /\ r = h[x][1])
<1>. DEFINE n == Len(h[x])
            m == Len(g[x])
            fi(b, i) == IF b = x THEN i + d ELSE i
<1>. USE DEF Added
<1>1. /\ DOMAIN h = B /\ DOMAIN g = B /\ n \in Nat /\ m \in Nat
      /\ DOMAIN h[x] = 1..n /\ DOMAIN g[x] = 1..m
  OBVIOUS
<1>2. m = n + 1 - d /\ m >= 1 /\ g[x][m] = s /\ \A i \in 1..(m - 1) : g[x][i] = h[x][i + d]
  BY <1>1
<1>. HIDE DEF n, m
<1>3. ASSUME NEW b \in B, NEW i \in DOMAIN g[b]
      PROVE  \/ b = x /\ i = m /\ g[b][i] = s
             \/ /\ ~(b = x /\ i = m) /\ fi(b, i) \in DOMAIN h[b] /\ g[b][i] = h[b][fi(b, i)]
                /\ g[b][i] # s /\ In(h, g[b][i])
  <2>1. CASE b = x /\ i = m
    BY <1>2, <2>1
  <2>2. CASE b = x /\ i # m
    <3>1. i \in 1..(m - 1) /\ i + d \in 1..n
      BY <1>1, <1>2, <1>3, <2>2
    <3>2. fi(b, i) \in DOMAIN h[b] /\ g[b][i] = h[b][fi(b, i)]
      BY <1>1, <1>2, <2>2, <3>1
    <3>. QED BY <1>1, <2>2, <3>2 DEF In
  <2>3. CASE b # x
    BY <1>1, <1>3, <2>3 DEF In
  <2>. QED BY <2>1, <2>2, <2>3
<1>4. ASSUME NEW b \in B, NEW i \in DOMAIN g[b], NEW j \in DOMAIN g[b], fi(b, i) = fi(b, j)
      PROVE  i = j
  BY <1>1, <1>4
<1>. HIDE DEF fi
<1>5. Once(g)
  BY <1>1, <1>3, <1>4 DEF Once
<1>6. ASSUME NEW r, In(g, r) PROVE In(h, r) \/ r = s
  <2>0. PICK b \in B : \E i \in DOMAIN g[b] : g[b][i] = r
    BY <1>1, <1>6 DEF In
  <2>1. PICK i \in DOMAIN g[b] : g[b][i] = r
    BY <2>0
  <2>. QED BY <1>3, <2>1
<1>7. ASSUME NEW r, In(h, r) PROVE In(g, r) \/ (d = 1 /\ r = h[x][1])
  <2>0. PICK b \in B : \E i \in DOMAIN h[b] : h[b][i] = r
    BY <1>1, <1>7 DEF In
  <2>1. PICK i \in DOMAIN h[b] : h[b][i] = r
    BY <2>0
  <2>2. CASE b = x /\ d = 1 /\ i = 1
    BY <2>1, <2>2
  <2>3. CASE b = x /\ ~(d = 1 /\ i = 1)
    <3>0. i \in 1..n /\ n \in Nat /\ m = n + 1 - d /\ d \in {0, 1}
      BY <1>1, <1>2, <2>1, <2>3
    <3>1. i - d \in 1..(m - 1) /\ i - d \in 1..m /\ (i - d) + d = i
      BY <2>3, <3>0
    <3>2. i - d \in DOMAIN g[x] /\ g[x][i - d] = r
      BY <1>1, <1>2, <2>1, <2>3, <3>1
    <3>. QED BY <1>1, <3>2 DEF In
  <2>4. CASE b # x
    BY <1>1, <2>1, <2>4 DEF In
  <2>. QED BY <2>2, <2>3, <2>4
<1>8. In(g, s)
  <2>1. m \in DOMAIN g[x]
    BY <1>1, <1>2
  <2>. QED BY <1>1, <1>2, <2>1 DEF In
<1>. QED BY <1>5, <1>6, <1>7, <1>8

-----------------------------------------------------------------------------
(* Where the process holds signals.                                        *)

PB    == <<"pending", NoLoop>>
AB    == <<"applied", NoLoop>>
CB(l) == <<"chan", l>>
TB(l) == <<"todo", l>>
Held  == [b \in Boxes |-> Box(b)]

LEMMA BoxNames ==
  /\ PB \in Boxes /\ AB \in Boxes /\ PB # AB
  /\ \A l \in Loops : CB(l) \in Boxes /\ TB(l) \in Boxes
  /\ \A l, m \in Loops : /\ CB(l) # TB(m) /\ CB(l) # PB /\ CB(l) # AB
                         /\ TB(l) # PB /\ TB(l) # AB
                         /\ (CB(l) = CB(m) => l = m) /\ (TB(l) = TB(m) => l = m)
  /\ \A b \in Boxes : b = PB \/ b = AB \/ \E l \in Loops : b = CB(l) \/ b = TB(l)
BY DEF Boxes, PB, AB, CB, TB

LEMMA BoxValues ==
  /\ Box(PB) = pending /\ Box(AB) = applied
  /\ \A l \in Loops : /\ Box(CB(l)) = IF lpc[l] # "ended" THEN chan[l] ELSE <<>>
                      /\ Box(TB(l)) = IF lpc[l] = "flushing" THEN todo[l] ELSE <<>>
BY DEF Box, PB, AB, CB, TB

LEMMA BoxValuesPrime ==
  /\ Box(PB)' = pending' /\ Box(AB)' = applied'
  /\ \A l \in Loops : /\ Box(CB(l))' = IF lpc'[l] # "ended" THEN chan'[l] ELSE <<>>
                      /\ Box(TB(l))' = IF lpc'[l] = "flushing" THEN todo'[l] ELSE <<>>
BY DEF Box, PB, AB, CB, TB

LEMMA HeldValues ==
  /\ Held[PB] = pending /\ Held[AB] = applied
  /\ \A l \in Loops : /\ Held[CB(l)] = IF lpc[l] # "ended" THEN chan[l] ELSE <<>>
                      /\ Held[TB(l)] = IF lpc[l] = "flushing" THEN todo[l] ELSE <<>>
BY BoxNames, BoxValues DEF Held

LEMMA HeldValuesPrime ==
  /\ Held'[PB] = pending' /\ Held'[AB] = applied'
  /\ \A l \in Loops : /\ Held'[CB(l)] = IF lpc'[l] # "ended" THEN chan'[l] ELSE <<>>
                      /\ Held'[TB(l)] = IF lpc'[l] = "flushing" THEN todo'[l] ELSE <<>>
BY BoxNames, BoxValuesPrime DEF Held

LEMMA HeldType == Basic => Held \in [Boxes -> Seq(Signals)]
<1>. SUFFICES ASSUME Basic, NEW b \in Boxes PROVE Held[b] \in Seq(Signals)
  BY DEF Held
<1>1. <<>> \in Seq(Signals)
  OBVIOUS
<1>2. CASE b = PB \/ b = AB
  BY <1>2, HeldValues DEF Basic, TypeOK
<1>3. ASSUME NEW l \in Loops, b = CB(l) \/ b = TB(l) PROVE Held[b] \in Seq(Signals)
  BY <1>1, <1>3, HeldValues DEF Basic, TypeOK, FlushOK
<1>. QED BY <1>2, <1>3, BoxNames

LEMMA HeldTypePrime == Basic' => Held' \in [Boxes -> Seq(Signals)]
<1>. SUFFICES ASSUME Basic', NEW b \in Boxes PROVE Held'[b] \in Seq(Signals)
  BY DEF Held
<1>1. <<>> \in Seq(Signals)
  OBVIOUS
<1>2. CASE b = PB \/ b = AB
  BY <1>2, HeldValuesPrime DEF Basic, TypeOK
<1>3. ASSUME NEW l \in Loops, b = CB(l) \/ b = TB(l) PROVE Held'[b] \in Seq(Signals)
  BY <1>1, <1>3, HeldValuesPrime DEF Basic, TypeOK, FlushOK
<1>. QED BY <1>2, <1>3, BoxNames

(* The parts of the invariant, and the places of a signal, over Held.      *)
LEMMA OnceHeld == OnceOK <=> Once(Held)
BY DEF OnceOK, Once, Held

LEMMA OnceHeldPrime == OnceOK' <=> Once(Held')
BY DEF OnceOK, Once, Held

LEMMA SeenHeld ==
  (\A b \in Boxes : \A i \in DOMAIN Box(b) : Box(b)[i] \in seen) <=> \A r : In(Held, r) => r \in seen
BY DEF In, Held

LEMMA SeenHeldPrime ==
  (\A b \in Boxes : \A i \in DOMAIN Box(b) : Box(b)[i] \in seen)' <=> \A r : In(Held', r) => r \in seen'
BY DEF In, Held

LEMMA PlacesHeld == ASSUME NEW s PROVE Places(s) # {} <=> In(Held, s)
<1>1. DOMAIN Held = Boxes /\ \A b \in Boxes : Held[b] = Box(b)
  BY DEF Held
<1>2. ASSUME In(Held, s) PROVE Places(s) # {}
  <2>1. PICK b \in Boxes : \E i \in DOMAIN Box(b) : Box(b)[i] = s
    BY <1>1, <1>2 DEF In
  <2>2. PICK i \in DOMAIN Box(b) : Box(b)[i] = s
    BY <2>1
  <2>3. <<b, i>> \in Places(s)
    BY <2>1, <2>2 DEF Places
  <2>. QED BY <2>3
<1>3. ASSUME Places(s) # {} PROVE In(Held, s)
  BY <1>1, <1>3 DEF In, Places
<1>. QED BY <1>2, <1>3

LEMMA PlacesHeldPrime == ASSUME NEW s, In(Held', s) PROVE Places(s)' # {}
<1>1. DOMAIN Held' = Boxes /\ \A b \in Boxes : Held'[b] = Box(b)'
  BY DEF Held
<1>2. PICK b \in Boxes : \E i \in DOMAIN Box(b)' : Box(b)'[i] = s
  BY <1>1 DEF In
<1>3. PICK i \in DOMAIN Box(b)' : Box(b)'[i] = s
  BY <1>2
<1>4. <<b, i>> \in Places(s)'
  BY <1>2, <1>3 DEF Places
<1>. QED BY <1>4

(* The known ways to lose a signal.                                        *)
Known(r) ==
  \/ restarts' # restarts
  \/ /\ Len(pending) = PendCap /\ pending[1] = r
     /\ \E t \in seen' \ seen : pending'[PendCap] = t
  \/ \E l \in Loops : /\ lpc[l] = "running" /\ lpc'[l] = "ended"
                      /\ \E i \in DOMAIN chan[l] : chan[l][i] = r
Accounted == /\ Once(Held')
             /\ \A r : In(Held', r) => r \in seen'
             /\ \A r : In(Held, r) => In(Held', r) \/ Known(r)
             /\ \A r \in seen' \ seen : In(Held', r)

LEMMA EnqueueHeld ==
  ASSUME Basic, Basic', Once(Held), \A r : In(Held, r) => r \in seen,
         NEW s \in Signals, Enqueue(s), UNCHANGED <<current, lpc, applied>>,
         \A l \in Loops : lpc[l] = "flushing" => todo'[l] = todo[l]
  PROVE  Accounted
<1>1. Held \in [Boxes -> Seq(Signals)] /\ Held' \in [Boxes -> Seq(Signals)]
  BY HeldType, HeldTypePrime
<1>2. TypeOK /\ current \in Loops \cup {NoLoop}
  BY DEF Basic, TypeOK
<1>3. seen' = seen \cup {s}
  BY <1>2, EnqueueFacts
<1>4. Held'[AB] = Held[AB] /\ \A l \in Loops : Held'[TB(l)] = Held[TB(l)]
  BY HeldValues, HeldValuesPrime
<1>5. CASE s \in seen /\ UNCHANGED <<chan, pending>>
  <2>1. Held'[PB] = Held[PB] /\ \A l \in Loops : Held'[CB(l)] = Held[CB(l)]
    BY <1>5, HeldValues, HeldValuesPrime
  <2>2. \A b \in Boxes : Held'[b] = Held[b]
    BY <1>4, <2>1, BoxNames
  <2>3. Held' = Held
    BY <1>1, <2>2
  <2>4. seen' \ seen = {}
    BY <1>3, <1>5
  <2>. QED BY <1>3, <2>3, <2>4 DEF Accounted
<1>6. CASE /\ s \notin seen /\ UNCHANGED pending /\ current \in Loops
           /\ chan'[current] = Append(chan[current], s)
           /\ \A l \in Loops : l # current => chan'[l] = chan[l]
  <2>1. lpc[current] # "ended" /\ lpc'[current] # "ended"
    BY <1>6, LoopsAssumption DEF Basic, HeldChannelOpen
  <2>2. Held[CB(current)] = chan[current] /\ Held'[CB(current)] = Append(chan[current], s)
    BY <1>6, <2>1, HeldValues, HeldValuesPrime
  <2>3. Held'[PB] = Held[PB] /\ \A l \in Loops : l # current => Held'[CB(l)] = Held[CB(l)]
    BY <1>6, HeldValues, HeldValuesPrime
  <2>4. CB(current) \in Boxes /\ \A b \in Boxes : b # CB(current) => Held'[b] = Held[b]
    BY <1>4, <1>6, <2>3, BoxNames
  <2>5. chan[current] \in Seq(Signals)
    BY <1>2, <1>6 DEF TypeOK
  <2>6. /\ Len(Held[CB(current)]) \in Nat
        /\ Len(Held'[CB(current)]) = Len(Held[CB(current)]) + 1
        /\ Held'[CB(current)][Len(Held'[CB(current)])] = s
        /\ \A i \in 1..(Len(Held'[CB(current)]) - 1) : Held'[CB(current)][i] = Held[CB(current)][i]
    BY <2>2, <2>5, AppendFacts
  <2>7. \A i \in 1..(Len(Held'[CB(current)]) - 1) : i + 0 = i
    BY <2>6
  <2>8. /\ 0 \in {0, 1} /\ 0 <= Len(Held[CB(current)])
        /\ Len(Held'[CB(current)]) = Len(Held[CB(current)]) + 1 - 0
        /\ \A i \in 1..(Len(Held'[CB(current)]) - 1) : Held'[CB(current)][i] = Held[CB(current)][i + 0]
    BY <2>6, <2>7
  <2>9. /\ Once(Held') /\ In(Held', s) /\ \A r : In(Held', r) => In(Held, r) \/ r = s
        /\ \A r : In(Held, r) => In(Held', r) \/ (0 = 1 /\ r = Held[CB(current)][1])
    <3>1. ~In(Held, s)
      BY <1>6
    <3>2. Added(Boxes, Held, Held', CB(current), s, 0)
      BY <1>1, <2>4, <2>6, <2>8 DEF Added
    <3>. QED BY <3>1, <3>2, AddOnce
  <2>. QED BY <1>3, <2>9 DEF Accounted
<1>7. CASE s \notin seen /\ UNCHANGED chan /\ pending' = LastN(Append(pending, s), PendCap)
  <2>. DEFINE d == IF Len(pending) = PendCap THEN 1 ELSE 0
  <2>1. Held[PB] = pending /\ Held'[PB] = pending' /\ \A l \in Loops : Held'[CB(l)] = Held[CB(l)]
    BY <1>7, HeldValues, HeldValuesPrime
  <2>2. PB \in Boxes /\ \A b \in Boxes : b # PB => Held'[b] = Held[b]
    BY <1>4, <2>1, BoxNames
  <2>3. /\ Len(pending') = Len(pending) + 1 - d /\ pending'[Len(pending')] = s /\ Len(pending) \in Nat
        /\ \A i \in 1..(Len(pending') - 1) : pending'[i] = pending[i + d]
    BY <1>2, <1>7, PendingFacts DEF TypeOK
  <2>4. d \in {0, 1} /\ d <= Len(pending)
    BY <2>3, LimitAssumption
  <2>5. ~In(Held, s)
    BY <1>7
  <2>6. d = 1 => Len(pending) = PendCap /\ \E t \in seen' \ seen : pending'[PendCap] = t
    <3>1. d = 1 => Len(pending) = PendCap /\ Len(pending') = PendCap
      BY <2>3
    <3>. QED BY <1>3, <1>7, <2>3, <3>1
  <2>. HIDE DEF d
  <2>7. /\ Len(Held'[PB]) = Len(Held[PB]) + 1 - d /\ Held'[PB][Len(Held'[PB])] = s
        /\ \A i \in 1..(Len(Held'[PB]) - 1) : Held'[PB][i] = Held[PB][i + d]
        /\ d <= Len(Held[PB])
    BY <2>1, <2>3, <2>4
  <2>8. /\ Once(Held') /\ In(Held', s) /\ \A r : In(Held', r) => In(Held, r) \/ r = s
        /\ \A r : In(Held, r) => In(Held', r) \/ (d = 1 /\ r = Held[PB][1])
    <3>1. Added(Boxes, Held, Held', PB, s, d)
      BY <1>1, <2>2, <2>4, <2>7 DEF Added
    <3>. QED BY <2>5, <3>1, AddOnce
  <2>. QED BY <1>3, <2>1, <2>6, <2>8 DEF Accounted, Known
<1>. QED BY <1>2, <1>5, <1>6, <1>7, EnqueueFacts

LEMMA HeldStep ==
  ASSUME Basic, Basic', OnceOK, SeenOK, [Next]_vars
  PROVE  Accounted
<1>1. Held \in [Boxes -> Seq(Signals)] /\ Held' \in [Boxes -> Seq(Signals)]
  BY HeldType, HeldTypePrime
<1>2. Once(Held) /\ \A r : In(Held, r) => r \in seen
  BY OnceHeld, SeenHeld DEF SeenOK
<1>3. ASSUME NEW s \in Signals, SubmitQueue(s) PROVE Accounted
  BY <1>2, <1>3, EnqueueHeld DEF SubmitQueue, loopVars
<1>4. ASSUME UNCHANGED seen, Held' = Held PROVE Accounted
  BY <1>2, <1>4 DEF Accounted
<1>5. ASSUME UNCHANGED <<chan, pending, applied>>,
             NEW l \in Loops, lpc[l] # "ended", lpc'[l] # "ended",
             lpc[l] = "flushing" => todo[l] = <<>>, lpc'[l] = "flushing" => todo'[l] = <<>>,
             \A k \in Loops : k # l => lpc'[k] = lpc[k] /\ todo'[k] = todo[k]
      PROVE  Held' = Held
  <2>1. /\ Held'[PB] = Held[PB] /\ Held'[AB] = Held[AB]
        /\ Held'[CB(l)] = Held[CB(l)] /\ Held'[TB(l)] = Held[TB(l)]
    BY <1>5, HeldValues, HeldValuesPrime
  <2>2. ASSUME NEW k \in Loops, k # l PROVE Held'[CB(k)] = Held[CB(k)] /\ Held'[TB(k)] = Held[TB(k)]
    BY <1>5, <2>2, HeldValues, HeldValuesPrime
  <2>3. \A b \in Boxes : Held'[b] = Held[b]
    BY <2>1, <2>2, BoxNames
  <2>. QED BY <1>1, <2>3
<1>6. ASSUME UNCHANGED <<chan, pending, applied, lpc, todo, seen>> PROVE Accounted
  <2>1. /\ Held'[PB] = Held[PB] /\ Held'[AB] = Held[AB]
        /\ \A k \in Loops : Held'[CB(k)] = Held[CB(k)] /\ Held'[TB(k)] = Held[TB(k)]
    BY <1>6, HeldValues, HeldValuesPrime
  <2>2. \A b \in Boxes : Held'[b] = Held[b]
    BY <2>1, BoxNames
  <2>. QED BY <1>1, <1>4, <1>6, <2>2
<1>7. ASSUME NEW s \in Signals, SubmitJournal(s) PROVE Accounted
  BY <1>6, <1>7 DEF SubmitJournal, busVars, loopVars
<1>8. CASE JournalOther
  BY <1>6, <1>8 DEF JournalOther, busVars, loopVars
<1>9. ASSUME NEW l \in Loops, ReplayRead(l) PROVE Accounted
  <2>1. /\ UNCHANGED <<chan, pending, applied, seen>> /\ lpc[l] = "idle" /\ lpc'[l] = "replaying"
        /\ \A k \in Loops : k # l => lpc'[k] = lpc[k] /\ todo'[k] = todo[k]
    BY <1>9 DEF ReplayRead, LoopAt, busVars, Basic, TypeOK
  <2>. QED BY <1>4, <1>5, <2>1
<1>10. ASSUME NEW l \in Loops, ReplayNext(l) PROVE Accounted
  <2>1. /\ lpc[l] = "replaying" /\ UNCHANGED <<current, lpc, applied>>
        /\ \A k \in Loops : k # l => todo'[k] = todo[k]
        /\ todo[l] \in Seq(Signals \cup {Other}) /\ todo[l] # <<>>
    BY <1>10 DEF ReplayNext, Basic, TypeOK
  <2>2. CASE Head(todo[l]) = Other
    <3>1. UNCHANGED <<chan, pending, seen>>
      BY <1>10, <2>2 DEF ReplayNext
    <3>. QED BY <1>4, <1>5, <2>1, <3>1
  <2>3. CASE Head(todo[l]) # Other
    <3>1. Head(todo[l]) \in Signals /\ Enqueue(Head(todo[l]))
      BY <1>10, <2>1, <2>3, TailFacts DEF ReplayNext
    <3>2. \A k \in Loops : lpc[k] = "flushing" => todo'[k] = todo[k]
      BY <2>1
    <3>. QED BY <1>2, <2>1, <3>1, <3>2, EnqueueHeld
  <2>. QED BY <2>2, <2>3
<1>11. ASSUME NEW l \in Loops, Register(l) PROVE Accounted
  <2>1. /\ UNCHANGED <<chan, applied, seen>> /\ lpc[l] = "replaying" /\ lpc'[l] = "flushing"
        /\ pending' = <<>> /\ todo'[l] = pending
        /\ \A k \in Loops : k # l => lpc'[k] = lpc[k] /\ todo'[k] = todo[k]
    BY <1>11 DEF Register, LoopAt, Basic, TypeOK
  <2>2. /\ Held[PB] = pending /\ Held'[PB] = <<>> /\ Held[TB(l)] = <<>> /\ Held'[TB(l)] = pending
        /\ Held'[AB] = Held[AB] /\ Held'[CB(l)] = Held[CB(l)]
    BY <2>1, HeldValues, HeldValuesPrime
  <2>3. ASSUME NEW k \in Loops, k # l PROVE Held'[CB(k)] = Held[CB(k)] /\ Held'[TB(k)] = Held[TB(k)]
    BY <2>1, <2>3, HeldValues, HeldValuesPrime
  <2>4. PB \in Boxes /\ TB(l) \in Boxes /\ PB # TB(l)
        /\ \A b \in Boxes : b # PB /\ b # TB(l) => Held'[b] = Held[b]
    BY <2>2, <2>3, BoxNames
  <2>5. Once(Held') /\ \A r : In(Held', r) <=> In(Held, r)
    <3>1. Swapped(Boxes, Held, Held', PB, TB(l))
      BY <1>1, <2>2, <2>4 DEF Swapped
    <3>. QED BY <1>2, <3>1, SwapOnce
  <2>. QED BY <1>2, <2>1, <2>5 DEF Accounted
<1>12. ASSUME NEW l \in Loops, Flush(l) PROVE Accounted
  <2>1. /\ UNCHANGED <<pending, applied, seen, lpc>> /\ lpc[l] = "flushing"
        /\ todo[l] # <<>> /\ todo'[l] = Tail(todo[l])
        /\ chan'[l] = Append(chan[l], Head(todo[l]))
        /\ \A k \in Loops : k # l => chan'[k] = chan[k] /\ todo'[k] = todo[k]
    BY <1>12 DEF Flush, Basic, TypeOK
  <2>2. /\ Held[TB(l)] = todo[l] /\ Held'[TB(l)] = Tail(todo[l])
        /\ Held[CB(l)] = chan[l] /\ Held'[CB(l)] = Append(chan[l], Head(todo[l]))
        /\ Held'[AB] = Held[AB] /\ Held'[PB] = Held[PB]
    BY <2>1, HeldValues, HeldValuesPrime
  <2>3. ASSUME NEW k \in Loops, k # l PROVE Held'[CB(k)] = Held[CB(k)] /\ Held'[TB(k)] = Held[TB(k)]
    BY <2>1, <2>3, HeldValues, HeldValuesPrime
  <2>4. TB(l) \in Boxes /\ CB(l) \in Boxes /\ TB(l) # CB(l)
        /\ \A b \in Boxes : b # TB(l) /\ b # CB(l) => Held'[b] = Held[b]
    BY <2>2, <2>3, BoxNames
  <2>5. Once(Held') /\ \A r : In(Held', r) <=> In(Held, r)
    <3>1. Moved(Boxes, Held, Held', TB(l), CB(l))
      BY <1>1, <2>1, <2>2, <2>4 DEF Moved
    <3>. QED BY <1>2, <3>1, MoveOnce
  <2>. QED BY <1>2, <2>1, <2>5 DEF Accounted
<1>13. ASSUME NEW l \in Loops, Registered(l) PROVE Accounted
  <2>1. /\ UNCHANGED <<chan, pending, applied, seen>> /\ lpc[l] = "flushing" /\ lpc'[l] = "running"
        /\ todo[l] = <<>>
        /\ \A k \in Loops : k # l => lpc'[k] = lpc[k] /\ todo'[k] = todo[k]
    BY <1>13 DEF Registered, LoopAt, busVars, Basic, TypeOK
  <2>. QED BY <1>4, <1>5, <2>1
<1>14. ASSUME NEW l \in Loops, Poll(l) PROVE Accounted
  <2>1. /\ UNCHANGED <<pending, todo, seen, lpc>> /\ lpc[l] = "running"
        /\ chan[l] # <<>> /\ chan'[l] = Tail(chan[l])
        /\ applied' = Append(applied, Head(chan[l]))
        /\ \A k \in Loops : k # l => chan'[k] = chan[k]
    BY <1>14 DEF Poll, Basic, TypeOK
  <2>2. /\ Held[CB(l)] = chan[l] /\ Held'[CB(l)] = Tail(chan[l])
        /\ Held[AB] = applied /\ Held'[AB] = Append(applied, Head(chan[l]))
        /\ Held'[TB(l)] = Held[TB(l)] /\ Held'[PB] = Held[PB]
    BY <2>1, HeldValues, HeldValuesPrime
  <2>3. ASSUME NEW k \in Loops, k # l PROVE Held'[CB(k)] = Held[CB(k)] /\ Held'[TB(k)] = Held[TB(k)]
    BY <2>1, <2>3, HeldValues, HeldValuesPrime
  <2>4. CB(l) \in Boxes /\ AB \in Boxes /\ CB(l) # AB
        /\ \A b \in Boxes : b # CB(l) /\ b # AB => Held'[b] = Held[b]
    BY <2>2, <2>3, BoxNames
  <2>5. Once(Held') /\ \A r : In(Held', r) <=> In(Held, r)
    <3>1. Moved(Boxes, Held, Held', CB(l), AB)
      BY <1>1, <2>1, <2>2, <2>4 DEF Moved
    <3>. QED BY <1>2, <3>1, MoveOnce
  <2>. QED BY <1>2, <2>1, <2>5 DEF Accounted
<1>15. ASSUME NEW l \in Loops, Unregister(l) PROVE Accounted
  <2>1. /\ UNCHANGED <<chan, pending, applied, seen, todo>> /\ lpc[l] = "running" /\ lpc'[l] = "ended"
        /\ \A k \in Loops : k # l => lpc'[k] = lpc[k]
    BY <1>15 DEF Unregister, LoopAt, Basic, TypeOK
  <2>2. /\ Held[CB(l)] = chan[l] /\ Held'[CB(l)] = <<>> /\ Held'[TB(l)] = Held[TB(l)]
        /\ Held'[AB] = Held[AB] /\ Held'[PB] = Held[PB]
    BY <2>1, HeldValues, HeldValuesPrime
  <2>3. ASSUME NEW k \in Loops, k # l PROVE Held'[CB(k)] = Held[CB(k)] /\ Held'[TB(k)] = Held[TB(k)]
    BY <2>1, <2>3, HeldValues, HeldValuesPrime
  <2>4. \A b \in Boxes : b # CB(l) => Held'[b] = Held[b]
    BY <2>2, <2>3, BoxNames
  <2>5. Once(Held') /\ \A r : In(Held', r) => In(Held, r)
    BY <1>1, <1>2, <2>2, <2>4, SubOnce
  <2>6. ASSUME NEW r, In(Held, r) PROVE In(Held', r) \/ Known(r)
    <3>1. DOMAIN Held = Boxes /\ DOMAIN Held' = Boxes
      BY <1>1
    <3>2. PICK b \in Boxes : \E i \in DOMAIN Held[b] : Held[b][i] = r
      BY <2>6, <3>1 DEF In
    <3>3. CASE b = CB(l)
      BY <2>1, <2>2, <3>2, <3>3 DEF Known
    <3>4. CASE b # CB(l)
      BY <2>4, <3>1, <3>2, <3>4 DEF In
    <3>. QED BY <3>3, <3>4
  <2>. QED BY <1>2, <2>1, <2>5, <2>6 DEF Accounted
<1>16. CASE Restart
  <2>1. /\ pending' = <<>> /\ applied' = <<>>
        /\ \A k \in Loops : chan'[k] = <<>> /\ todo'[k] = <<>>
    BY <1>16 DEF Restart
  <2>2. restarts' # restarts /\ seen' = {}
    BY <1>16 DEF Restart, Basic, TypeOK
  <2>3. \A b \in Boxes : Held'[b] = <<>>
    BY <2>1, BoxNames, HeldValuesPrime
  <2>4. DOMAIN <<>> = {} /\ DOMAIN Held' = Boxes
    BY <1>1
  <2>5. \A r : ~In(Held', r)
    BY <2>3, <2>4 DEF In
  <2>6. Once(Held')
    BY <2>3, <2>4 DEF Once
  <2>. QED BY <2>2, <2>5, <2>6 DEF Accounted, Known
<1>17. CASE UNCHANGED vars
  BY <1>6, <1>17 DEF vars, busVars, loopVars
<1>. QED BY <1>3, <1>7, <1>8, <1>9, <1>10, <1>11, <1>12, <1>13, <1>14, <1>15, <1>16, <1>17 DEF Next, Loop

-----------------------------------------------------------------------------
(* The theorems.                                                           *)

LEMMA SpcSeen ==
  ASSUME Basic, SeenOK, [Next]_vars, NEW s \in Signals, spc'[s] = "queued"
  PROVE  s \in seen'
<1>1. spc[s] = "queued" => s \in seen
  BY DEF SeenOK
<1>2. spc \in [Signals -> RequestPc] /\ TypeOK
  BY DEF Basic, TypeOK
<1>3. ASSUME NEW r \in Signals, SubmitQueue(r) PROVE s \in seen'
  <2>1. seen' = seen \cup {r} /\ spc' = [spc EXCEPT ![r] = "queued"]
    BY <1>2, <1>3, EnqueueFacts DEF SubmitQueue
  <2>. QED BY <1>1, <1>2, <2>1
<1>4. ASSUME NEW r \in Signals, SubmitJournal(r) PROVE s \in seen'
  BY <1>1, <1>2, <1>4 DEF SubmitJournal, busVars
<1>5. ASSUME NEW l \in Loops, ReplayNext(l) PROVE s \in seen'
  <2>1. UNCHANGED spc /\ todo[l] \in Seq(Signals \cup {Other}) /\ todo[l] # <<>>
    BY <1>2, <1>5 DEF ReplayNext, TypeOK
  <2>2. CASE Head(todo[l]) = Other
    BY <1>1, <1>5, <2>1, <2>2 DEF ReplayNext
  <2>3. CASE Head(todo[l]) # Other
    <3>1. Head(todo[l]) \in Signals /\ Enqueue(Head(todo[l]))
      BY <1>5, <2>1, <2>3, TailFacts DEF ReplayNext
    <3>2. seen' = seen \cup {Head(todo[l])}
      BY <1>2, <3>1, EnqueueFacts
    <3>. QED BY <1>1, <2>1, <3>2
  <2>. QED BY <2>2, <2>3
<1>6. ASSUME UNCHANGED <<spc, seen>> PROVE s \in seen'
  BY <1>1, <1>6
<1>7. CASE JournalOther \/ UNCHANGED vars
  BY <1>6, <1>7 DEF JournalOther, vars, busVars
<1>8. ASSUME NEW l \in Loops, \/ ReplayRead(l) \/ Register(l) \/ Flush(l) \/ Registered(l)
                              \/ Poll(l) \/ Unregister(l)
      PROVE  s \in seen'
  BY <1>6, <1>8 DEF ReplayRead, Register, Flush, Registered, Poll, Unregister, busVars
<1>9. CASE Restart
  BY <1>9 DEF Restart
<1>. QED BY <1>3, <1>4, <1>5, <1>7, <1>8, <1>9 DEF Next, Loop

(* The inductive invariant of the steering bus.                            *)
THEOREM SteeringInvariant == Spec => []IInv
<1>1. Init => IInv
  <2>. SUFFICES ASSUME Init PROVE IInv
    OBVIOUS
  <2>1. Basic
    BY BasicInit
  <2>2. \A b \in Boxes : Held[b] = <<>>
    BY BoxNames, HeldValues DEF Init
  <2>3. DOMAIN <<>> = {} /\ DOMAIN Held = Boxes
    BY DEF Held
  <2>4. OnceOK
    BY <2>2, <2>3, OnceHeld DEF Once
  <2>5. SeenOK
    <3>1. \A r : In(Held, r) => r \in seen
      BY <2>2, <2>3 DEF In
    <3>. QED BY <3>1, SeenHeld DEF SeenOK, Init
  <2>6. ReplayOK
    BY DEF ReplayOK, Init
  <2>. QED BY <2>1, <2>4, <2>5, <2>6 DEF IInv, Basic
<1>2. IInv /\ [Next]_vars => IInv'
  <2>. SUFFICES ASSUME IInv, [Next]_vars PROVE IInv'
    OBVIOUS
  <2>1. Basic /\ OnceOK /\ SeenOK /\ ReplayOK
    BY DEF IInv, Basic
  <2>2. Basic'
    BY <2>1, BasicStep
  <2>3. Accounted
    BY <2>1, <2>2, HeldStep
  <2>4. OnceOK'
    BY <2>3, OnceHeldPrime DEF Accounted
  <2>5. SeenOK'
    BY <2>1, <2>3, SeenHeldPrime, SpcSeen DEF Accounted, SeenOK
  <2>6. ReplayOK'
    BY <2>1, ReplayStep
  <2>. QED BY <2>2, <2>4, <2>5, <2>6 DEF IInv, Basic
<1>. QED BY <1>1, <1>2, PTL DEF Spec

(* A channel the bus holds is open: queueSteeringSignal never sends on a   *)
(* closed channel.                                                         *)
THEOREM SteeringChannelOpen == Spec => []HeldChannelOpen
<1>1. IInv => HeldChannelOpen
  BY DEF IInv
<1>. QED BY <1>1, SteeringInvariant, PTL

(* No signal is in two places: replays and overlapping loops do not make   *)
(* a signal count twice.                                                   *)
THEOREM SteeringHeldOnce == Spec => []HeldOnce
<1>1. IInv => HeldOnce
  <2>. SUFFICES ASSUME IInv, NEW s \in Signals PROVE Cardinality(Places(s)) <= 1
    BY DEF HeldOnce
  <2>1. ASSUME NEW p \in Places(s), NEW q \in Places(s) PROVE p = q
    <3>1. \E b \in Boxes : \E i \in DOMAIN Box(b) : p = <<b, i>> /\ Box(b)[i] = s
      BY DEF Places
    <3>2. \E c \in Boxes : \E j \in DOMAIN Box(c) : q = <<c, j>> /\ Box(c)[j] = s
      BY DEF Places
    <3>. QED BY <3>1, <3>2 DEF IInv, OnceOK
  <2>2. CASE Places(s) = {}
    BY <2>2, FS_EmptySet
  <2>3. ASSUME NEW p \in Places(s) PROVE Cardinality(Places(s)) <= 1
    <3>1. Places(s) = {p}
      BY <2>1
    <3>. QED BY <3>1, FS_Singleton
  <2>. QED BY <2>2, <2>3
<1>. QED BY <1>1, SteeringInvariant, PTL

(* Once a loop with the journal has registered, the bus knows every signal *)
(* among the last ReplayLimit entries of the journal.                      *)
THEOREM SteeringReplayComplete == Spec => []ReplayComplete
<1>1. IInv => ReplayComplete
  BY DEF IInv, ReplayOK, ReplayComplete, Recent
<1>. QED BY <1>1, SteeringInvariant, PTL

(* An accepted signal is held, never lost on arrival, until it is lost as  *)
(* the oldest of a full pending queue that a newly accepted signal joins,  *)
(* with the loop that did not read it, or in a restart.                    *)
THEOREM SteeringLosses == Spec => LostOnlyKnownWays
<1>. DEFINE Step == \A s \in Signals :
       (Places(s) # {} \/ s \in seen' \ seen) /\ Places(s)' = {} =>
         \/ restarts' # restarts
         \/ /\ Len(pending) = PendCap /\ pending[1] = s
            /\ \E t \in seen' \ seen : pending'[PendCap] = t
         \/ \E l \in Loops :
              /\ lpc[l] = "running" /\ lpc'[l] = "ended"
              /\ \E i \in DOMAIN chan[l] : chan[l][i] = s
<1>1. IInv /\ IInv' /\ [Next]_vars => [Step]_vars
  <2>. SUFFICES ASSUME IInv, IInv', [Next]_vars PROVE Step
    OBVIOUS
  <2>1. Accounted
    BY HeldStep DEF IInv, Basic
  <2>. QED BY <2>1, PlacesHeld, PlacesHeldPrime DEF Accounted, Known
<1>. QED BY <1>1, SteeringInvariant, PTL DEF Spec, LostOnlyKnownWays

(* A registration is lost to the loop's own end, to a newer loop or to a   *)
(* restart.                                                                *)
THEOREM SteeringRegistrationHeld == Spec => RegistrationHeld
<1>. DEFINE Step == current # NoLoop /\ current' # current =>
       \/ lpc'[current] = "ended"
       \/ \E l \in Loops : current' = l /\ lpc[l] = "replaying"
<1>1. IInv /\ [Next]_vars => [Step]_vars
  <2>. SUFFICES ASSUME IInv, [Next]_vars, current # NoLoop, current' # current
                PROVE  \/ lpc'[current] = "ended"
                       \/ \E l \in Loops : current' = l /\ lpc[l] = "replaying"
    OBVIOUS
  <2>0. TypeOK /\ HeldChannelOpen
    BY DEF IInv
  <2>1. ASSUME NEW l \in Loops, Register(l) PROVE \E k \in Loops : current' = k /\ lpc[k] = "replaying"
    BY <2>1 DEF Register, LoopAt
  <2>2. ASSUME NEW l \in Loops, Unregister(l) PROVE lpc'[current] = "ended"
    BY <2>0, <2>2 DEF Unregister, LoopAt, TypeOK
  <2>3. CASE Restart
    BY <2>0, <2>3 DEF Restart, TypeOK, HeldChannelOpen
  <2>4. ASSUME NEW s \in Signals, SubmitQueue(s) \/ SubmitJournal(s) PROVE UNCHANGED current
    BY <2>4 DEF SubmitQueue, SubmitJournal, busVars
  <2>5. ASSUME NEW l \in Loops,
               ReplayRead(l) \/ ReplayNext(l) \/ Flush(l) \/ Registered(l) \/ Poll(l)
        PROVE  UNCHANGED current
    BY <2>5 DEF ReplayRead, ReplayNext, Flush, Registered, Poll, busVars
  <2>6. JournalOther \/ UNCHANGED vars => UNCHANGED current
    BY DEF JournalOther, vars, busVars
  <2>. QED BY <2>1, <2>2, <2>3, <2>4, <2>5, <2>6 DEF Next, Loop
<1>. QED BY <1>1, SteeringInvariant, PTL DEF Spec, RegistrationHeld

=============================================================================
