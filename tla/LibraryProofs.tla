--------------------------- MODULE LibraryProofs ----------------------------
(***************************************************************************)
(* Proofs about parts the rest is built on or that serve it: SendQueue,    *)
(* EventHandler, Listener and Logger.  They share nothing.                 *)
(*                                                                         *)
(* SendQueue, for any number of goroutines and any sizes: the invariant is *)
(* the conjunction of the properties the model checker checks.  The types  *)
(* need the counters (a decrement stays in Nat), the counters need the     *)
(* types, and that a wake-up is never lost needs the counters, because the *)
(* code wakes nobody when a counter is 0.                                  *)
(*                                                                         *)
(* EventHandler, for any number of goroutines, handles, slots and calls:   *)
(* the lists of the slots and the versions of the handles agree, the       *)
(* handle whose callback runs is still linked when it returns, what is     *)
(* queued is carried out, and a handler of RegisterOnce is called at most  *)
(* once.                                                                   *)
(*                                                                         *)
(* Listener, for any number of callers and clients: the order of the two   *)
(* steps of Close, and which of the Serves may have returned what.         *)
(*                                                                         *)
(* Logger, for any number of lines of any length, any settings, days and   *)
(* sizes of a file: a line is in a file only once Log is done with it, so  *)
(* no line is written twice, and the file it goes to is of its day.        *)
(***************************************************************************)
EXTENDS SendQueue, EventHandler, Logger, Listener, FiniteSetTheorems, TLAPS

(* Steps of logic and sets are for Zenon; those that need arithmetic,      *)
(* sequences or updates of functions cite SMT.                             *)
USE Zenon

-----------------------------------------------------------------------------
(* The send queue.                                                         *)

IInv ==
  /\ TypeOK
  /\ WaitersCounted
  /\ ProducerWakeup
  /\ ConsumerWakeup
  /\ CapacityBound

-----------------------------------------------------------------------------
(* The goroutines are finitely many, so those blocked can be counted, and  *)
(* the count is positive when there is one.                                *)
LEMMA CountThreads ==
  \A S \in SUBSET Threads :
    /\ IsFiniteSet(S)
    /\ Cardinality(S) \in Nat
    /\ S # {} => Cardinality(S) > 0
<1>1. IsFiniteSet(Threads)
  BY SendQueueAssumption, FS_Union DEF SendQueueAssumption, Threads
<1>2. TAKE S \in SUBSET Threads
<1>3. IsFiniteSet(S)
  BY <1>1, FS_Subset
<1>4. Cardinality(S) \in Nat
  BY <1>3, FS_CardinalityType
<1>5. S # {} => Cardinality(S) # 0
  BY <1>3, FS_EmptySet
<1> QED
  BY SMT, <1>3, <1>4, <1>5

(* Everything holds when the queue has just been made.                     *)
LEMMA InitIInv == Init => IInv
<1> SUFFICES ASSUME Init
             PROVE  IInv
  OBVIOUS
<1> USE SendQueueAssumption DEF SendQueueAssumption, Init
<1>1. TypeOK
  <2>1. list \in Seq(Threads)
    BY SMT
  <2>2. fullSize \in Sizes
    OBVIOUS
  <2>3. closed \in BOOLEAN
    OBVIOUS
  <2>4. emptyWaited \in Nat /\ fullWaited \in Nat
    OBVIOUS
  <2>5. waiters \in [Conds -> SUBSET Threads]
    OBVIOUS
  <2>6. pc \in [Threads -> PCs]
    BY DEF PCs
  <2>7. ret \in [Threads -> Results]
    BY DEF Results
  <2> QED
    BY <2>1, <2>2, <2>3, <2>4, <2>5, <2>6, <2>7 DEF TypeOK
<1>2. FullBlocked = {} /\ EmptyBlocked = {}
  BY DEF FullBlocked, EmptyBlocked
<1>3. WaitersCounted
  BY <1>2, FS_EmptySet DEF WaitersCounted, Conds
<1>4. ProducerWakeup /\ ConsumerWakeup
  BY DEF ProducerWakeup, ConsumerWakeup, Conds
<1>5. CapacityBound
  <2>1. Len(list) <= InitialSize
    BY SMT DEF Init
  <2> QED
    BY <2>1 DEF CapacityBound
<1> QED
  BY <1>1, <1>3, <1>4, <1>5 DEF IInv

-----------------------------------------------------------------------------
FullPCs == {"fullWait", "timedWait", "timedOut"}

(* The steps, with the goroutine that makes them named.                    *)
StepOf(t) ==
  \/ Add(t)
  \/ AddWithTimeout(t, "fullWait")
  \/ AddWithTimeout(t, "timedWait")
  \/ AddExpire(t)
  \/ AddResume(t)
  \/ AddTimedOut(t)
  \/ Get(t)
  \/ GetResume(t)
  \/ Close(t)
  \/ \E n \in Sizes : SetFullSize(t, n)
  \/ SignalEmpty(t)
  \/ BroadcastFull(t)
  \/ BroadcastEmpty(t)

(* Every step is a step of some goroutine.                                 *)
LEMMA NextStep == Next => \E t \in Threads : StepOf(t)
  BY DEF Next, Continue, StepOf, Threads

-----------------------------------------------------------------------------
(* What a step does to the counters, next to where it moves its goroutine. *)
LEMMA CounterMoves ==
  ASSUME TypeOK, WaitersCounted, NEW t \in Threads, StepOf(t)
  PROVE  /\ pc' \in [Threads -> PCs]
         /\ \A u \in Threads : u # t => pc'[u] = pc[u]
         /\ fullWaited' = fullWaited + (IF pc'[t] \in FullPCs THEN 1 ELSE 0)
                                     - (IF pc[t] \in FullPCs THEN 1 ELSE 0)
         /\ emptyWaited' = emptyWaited + (IF pc'[t] = "emptyWait" THEN 1 ELSE 0)
                                       - (IF pc[t] = "emptyWait" THEN 1 ELSE 0)
<1>1. CASE Add(t) \/ Get(t) \/ GetResume(t)
  BY SMT, <1>1 DEF TypeOK, Goto, Returns, FullPCs, PCs, Add, AddLoop, AppendItem,
     Get, GetResume, GetLoop
<1>2. CASE AddWithTimeout(t, "fullWait")
  BY SMTT(20), <1>2 DEF TypeOK, Goto, Returns, FullPCs, PCs, AddWithTimeout, AddLoop, AppendItem
<1>6. CASE AddWithTimeout(t, "timedWait")
  BY SMTT(20), <1>6 DEF TypeOK, Goto, Returns, FullPCs, PCs, AddWithTimeout, AddLoop, AppendItem
<1>3. CASE AddExpire(t) \/ AddResume(t) \/ AddTimedOut(t)
  BY SMT, <1>3 DEF TypeOK, Goto, Returns, FullPCs, PCs, AddLoop, AppendItem, AddExpire,
     AddResume, AddTimedOut
<1>4. CASE Close(t) \/ \E n \in Sizes : SetFullSize(t, n)
  BY SMT, <1>4 DEF TypeOK, Goto, Returns, FullPCs, PCs, Close, SetFullSize
<1>5. CASE SignalEmpty(t) \/ BroadcastFull(t) \/ BroadcastEmpty(t)
  BY SMT, <1>5 DEF TypeOK, Goto, Returns, FullPCs, PCs, SignalEmpty, BroadcastFull, BroadcastEmpty
<1> QED
  BY <1>1, <1>2, <1>3, <1>4, <1>5, <1>6 DEF StepOf

(* Only goroutines that wait are on a list after the step.                 *)
WaiterMoves ==
  /\ waiters["full"]' \subseteq FullWaiting'
  /\ waiters["empty"]' \subseteq EmptyBlocked'

(* A goroutine is put on a list when it moves to that wait, and leaves the *)
(* wait, on its own or because it was woken, only once it is off the list. *)
LEMMA WaitSets ==
  ASSUME TypeOK, WaitersCounted, NEW t \in Threads, StepOf(t)
  PROVE  WaiterMoves
<1> USE DEF TypeOK, WaitersCounted, FullWaiting, EmptyBlocked, Goto, PCs, Conds, WaiterMoves
<1>1. CASE Add(t)
  BY <1>1 DEF Add, AppendItem
<1>2. ASSUME NEW w \in {"fullWait", "timedWait"}, AddWithTimeout(t, w)
      PROVE  WaiterMoves
  <2>1. CASE UNCHANGED <<pc, waiters>>
    BY <2>1
  <2>2. CASE AddLoop(t, w, fullWaited)
    BY SMT, <1>2, <2>2 DEF AddWithTimeout, AddLoop, AppendItem, C!Enqueue
  <2> QED
    BY <1>2, <2>1, <2>2 DEF AddWithTimeout
<1>3. CASE AddExpire(t)
  BY <1>3 DEF AddExpire, C!Withdraw
<1>4. CASE AddResume(t)
  <2>1. CASE UNCHANGED waiters
    BY <1>4, <2>1 DEF AddResume, AddLoop, AppendItem, C!Enqueue
  <2>2. CASE C!Enqueue("full", t) /\ pc' = pc
    BY <1>4, <2>2 DEF AddResume, C!Enqueue
  <2>3. UNCHANGED waiters \/ (C!Enqueue("full", t) /\ pc' = pc)
    BY <1>4 DEF AddResume, AddLoop
  <2> QED
    BY <2>1, <2>2, <2>3
<1>5. CASE AddTimedOut(t)
  BY <1>5 DEF AddTimedOut
<1>6. CASE Get(t)
  BY SMT, <1>6 DEF Get, GetLoop, C!Enqueue
<1>7. CASE GetResume(t)
  BY SMT, <1>7 DEF GetResume, GetLoop, C!Enqueue
<1>8. CASE Close(t)
  BY <1>8 DEF Close
<1>9. ASSUME NEW n \in Sizes, SetFullSize(t, n)
      PROVE  WaiterMoves
  BY <1>9 DEF SetFullSize
<1>10. CASE SignalEmpty(t)
  BY <1>10 DEF SignalEmpty, C!WakeOne, C!Withdraw
<1>11. CASE BroadcastFull(t)
  BY <1>11 DEF BroadcastFull, C!WakeAll
<1>12. CASE BroadcastEmpty(t)
  BY <1>12 DEF BroadcastEmpty, C!WakeAll
<1> QED
  BY <1>1, <1>2, <1>3, <1>4, <1>5, <1>6, <1>7, <1>8, <1>9, <1>10, <1>11, <1>12 DEF StepOf

(* The counters count: every step that moves a goroutine into or out of a  *)
(* wait adjusts the counter of that wait by one.                           *)
LEMMA CountedStep ==
  ASSUME TypeOK, WaitersCounted, NEW t \in Threads, StepOf(t)
  PROVE  WaitersCounted'
<1>m. /\ pc' \in [Threads -> PCs]
      /\ \A u \in Threads : u # t => pc'[u] = pc[u]
      /\ fullWaited' = fullWaited + (IF pc'[t] \in FullPCs THEN 1 ELSE 0)
                                  - (IF pc[t] \in FullPCs THEN 1 ELSE 0)
      /\ emptyWaited' = emptyWaited + (IF pc'[t] = "emptyWait" THEN 1 ELSE 0)
                                    - (IF pc[t] = "emptyWait" THEN 1 ELSE 0)
  BY CounterMoves
<1>f. /\ IsFiniteSet(FullBlocked) /\ Cardinality(FullBlocked) \in Nat
      /\ IsFiniteSet(EmptyBlocked) /\ Cardinality(EmptyBlocked) \in Nat
  BY CountThreads DEF FullBlocked, EmptyBlocked
<1>1. fullWaited' = Cardinality(FullBlocked')
  <2> USE DEF FullPCs
  <2>1. CASE pc[t] \in FullPCs /\ pc'[t] \in FullPCs
    <3>1. FullBlocked' = FullBlocked
      BY <1>m, <2>1 DEF FullBlocked
    <3> QED
      BY SMT, <1>m, <1>f, <2>1, <3>1 DEF WaitersCounted
  <2>2. CASE pc[t] \notin FullPCs /\ pc'[t] \notin FullPCs
    <3>1. FullBlocked' = FullBlocked
      BY <1>m, <2>2 DEF FullBlocked
    <3> QED
      BY SMT, <1>m, <1>f, <2>2, <3>1 DEF WaitersCounted
  <2>3. CASE pc[t] \in FullPCs /\ pc'[t] \notin FullPCs
    <3>1. FullBlocked' = FullBlocked \ {t} /\ t \in FullBlocked
      BY <1>m, <2>3 DEF FullBlocked
    <3>2. Cardinality(FullBlocked \ {t}) = Cardinality(FullBlocked) - 1
      BY <1>f, <3>1, FS_RemoveElement
    <3> QED
      BY SMT, <1>m, <1>f, <2>3, <3>1, <3>2 DEF WaitersCounted
  <2>4. CASE pc[t] \notin FullPCs /\ pc'[t] \in FullPCs
    <3>1. FullBlocked' = FullBlocked \cup {t} /\ t \notin FullBlocked
      BY <1>m, <2>4 DEF FullBlocked
    <3>2. Cardinality(FullBlocked \cup {t}) = Cardinality(FullBlocked) + 1
      BY <1>f, <3>1, FS_AddElement
    <3> QED
      BY SMT, <1>m, <1>f, <2>4, <3>1, <3>2 DEF WaitersCounted
  <2> QED
    BY <2>1, <2>2, <2>3, <2>4
<1>2. emptyWaited' = Cardinality(EmptyBlocked')
  <2>1. CASE pc[t] = "emptyWait" <=> pc'[t] = "emptyWait"
    <3>1. EmptyBlocked' = EmptyBlocked
      BY <1>m, <2>1 DEF EmptyBlocked
    <3> QED
      BY SMT, <1>m, <1>f, <2>1, <3>1 DEF WaitersCounted
  <2>2. CASE pc[t] = "emptyWait" /\ pc'[t] # "emptyWait"
    <3>1. EmptyBlocked' = EmptyBlocked \ {t} /\ t \in EmptyBlocked
      BY <1>m, <2>2 DEF EmptyBlocked
    <3>2. Cardinality(EmptyBlocked \ {t}) = Cardinality(EmptyBlocked) - 1
      BY <1>f, <3>1, FS_RemoveElement
    <3> QED
      BY SMT, <1>m, <1>f, <2>2, <3>1, <3>2 DEF WaitersCounted
  <2>3. CASE pc[t] # "emptyWait" /\ pc'[t] = "emptyWait"
    <3>1. EmptyBlocked' = EmptyBlocked \cup {t} /\ t \notin EmptyBlocked
      BY SMT, <1>m, <2>3 DEF EmptyBlocked
    <3>2. Cardinality(EmptyBlocked \cup {t}) = Cardinality(EmptyBlocked) + 1
      BY <1>f, <3>1, FS_AddElement
    <3> QED
      BY SMT, <1>m, <1>f, <2>3, <3>1, <3>2 DEF WaitersCounted
  <2> QED
    BY <2>1, <2>2, <2>3
<1>3. waiters["full"]' \subseteq FullWaiting' /\ waiters["empty"]' \subseteq EmptyBlocked'
  BY WaitSets DEF WaiterMoves
<1> QED
  BY <1>1, <1>2, <1>3 DEF WaitersCounted

(* The types are kept; that a decrement stays in Nat is the counting above. *)
LEMMA TypeStep ==
  ASSUME TypeOK, WaitersCounted, NEW t \in Threads, StepOf(t)
  PROVE  TypeOK'
<1>1. fullWaited' \in Nat /\ emptyWaited' \in Nat
  <2>1. WaitersCounted'
    BY CountedStep
  <2> QED
    BY <2>1, CountThreads DEF WaitersCounted, FullBlocked, EmptyBlocked
<1>2. pc' \in [Threads -> PCs]
  BY CounterMoves
<1>3. list' \in Seq(Threads)
  <2>1. list' \in {list, <<>>, Append(list, t)}
    BY DEF Goto, Returns, StepOf, Add, AddWithTimeout, AddLoop,
     AppendItem, AddExpire, AddResume, AddTimedOut, Get, GetResume, GetLoop, Close, SetFullSize,
     SignalEmpty, BroadcastFull, BroadcastEmpty
  <2>2. list \in Seq(Threads) /\ <<>> \in Seq(Threads) /\ Append(list, t) \in Seq(Threads)
    BY SMT DEF TypeOK
  <2> QED
    BY <2>1, <2>2
<1>6. fullSize' \in Sizes
  BY DEF TypeOK, Goto, Returns, StepOf, Add, AddWithTimeout, AddLoop,
     AppendItem, AddExpire, AddResume, AddTimedOut, Get, GetResume, GetLoop, Close, SetFullSize,
     SignalEmpty, BroadcastFull, BroadcastEmpty
<1>7. closed' \in BOOLEAN
  BY DEF TypeOK, Goto, Returns, StepOf, Add, AddWithTimeout, AddLoop,
     AppendItem, AddExpire, AddResume, AddTimedOut, Get, GetResume, GetLoop, Close, SetFullSize,
     SignalEmpty, BroadcastFull, BroadcastEmpty
<1>4. waiters' \in [Conds -> SUBSET Threads]
  <2>1. CASE Add(t) \/ Get(t) \/ GetResume(t)
    BY SMT, <2>1 DEF TypeOK, Conds, Goto, Returns, Add, AddLoop, AppendItem, Get, GetResume,
       GetLoop, C!Enqueue
  <2>2. CASE AddWithTimeout(t, "fullWait") \/ AddWithTimeout(t, "timedWait")
    BY SMT, <2>2 DEF TypeOK, Conds, Goto, Returns, AddWithTimeout, AddLoop, AppendItem,
       C!Enqueue
  <2>3. CASE AddExpire(t) \/ AddResume(t) \/ AddTimedOut(t)
    BY SMT, <2>3 DEF TypeOK, Conds, Goto, Returns, AddLoop, AppendItem, AddExpire, AddResume,
       AddTimedOut, C!Enqueue, C!Withdraw
  <2>4. CASE Close(t) \/ \E n \in Sizes : SetFullSize(t, n)
    BY SMT, <2>4 DEF TypeOK, Conds, Goto, Returns, Close, SetFullSize
  <2>5. CASE SignalEmpty(t)
    <3>1. waiters' = waiters \/ \E u : waiters' = [waiters EXCEPT !["empty"] = @ \ {u}]
      BY <2>5 DEF SignalEmpty, C!WakeOne, C!Withdraw
    <3> QED
      BY SMT, <3>1 DEF TypeOK, Conds
  <2>6. CASE BroadcastFull(t) \/ BroadcastEmpty(t)
    BY SMT, <2>6 DEF TypeOK, Conds, BroadcastFull, BroadcastEmpty, C!WakeAll
  <2> QED
    BY <2>1, <2>2, <2>3, <2>4, <2>5, <2>6 DEF StepOf
<1>5. ret' \in [Threads -> Results]
  BY DEF TypeOK, Results, Goto, Returns, StepOf, Add, AddWithTimeout, AddLoop,
     AppendItem, AddExpire, AddResume, AddTimedOut, Get, GetResume, GetLoop, Close, SetFullSize,
     SignalEmpty, BroadcastFull, BroadcastEmpty
<1> QED
  BY <1>1, <1>2, <1>3, <1>4, <1>5, <1>6, <1>7 DEF TypeOK

-----------------------------------------------------------------------------
(* A goroutine on a wait list is counted, so the code sees that it has to  *)
(* wake somebody.                                                          *)
LEMMA WaiterSeen ==
  ASSUME TypeOK, WaitersCounted
  PROVE  /\ waiters["full"] # {} => NeedBroadcastFull
         /\ waiters["empty"] # {} => NeedSignalEmpty
<1>1. /\ FullBlocked \in SUBSET Threads /\ EmptyBlocked \in SUBSET Threads
      /\ waiters["full"] \subseteq FullBlocked /\ waiters["empty"] \subseteq EmptyBlocked
  BY DEF WaitersCounted, FullWaiting, FullBlocked, EmptyBlocked
<1>2. waiters["full"] # {} => Cardinality(FullBlocked) > 0
  BY <1>1, CountThreads
<1>3. waiters["empty"] # {} => Cardinality(EmptyBlocked) > 0
  BY <1>1, CountThreads
<1> QED
  BY <1>2, <1>3 DEF WaitersCounted, NeedBroadcastFull, NeedSignalEmpty

(* A sender that could go on is about to be woken.                         *)
LEMMA ProducerStep ==
  ASSUME TypeOK, WaitersCounted, ProducerWakeup, NEW t \in Threads, StepOf(t)
  PROVE  ProducerWakeup'
<1> USE SendQueueAssumption DEF SendQueueAssumption, TypeOK, Goto, Returns, PCs, Conds
<1>n. waiters["full"] # {} => fullWaited > 0
  BY WaiterSeen DEF NeedBroadcastFull
<1>1. CASE Add(t)
  BY <1>1 DEF Add, AppendItem, ProducerWakeup
<1>2. ASSUME NEW w \in {"fullWait", "timedWait"}, AddWithTimeout(t, w)
      PROVE  ProducerWakeup'
  BY SMT, <1>2 DEF AddWithTimeout, AddLoop, AppendItem, C!Enqueue, ProducerWakeup
<1>3. CASE AddExpire(t)
  BY <1>3 DEF AddExpire, C!Withdraw, ProducerWakeup
<1>4. CASE AddResume(t)
  BY SMT, <1>4 DEF AddResume, AddLoop, AppendItem, C!Enqueue, ProducerWakeup
<1>5. CASE AddTimedOut(t)
  BY <1>5 DEF AddTimedOut, ProducerWakeup
<1>6. CASE Get(t) \/ GetResume(t)
  BY <1>6, <1>n DEF Get, GetResume, GetLoop, NeedBroadcastFull, C!Enqueue, ProducerWakeup
<1>7. CASE Close(t)
  BY <1>7 DEF Close, ProducerWakeup
<1>8. ASSUME NEW n \in Sizes, SetFullSize(t, n)
      PROVE  ProducerWakeup'
  BY SMT, <1>8, <1>n DEF SetFullSize, NeedBroadcastFull, ProducerWakeup
<1>9. CASE SignalEmpty(t)
  BY <1>9 DEF SignalEmpty, C!WakeOne, C!Withdraw, ProducerWakeup
<1>10. CASE BroadcastFull(t)
  BY <1>10 DEF BroadcastFull, C!WakeAll, ProducerWakeup
<1>11. CASE BroadcastEmpty(t)
  BY <1>11 DEF BroadcastEmpty, C!WakeAll, ProducerWakeup
<1> QED
  BY <1>1, <1>2, <1>3, <1>4, <1>5, <1>6, <1>7, <1>8, <1>9, <1>10, <1>11 DEF StepOf

(* A reader that has something to do is about to be woken, or another one  *)
(* already is.                                                             *)
LEMMA ConsumerStep ==
  ASSUME TypeOK, WaitersCounted, ConsumerWakeup, NEW t \in Threads, StepOf(t)
  PROVE  ConsumerWakeup'
<1> USE DEF TypeOK, Goto, Returns, PCs, Conds, EmptyBlocked
<1>n. waiters["empty"] # {} => emptyWaited > 0
  BY WaiterSeen DEF NeedSignalEmpty
<1>1. CASE Add(t)
  BY <1>1, <1>n DEF Add, AppendItem, NeedSignalEmpty, ConsumerWakeup
<1>2. ASSUME NEW w \in {"fullWait", "timedWait"}, AddWithTimeout(t, w)
      PROVE  ConsumerWakeup'
  BY <1>2, <1>n DEF AddWithTimeout, AddLoop, AppendItem, NeedSignalEmpty, C!Enqueue, ConsumerWakeup
<1>3. CASE AddExpire(t)
  BY <1>3 DEF AddExpire, C!Withdraw, ConsumerWakeup
<1>4. CASE AddResume(t)
  BY SMT, <1>4, <1>n DEF AddResume, AddLoop, AppendItem, NeedSignalEmpty, C!Enqueue, ConsumerWakeup
<1>5. CASE AddTimedOut(t)
  BY <1>5 DEF AddTimedOut, ConsumerWakeup
<1>6. CASE Get(t) \/ GetResume(t)
  BY <1>6 DEF Get, GetResume, GetLoop, C!Enqueue, ConsumerWakeup
<1>7. CASE Close(t)
  BY <1>7 DEF Close, ConsumerWakeup
<1>8. ASSUME NEW n \in Sizes, SetFullSize(t, n)
      PROVE  ConsumerWakeup'
  BY <1>8 DEF SetFullSize, ConsumerWakeup
<1>9. CASE SignalEmpty(t)
  BY SMT, <1>9 DEF SignalEmpty, C!WakeOne, C!Withdraw, ConsumerWakeup, WaitersCounted
<1>10. CASE BroadcastFull(t)
  BY <1>10 DEF BroadcastFull, C!WakeAll, ConsumerWakeup
<1>11. CASE BroadcastEmpty(t)
  BY <1>11 DEF BroadcastEmpty, C!WakeAll, ConsumerWakeup
<1> QED
  BY <1>1, <1>2, <1>3, <1>4, <1>5, <1>6, <1>7, <1>8, <1>9, <1>10, <1>11 DEF StepOf

(* An item is only appended below the current size.                        *)
LEMMA CapacityStep ==
  ASSUME TypeOK, CapacityBound, NEW t \in Threads, StepOf(t)
  PROVE  CapacityBound'
<1>1. \/ list' = list
      \/ list' = <<>>
      \/ list' = Append(list, t) /\ Len(list) < fullSize
  BY DEF StepOf, Add, AddWithTimeout, AddLoop, AppendItem, AddExpire, AddResume, AddTimedOut,
     Get, GetResume, GetLoop, Close, SetFullSize, SignalEmpty, BroadcastFull, BroadcastEmpty
<1>2. list \in Seq(Threads) /\ fullSize \in Sizes /\ Sizes \subseteq Nat
  BY SendQueueAssumption DEF TypeOK, SendQueueAssumption
<1>3. CASE list' = Append(list, t) /\ Len(list) < fullSize
  <2>1. Len(list') = Len(list) + 1
    BY SMT, <1>2, <1>3
  <2>2. Len(list') <= fullSize
    BY SMT, <1>2, <1>3, <2>1
  <2> QED
    BY <1>2, <2>2 DEF CapacityBound
<1>4. CASE list' = list \/ list' = <<>>
  <2>1. Len(list') <= Len(list)
    BY SMT, <1>2, <1>4
  <2>2. PICK n \in Sizes : Len(list) <= n
    BY DEF CapacityBound
  <2>3. Len(list') <= n
    BY SMT, <1>2, <1>4, <2>1, <2>2
  <2> QED
    BY <2>3 DEF CapacityBound
<1> QED
  BY <1>1, <1>3, <1>4

-----------------------------------------------------------------------------
(* The invariant is inductive.                                             *)
LEMMA NextIInv == IInv /\ [Next]_vars => IInv'
<1> SUFFICES ASSUME IInv, [Next]_vars
             PROVE  IInv'
  OBVIOUS
<1>1. CASE Next
  <2>1. PICK t \in Threads : StepOf(t)
    BY <1>1, NextStep
  <2> QED
    BY <2>1, TypeStep, CountedStep, ProducerStep, ConsumerStep, CapacityStep DEF IInv
<1>2. CASE UNCHANGED vars
  BY <1>2 DEF vars, IInv, TypeOK, WaitersCounted, ProducerWakeup, ConsumerWakeup, CapacityBound,
     FullWaiting, FullBlocked, EmptyBlocked
<1> QED
  BY <1>1, <1>2

(* In every state the program reaches, the state is well typed, the        *)
(* counters count, no wake-up of a sender or a reader is lost, and the     *)
(* queue holds no more than its largest size.                              *)
THEOREM Invariance == Spec => []IInv
  BY InitIInv, NextIInv, PTL DEF Spec

(* Type correctness of the queue.                                          *)
THEOREM TypeCorrect == Spec => []TypeOK
<1>1. IInv => TypeOK
  BY DEF IInv
<1> QED
  BY <1>1, Invariance, PTL

(* emptyWaited and fullWaited count the waiting goroutines.                *)
THEOREM CountersCorrect == Spec => []WaitersCounted
<1>1. IInv => WaitersCounted
  BY DEF IInv
<1> QED
  BY <1>1, Invariance, PTL

(* No sender waits on a queue with room, or a closed one, without a        *)
(* broadcast under way; no reader waits on a queue with items, or a closed *)
(* one, without a wake-up under way.                                       *)
THEOREM WakeupsKept == Spec => []NoLostWakeup
<1>1. IInv => NoLostWakeup
  BY DEF IInv, NoLostWakeup
<1> QED
  BY <1>1, Invariance, PTL

(* The queue never outgrows the largest size it was given.                 *)
THEOREM CapacityRespected == Spec => []CapacityBound
<1>1. IInv => CapacityBound
  BY DEF IInv
<1> QED
  BY <1>1, Invariance, PTL

(* Once the queue is closed nothing is added, and a call that gets its     *)
(* result then gets ErrQueueClosed.                                        *)
THEOREM ClosedQueueRefusesItems == Spec => ClosedRefusesItems
<1> DEFINE Refused == closed => /\ Len(list') <= Len(list)
                                /\ \A t \in Threads : ret'[t] # ret[t] => ret'[t] = "ErrQueueClosed"
<1>1. TypeOK /\ [Next]_vars => [Refused]_vars
  <2> SUFFICES ASSUME TypeOK, Next, closed
               PROVE  /\ Len(list') <= Len(list)
                      /\ \A t \in Threads : ret'[t] # ret[t] => ret'[t] = "ErrQueueClosed"
    OBVIOUS
  <2>1. PICK t \in Threads : StepOf(t)
    BY NextStep
  <2>2. list' = list \/ list' = <<>>
    BY <2>1 DEF StepOf, Add, AddWithTimeout, AddLoop, AppendItem, AddExpire, AddResume, AddTimedOut,
       Get, GetResume, GetLoop, Close, SetFullSize, SignalEmpty, BroadcastFull, BroadcastEmpty
  <2>3. ret' = ret \/ ret' = [ret EXCEPT ![t] = "ErrQueueClosed"]
    BY <2>1 DEF StepOf, Add, AddWithTimeout, AddLoop, AppendItem, AddExpire, AddResume, AddTimedOut,
       Get, GetResume, GetLoop, Close, SetFullSize, SignalEmpty, BroadcastFull, BroadcastEmpty, Returns
  <2>4. Len(list') <= Len(list)
    BY SMT, <2>2 DEF TypeOK
  <2> QED
    BY <2>3, <2>4 DEF TypeOK
<1> QED
  BY <1>1, TypeCorrect, PTL DEF Spec, ClosedRefusesItems

-----------------------------------------------------------------------------
(* The event handler.                                                      *)

(* No handle is in the list twice.                                         *)
Distinct(q) == \A i, j \in DOMAIN q : q[i] = q[j] => i = j

(* The version of a handle is the slot whose list it is in.                *)
Linked ==
  \A s \in Slots :
    /\ Distinct(l[s])
    /\ \A h \in Handles : version[h] = s <=> Contains(l[s], h)

(* What a goroutine has read before it calls remove or emit of a slot.     *)
CallTypes ==
  /\ call = [t \in Goroutines |-> call[t]]
  /\ \A t \in Goroutines :
       \/ call[t] = Nil
       \/ \E s \in made : call[t] = <<"emit", s>>
       \/ \E s \in made, h \in Handles : call[t] = <<"remove", s, h>>

(* A slot that emits is at a handle of its list, except while its emitter  *)
(* holds the lock.                                                         *)
AtHandle ==
  \A s \in Slots :
    /\ cur[s] # Nil <=> s \in emiting /\ holder # s
    /\ cur[s] # Nil => version[cur[s]] = s

(* The slots on the stacks emit, and each is there once.                   *)
Stacked ==
  \A t \in Goroutines : \A i \in DOMAIN stack[t] :
    /\ stack[t][i] \in emiting
    /\ \A u \in Goroutines : \A j \in DOMAIN stack[u] : stack[t][i] = stack[u][j] => t = u /\ i = j

(* The i-th operation of s registers h.                                    *)
Pends(s, i, h) == pendingOP[s][i][1] = "register" /\ pendingOP[s][i][2] = h

(* A handle that was not registered has no version and was not called.     *)
Fresh == \A h \in Handles : h \notin subscribed => version[h] = Nil /\ called[h] = 0

(* A registration that is queued is the only one of its handle, which has  *)
(* no version yet.                                                         *)
Awaiting ==
  \A s \in Slots : \A i \in DOMAIN pendingOP[s] : \A h \in Handles : Pends(s, i, h) =>
    /\ h \in subscribed /\ version[h] = Nil
    /\ \A r \in Slots : \A j \in DOMAIN pendingOP[r] : Pends(r, j, h) => s = r /\ i = j

(* A handler of RegisterOnce that was called is being called, or gone for  *)
(* good.                                                                   *)
CalledOnce ==
  \A h \in once :
    /\ called[h] <= 1
    /\ called[h] = 1 =>
         /\ version[h] # Nil => cur[version[h]] = h
         /\ \A s \in Slots : \A i \in DOMAIN pendingOP[s] : ~Pends(s, i, h)

(* The invariant.                                                          *)
EInv ==
  /\ EventTypeOK /\ CallTypes /\ Linked /\ AtHandle /\ Stacked
  /\ NothingLeftQueued /\ Fresh /\ Awaiting /\ CalledOnce

-----------------------------------------------------------------------------
(* Facts about sequences.                                                  *)

(* What Append does to a sequence.                                         *)
LEMMA Appended ==
  ASSUME NEW S, NEW q \in Seq(S), NEW x \in S
  PROVE  /\ Append(q, x) \in Seq(S)
         /\ Append(q, x) # <<>>
         /\ DOMAIN q = 1..Len(q) /\ Len(q) \in Nat
         /\ DOMAIN Append(q, x) = 1..(Len(q) + 1)
         /\ \A i \in 1..Len(q) : Append(q, x)[i] = q[i]
         /\ Append(q, x)[Len(q) + 1] = x
  BY SMT

(* What Head and Tail are.                                                 *)
LEMMA Shifted ==
  ASSUME NEW S, NEW q \in Seq(S), q # <<>>
  PROVE  /\ Tail(q) \in Seq(S)
         /\ 1 \in DOMAIN q /\ Head(q) = q[1] /\ Head(q) \in S
         /\ \A i \in DOMAIN Tail(q) : i + 1 \in DOMAIN q /\ i + 1 # 1 /\ Tail(q)[i] = q[i + 1]
         /\ \A i, j \in DOMAIN Tail(q) : i + 1 = j + 1 => i = j
  BY SMT

(* What Front and Last are.                                                *)
LEMMA Fronted ==
  ASSUME NEW S, NEW q \in Seq(S), q # <<>>
  PROVE  /\ Front(q) \in Seq(S)
         /\ Len(q) \in DOMAIN q /\ Last(q) = q[Len(q)] /\ Last(q) \in S
         /\ \A i \in DOMAIN Front(q) : i \in DOMAIN q /\ i # Len(q) /\ Front(q)[i] = q[i]
  BY SMT DEF Front, Last

(* The indices of a sequence.                                              *)
LEMMA SeqDomain ==
  ASSUME NEW S, NEW q \in Seq(S)
  PROVE  DOMAIN q = 1..Len(q) /\ Len(q) \in Nat
  BY SMT

(* What the concatenation of two sequences is.                             *)
LEMMA Joined ==
  ASSUME NEW S, NEW a \in Seq(S), NEW b \in Seq(S)
  PROVE  /\ a \o b \in Seq(S)
         /\ DOMAIN (a \o b) = 1..(Len(a) + Len(b))
         /\ \A i \in 1..(Len(a) + Len(b)) :
              (a \o b)[i] = IF i <= Len(a) THEN a[i] ELSE b[i - Len(a)]
  BY SMT

(* What RemoveAt leaves.                                                   *)
LEMMA Removed ==
  ASSUME NEW S, NEW q \in Seq(S), NEW n \in DOMAIN q
  PROVE  /\ RemoveAt(q, n) \in Seq(S)
         /\ DOMAIN RemoveAt(q, n) = 1..(Len(q) - 1)
         /\ DOMAIN q = 1..Len(q) /\ Len(q) \in Nat
         /\ \A i \in 1..(Len(q) - 1) : RemoveAt(q, n)[i] = IF i < n THEN q[i] ELSE q[i + 1]
<1> DEFINE a == SubSeq(q, 1, n - 1)
           b == SubSeq(q, n + 1, Len(q))
<1>1. DOMAIN q = 1..Len(q) /\ Len(q) \in Nat /\ n \in 1..Len(q)
  BY SMT
<1>2. a \in Seq(S) /\ Len(a) = n - 1 /\ \A i \in 1..(n - 1) : a[i] = q[i]
  BY <1>1, SMT
<1>3. b \in Seq(S) /\ Len(b) = Len(q) - n /\ \A i \in 1..(Len(q) - n) : b[i] = q[n + i]
  BY <1>1, SMT
<1>4. RemoveAt(q, n) = a \o b
  BY DEF RemoveAt
<1> HIDE DEF a, b
<1>5. /\ a \o b \in Seq(S)
      /\ DOMAIN (a \o b) = 1..(Len(q) - 1)
      /\ \A i \in 1..(Len(q) - 1) : (a \o b)[i] = IF i <= n - 1 THEN a[i] ELSE b[i - (n - 1)]
  <2>1. Len(a) + Len(b) = Len(q) - 1
    BY <1>1, <1>2, <1>3, SMT
  <2>2. /\ a \o b \in Seq(S)
        /\ DOMAIN (a \o b) = 1..(Len(a) + Len(b))
        /\ \A i \in 1..(Len(a) + Len(b)) :
             (a \o b)[i] = IF i <= Len(a) THEN a[i] ELSE b[i - Len(a)]
    BY <1>2, <1>3, Joined
  <2>3. Len(a) = n - 1
    BY <1>2
  <2> QED
    BY <2>1, <2>2, <2>3
<1>6. \A i \in 1..(Len(q) - 1) : (a \o b)[i] = IF i < n THEN q[i] ELSE q[i + 1]
  <2> SUFFICES ASSUME NEW i \in 1..(Len(q) - 1)
               PROVE  (a \o b)[i] = IF i < n THEN q[i] ELSE q[i + 1]
    OBVIOUS
  <2>1. CASE i < n
    <3>1. i <= n - 1 /\ i \in 1..(n - 1)
      BY <2>1, <1>1, SMT
    <3> QED
      BY <1>2, <1>5, <2>1, <3>1
  <2>2. CASE ~(i < n)
    <3>1. ~(i <= n - 1) /\ i - (n - 1) \in 1..(Len(q) - n) /\ n + (i - (n - 1)) = i + 1
      BY <2>2, <1>1, SMT
    <3>2. b[i - (n - 1)] = q[i + 1]
      BY <1>3, <3>1
    <3> QED
      BY <1>5, <2>2, <3>1, <3>2
  <2> QED
    BY <2>1, <2>2
<1> QED
  BY <1>1, <1>4, <1>5, <1>6

(* What Append adds to a list without repetitions.                         *)
LEMMA AddsOne ==
  ASSUME NEW S, NEW q \in Seq(S), NEW x \in S, Distinct(q), ~Contains(q, x)
  PROVE  /\ Distinct(Append(q, x))
         /\ \A y : Contains(Append(q, x), y) <=> Contains(q, y) \/ y = x
  BY Appended, SMT DEF Distinct, Contains

(* What RemoveAt takes from a list without repetitions.                    *)
LEMMA TakesOne ==
  ASSUME NEW S, NEW q \in Seq(S), NEW n \in DOMAIN q, Distinct(q)
  PROVE  /\ Distinct(RemoveAt(q, n))
         /\ \A y : Contains(RemoveAt(q, n), y) <=> Contains(q, y) /\ y # q[n]
<1> DEFINE r == RemoveAt(q, n)
<1>1. /\ r \in Seq(S)
      /\ DOMAIN r = 1..(Len(q) - 1)
      /\ DOMAIN q = 1..Len(q) /\ Len(q) \in Nat
      /\ \A i \in 1..(Len(q) - 1) : r[i] = IF i < n THEN q[i] ELSE q[i + 1]
  BY Removed
<1> HIDE DEF r
<1>2. \A i \in DOMAIN r : \E k \in DOMAIN q : k = (IF i < n THEN i ELSE i + 1) /\ r[i] = q[k] /\ k # n
  BY <1>1, SMT
<1>3. \A k \in DOMAIN q : k # n => \E i \in DOMAIN r : r[i] = q[k]
  <2> SUFFICES ASSUME NEW k \in DOMAIN q, k # n
               PROVE  \E i \in DOMAIN r : r[i] = q[k]
    OBVIOUS
  <2>1. CASE k < n
    BY <2>1, <1>1, SMT
  <2>2. CASE ~(k < n)
    <3>1. k - 1 \in DOMAIN r /\ r[k - 1] = q[k]
      BY <2>2, <1>1, SMT
    <3> QED
      BY <3>1
  <2> QED
    BY <2>1, <2>2
<1>4. Distinct(r)
  <2> SUFFICES ASSUME NEW i \in DOMAIN r, NEW j \in DOMAIN r, r[i] = r[j]
               PROVE  i = j
    BY DEF Distinct
  <2>1. (IF i < n THEN i ELSE i + 1) = (IF j < n THEN j ELSE j + 1)
    BY <1>2 DEF Distinct
  <2> QED
    BY <1>1, <2>1, SMT
<1>7. 1..Len(r) = DOMAIN r
  BY <1>1, SeqDomain
<1>5. \A y : Contains(r, y) => Contains(q, y) /\ y # q[n]
  BY <1>1, <1>2, <1>7 DEF Distinct, Contains
<1>6. \A y : Contains(q, y) /\ y # q[n] => Contains(r, y)
  BY <1>1, <1>3, <1>7 DEF Contains
<1> QED
  BY <1>4, <1>5, <1>6 DEF r

-----------------------------------------------------------------------------
(* What the operations on the lists and the queues of the slots do.        *)

(* The lists and the versions have their types.                            *)
ListTypes == version \in [Handles -> Slots \cup {Nil}] /\ l \in [Slots -> Seq(Handles)]

(* Only the version of h changes, if any.                                  *)
OnlyVersionOf(h) == \A k \in Handles : k # h => version'[k] = version[k]

(* The list of s and the version of h agree after doRegister.              *)
LEMMA RegisterLinks ==
  ASSUME ListTypes, Linked, NEW s \in Slots, NEW h \in Handles,
         version[h] = Nil, doRegister(s, h)
  PROVE  ListTypes' /\ Linked' /\ OnlyVersionOf(h) /\ version'[h] = s
<1>1. /\ s # Nil
      /\ version' \in [Handles -> Slots \cup {Nil}] /\ version'[h] = s
      /\ \A k \in Handles : k # h => version'[k] = version[k]
  BY EventHandlerAssumption, SMT DEF doRegister, ListTypes
<1>2. Append(l[s], h) \in Seq(Handles)
  BY Appended DEF ListTypes
<1>3. /\ l' \in [Slots -> Seq(Handles)] /\ l'[s] = Append(l[s], h)
      /\ \A r \in Slots : r # s => l'[r] = l[r]
  BY <1>2, SMT DEF doRegister, ListTypes
<1>4. /\ Distinct(l'[s])
      /\ \A y : Contains(l'[s], y) <=> Contains(l[s], y) \/ y = h
  <2>1. l[s] \in Seq(Handles) /\ Distinct(l[s]) /\ ~Contains(l[s], h)
    BY <1>1 DEF ListTypes, Linked
  <2>2. /\ Distinct(Append(l[s], h))
        /\ \A y : Contains(Append(l[s], h), y) <=> Contains(l[s], y) \/ y = h
    BY <2>1, AddsOne
  <2> QED
    BY <2>2, <1>3
<1>5. Linked'
  <2> SUFFICES ASSUME NEW r \in Slots
               PROVE  /\ Distinct(l'[r])
                      /\ \A k \in Handles : version'[k] = r <=> Contains(l'[r], k)
    BY DEF Linked
  <2>0. r # Nil /\ Distinct(l[r]) /\ \A k \in Handles : version[k] = r <=> Contains(l[r], k)
    BY EventHandlerAssumption DEF Linked
  <2>1. CASE r = s
    BY <2>0, <2>1, <1>1, <1>4
  <2>2. CASE r # s
    BY <2>0, <2>2, <1>1, <1>3
  <2> QED
    BY <2>1, <2>2
<1> QED
  BY <1>1, <1>3, <1>5 DEF ListTypes, OnlyVersionOf

(* Place finds a handle of the list.                                       *)
LEMMA PlaceIs ==
  ASSUME NEW s, NEW h, \E i \in DOMAIN l[s] : l[s][i] = h
  PROVE  Place(s, h) \in DOMAIN l[s] /\ l[s][Place(s, h)] = h
BY SMT DEF Place

(* The list of s and the version of h agree after doRemove.                *)
LEMMA RemoveLinks ==
  ASSUME ListTypes, Linked, NEW s \in Slots, NEW h \in Handles, doRemove(s, h)
  PROVE  /\ ListTypes' /\ Linked' /\ OnlyVersionOf(h)
         /\ version'[h] = IF version[h] = s THEN Nil ELSE version[h]
<1>1. CASE version[h] = s
  <2>1. /\ version' \in [Handles -> Slots \cup {Nil}] /\ version'[h] = Nil
        /\ \A k \in Handles : k # h => version'[k] = version[k]
    BY <1>1, SMT DEF doRemove, ListTypes
  <2>2. l[s] \in Seq(Handles) /\ Distinct(l[s]) /\ DOMAIN l[s] = 1..Len(l[s])
    BY SeqDomain DEF ListTypes, Linked
  <2>3. Place(s, h) \in DOMAIN l[s] /\ l[s][Place(s, h)] = h
    <3>1. \E i \in DOMAIN l[s] : l[s][i] = h
      BY <1>1, <2>2 DEF Linked, Contains
    <3> QED
      BY <3>1, PlaceIs
  <2>4. RemoveAt(l[s], Place(s, h)) \in Seq(Handles)
    BY <2>2, <2>3, Removed
  <2>5. /\ l' \in [Slots -> Seq(Handles)] /\ l'[s] = RemoveAt(l[s], Place(s, h))
        /\ \A r \in Slots : r # s => l'[r] = l[r]
    <3> DEFINE R == RemoveAt(l[s], Place(s, h))
    <3>1. l' = [l EXCEPT ![s] = R]
      BY <1>1 DEF doRemove
    <3>2. R \in Seq(Handles)
      BY <2>4
    <3> HIDE DEF R
    <3>3. /\ l' \in [Slots -> Seq(Handles)] /\ l'[s] = R
          /\ \A r \in Slots : r # s => l'[r] = l[r]
      BY <3>1, <3>2, SMT DEF ListTypes
    <3> QED
      BY <3>3 DEF R
  <2>6. /\ Distinct(l'[s])
        /\ \A y : Contains(l'[s], y) <=> Contains(l[s], y) /\ y # h
    <3>1. /\ Distinct(RemoveAt(l[s], Place(s, h)))
          /\ \A y : Contains(RemoveAt(l[s], Place(s, h)), y)
                      <=> Contains(l[s], y) /\ y # l[s][Place(s, h)]
      BY <2>2, <2>3, TakesOne
    <3> QED
      BY <2>3, <2>5, <3>1
  <2>7. Linked'
    <3> SUFFICES ASSUME NEW r \in Slots
                 PROVE  /\ Distinct(l'[r])
                        /\ \A k \in Handles : version'[k] = r <=> Contains(l'[r], k)
      BY DEF Linked
    <3>0. r # Nil /\ Distinct(l[r]) /\ \A k \in Handles : version[k] = r <=> Contains(l[r], k)
      BY EventHandlerAssumption DEF Linked
    <3>1. CASE r = s
      BY <3>0, <3>1, <2>1, <2>6
    <3>2. CASE r # s
      BY <3>0, <3>2, <1>1, <2>1, <2>5
    <3> QED
      BY <3>1, <3>2
  <2> QED
    BY <1>1, <2>1, <2>5, <2>7 DEF ListTypes, OnlyVersionOf
<1>2. CASE version[h] # s
  <2>1. version' = version /\ l' = l
    BY <1>2 DEF doRemove
  <2> QED
    BY <1>2, <2>1 DEF ListTypes, Linked, OnlyVersionOf
<1> QED
  BY <1>1, <1>2

(* The handle after one of the list is another one of it, if there is one. *)
LEMMA NextIs ==
  ASSUME ListTypes, Linked, NEW s \in Slots, NEW h \in Handles, version[h] = s,
         nnextOf(s, h) # Nil
  PROVE  nnextOf(s, h) \in Handles /\ version[nnextOf(s, h)] = s /\ nnextOf(s, h) # h
<1> DEFINE p == Place(s, h)
<1>1. l[s] \in Seq(Handles) /\ Distinct(l[s]) /\ DOMAIN l[s] = 1..Len(l[s]) /\ Len(l[s]) \in Nat
  BY SeqDomain DEF ListTypes, Linked
<1>2. p \in DOMAIN l[s] /\ l[s][p] = h
  <2>1. Contains(l[s], h)
    BY DEF Linked
  <2>2. \E i \in DOMAIN l[s] : l[s][i] = h
    BY <1>1, <2>1 DEF Contains
  <2> QED
    BY <2>2, PlaceIs
<1>3. p # Len(l[s]) /\ nnextOf(s, h) = l[s][p + 1]
  BY DEF nnextOf
<1> HIDE DEF p
<1>4. p + 1 \in DOMAIN l[s] /\ p + 1 # p
  BY <1>1, <1>2, <1>3, SMT
<1>5. l[s][p + 1] \in Handles
  BY <1>1, <1>4, SMT
<1>6. Contains(l[s], l[s][p + 1])
  BY <1>1, <1>4 DEF Contains
<1>7. l[s][p + 1] # h
  BY <1>1, <1>2, <1>4 DEF Distinct
<1>8. version[l[s][p + 1]] = s
  <2>1. \A k \in Handles : version[k] = s <=> Contains(l[s], k)
    BY DEF Linked
  <2> QED
    BY <1>5, <1>6, <2>1
<1> QED
  BY <1>3, <1>5, <1>7, <1>8

(* The queued operations have their types.                                 *)
QueueTypes == pendingOP \in [Slots -> Seq(Ops)]

(* The other variables have theirs.                                        *)
RestTypes ==
  /\ once \subseteq Handles
  /\ slot \in made \cup {Nil}
  /\ made \subseteq Slots
  /\ emiting \subseteq made
  /\ cur \in [Slots -> Handles \cup {Nil}]
  /\ holder \in emiting \cup {Nil}
  /\ stack \in [Goroutines -> Seq(Slots)]
  /\ subscribed \subseteq Handles
  /\ emits \in 0..MaxEmits
  /\ removes \in 0..MaxRemoves
  /\ called \in [Handles -> Nat]

(* EventTypeOK, in three parts.                                            *)
LEMMA TypeParts == EventTypeOK <=> ListTypes /\ QueueTypes /\ RestTypes
  BY DEF EventTypeOK, ListTypes, QueueTypes, RestTypes

(* Every registration that is queued was queued before, in its order.      *)
OnlyOldOps ==
  \A r \in Slots : \E d \in {0, 1} : \A i \in DOMAIN pendingOP'[r] : \A h \in Handles :
    Pends(r, i, h)' => i + d \in DOMAIN pendingOP[r] /\ Pends(r, i + d, h)

(* The handles of the queued registrations have no version afterwards.     *)
PendingUnversioned ==
  \A r \in Slots : \A i \in DOMAIN pendingOP'[r] : \A h \in Handles :
    Pends(r, i, h)' => version'[h] = Nil

(* What push does to the queues.                                           *)
LEMMA PushDoes ==
  ASSUME QueueTypes, NEW s \in Slots, NEW o \in Ops, push(s, o)
  PROVE  /\ QueueTypes'
         /\ \A r \in Slots : r # s => pendingOP'[r] = pendingOP[r]
         /\ \A i \in DOMAIN pendingOP'[s] :
              \/ i \in DOMAIN pendingOP[s] /\ pendingOP'[s][i] = pendingOP[s][i]
              \/ i = Len(pendingOP[s]) + 1 /\ pendingOP'[s][i] = o
<1> DEFINE q == pendingOP[s]
<1>1. q \in Seq(Ops) /\ pendingOP' = [pendingOP EXCEPT ![s] = Append(q, o)]
  BY DEF QueueTypes, push
<1> HIDE DEF q
<1>2. /\ Append(q, o) \in Seq(Ops)
      /\ \A i \in DOMAIN Append(q, o) : \/ i \in DOMAIN q /\ Append(q, o)[i] = q[i]
                                        \/ i = Len(q) + 1 /\ Append(q, o)[i] = o
  <2>1. \A i \in 1..(Len(q) + 1) : i \in 1..Len(q) \/ i = Len(q) + 1
    BY <1>1, SMT
  <2>2. /\ Append(q, o) \in Seq(Ops)
        /\ DOMAIN q = 1..Len(q)
        /\ DOMAIN Append(q, o) = 1..(Len(q) + 1)
        /\ \A i \in 1..Len(q) : Append(q, o)[i] = q[i]
        /\ Append(q, o)[Len(q) + 1] = o
    BY <1>1, SMT
  <2> QED
    BY <2>1, <2>2
<1> DEFINE a == Append(q, o)
<1> HIDE DEF a
<1>3. /\ pendingOP' \in [Slots -> Seq(Ops)] /\ pendingOP'[s] = a
      /\ \A r \in Slots : r # s => pendingOP'[r] = pendingOP[r]
  <2>1. a \in Seq(Ops) /\ pendingOP' = [pendingOP EXCEPT ![s] = a]
    BY <1>1, <1>2 DEF a
  <2> QED
    BY <2>1, SMT DEF QueueTypes
<1> QED
  BY <1>2, <1>3 DEF a, q, QueueTypes

(* Queueing an emit or a removal queues no registration.                   *)
LEMMA PushKeeps ==
  ASSUME QueueTypes, NEW s \in Slots, NEW o \in Ops, push(s, o), o[1] # "register"
  PROVE  OnlyOldOps
<1> SUFFICES ASSUME NEW r \in Slots
             PROVE  \A i \in DOMAIN pendingOP'[r] : \A h \in Handles :
                      Pends(r, i, h)' => i + 0 \in DOMAIN pendingOP[r] /\ Pends(r, i + 0, h)
  BY DEF OnlyOldOps
<1> SUFFICES ASSUME NEW i \in DOMAIN pendingOP'[r], NEW h \in Handles, Pends(r, i, h)'
             PROVE  i + 0 \in DOMAIN pendingOP[r] /\ Pends(r, i + 0, h)
  OBVIOUS
<1>1. i \in DOMAIN pendingOP[r] /\ pendingOP'[r][i] = pendingOP[r][i]
  BY PushDoes DEF Pends
<1>2. pendingOP[r] \in Seq(Ops)
  BY DEF QueueTypes
<1>3. i + 0 = i
  <2>1. i \in 1..Len(pendingOP[r]) /\ Len(pendingOP[r]) \in Nat
    BY <1>1, <1>2, SeqDomain
  <2> QED
    BY <2>1, SMT
<1> QED
  BY <1>1, <1>3 DEF Pends

(* Taking the first operation from a queue.                                *)
LEMMA PopDoes ==
  ASSUME QueueTypes, NEW s \in Slots, pendingOP[s] # <<>>,
         pendingOP' = [pendingOP EXCEPT ![s] = Tail(@)]
  PROVE  /\ QueueTypes'
         /\ 1 \in DOMAIN pendingOP[s]
         /\ Head(pendingOP[s]) = pendingOP[s][1] /\ Head(pendingOP[s]) \in Ops
         /\ \A r \in Slots : r # s => pendingOP'[r] = pendingOP[r]
         /\ \A i \in DOMAIN pendingOP'[s] :
              i + 1 \in DOMAIN pendingOP[s] /\ i + 1 # 1 /\ pendingOP'[s][i] = pendingOP[s][i + 1]
         /\ OnlyOldOps
<1> DEFINE q == pendingOP[s]
           a == Tail(q)
<1>1. q \in Seq(Ops) /\ pendingOP' = [pendingOP EXCEPT ![s] = a]
  BY DEF QueueTypes
<1>2. /\ a \in Seq(Ops)
      /\ 1 \in DOMAIN q /\ Head(q) = q[1] /\ Head(q) \in Ops
      /\ \A i \in DOMAIN a : i + 1 \in DOMAIN q /\ i + 1 # 1 /\ a[i] = q[i + 1]
  BY <1>1, Shifted
<1> HIDE DEF a
<1>3. /\ pendingOP' \in [Slots -> Seq(Ops)] /\ pendingOP'[s] = a
      /\ \A r \in Slots : r # s => pendingOP'[r] = pendingOP[r]
  BY <1>1, <1>2, SMT DEF QueueTypes
<1>4. OnlyOldOps
  <2> SUFFICES ASSUME NEW r \in Slots
               PROVE  \E d \in {0, 1} : \A i \in DOMAIN pendingOP'[r] : \A h \in Handles :
                        Pends(r, i, h)' => i + d \in DOMAIN pendingOP[r] /\ Pends(r, i + d, h)
    BY DEF OnlyOldOps
  <2>1. CASE r = s
    <3>1. \A i \in DOMAIN pendingOP'[r] : \A h \in Handles :
            Pends(r, i, h)' => i + 1 \in DOMAIN pendingOP[r] /\ Pends(r, i + 1, h)
      BY <1>2, <1>3, <2>1 DEF Pends
    <3> QED
      BY <3>1
  <2>2. CASE r # s
    <3>1. pendingOP[r] \in Seq(Ops) /\ pendingOP'[r] = pendingOP[r]
      BY <1>3, <2>2 DEF QueueTypes
    <3>2. \A i \in DOMAIN pendingOP[r] : i + 0 = i
      <4>1. DOMAIN pendingOP[r] = 1..Len(pendingOP[r]) /\ Len(pendingOP[r]) \in Nat
        BY <3>1, SeqDomain
      <4> QED
        BY <4>1, SMT
    <3>3. \A i \in DOMAIN pendingOP'[r] : \A h \in Handles :
            Pends(r, i, h)' => i + 0 \in DOMAIN pendingOP[r] /\ Pends(r, i + 0, h)
      BY <3>1, <3>2 DEF Pends
    <3> QED
      BY <3>3
  <2> QED
    BY <2>1, <2>2
<1> QED
  BY <1>2, <1>3, <1>4 DEF QueueTypes

(* Awaiting is kept by an operation that queues no registration.           *)
LEMMA OldAwaited ==
  ASSUME Awaiting, QueueTypes', OnlyOldOps, PendingUnversioned, subscribed' = subscribed
  PROVE  Awaiting'
<1> SUFFICES ASSUME NEW s \in Slots, NEW i \in DOMAIN pendingOP'[s], NEW h \in Handles,
                    Pends(s, i, h)'
             PROVE  /\ h \in subscribed /\ version'[h] = Nil
                    /\ \A r \in Slots : \A j \in DOMAIN pendingOP'[r] :
                         Pends(r, j, h)' => s = r /\ i = j
  BY DEF Awaiting
<1>1. PICK d \in {0, 1} : \A k \in DOMAIN pendingOP'[s] : \A g \in Handles :
        Pends(s, k, g)' => k + d \in DOMAIN pendingOP[s] /\ Pends(s, k + d, g)
  BY DEF OnlyOldOps
<1>2. i + d \in DOMAIN pendingOP[s] /\ Pends(s, i + d, h)
  BY <1>1
<1>3. h \in subscribed /\ version'[h] = Nil
  BY <1>2 DEF Awaiting, PendingUnversioned
<1>4. ASSUME NEW r \in Slots, NEW j \in DOMAIN pendingOP'[r], Pends(r, j, h)'
      PROVE  s = r /\ i = j
  <2>1. \E e \in {0, 1} : j + e \in DOMAIN pendingOP[r] /\ Pends(r, j + e, h)
    BY <1>4 DEF OnlyOldOps
  <2>2. s = r
    BY <1>2, <2>1 DEF Awaiting
  <2>3. j + d \in DOMAIN pendingOP[s] /\ Pends(s, j + d, h)
    BY <1>1, <1>4, <2>2
  <2>4. i + d = j + d
    BY <1>2, <2>3 DEF Awaiting
  <2>5. DOMAIN pendingOP'[s] = 1..Len(pendingOP'[s]) /\ Len(pendingOP'[s]) \in Nat
    <3>1. pendingOP'[s] \in Seq(Ops)
      BY DEF QueueTypes
    <3> QED
      BY <3>1, SeqDomain
  <2> QED
    BY <2>2, <2>4, <2>5, SMT
<1> QED
  BY <1>3, <1>4

(* So it is when moreover no handle gets a version.                        *)
LEMMA AwaitedKept ==
  ASSUME Awaiting, QueueTypes', OnlyOldOps, subscribed' = subscribed,
         \A h \in Handles : version[h] = Nil => version'[h] = Nil
  PROVE  Awaiting'
<1>1. PendingUnversioned
  <2> SUFFICES ASSUME NEW r \in Slots, NEW i \in DOMAIN pendingOP'[r], NEW k \in Handles,
                      Pends(r, i, k)'
               PROVE  version'[k] = Nil
    BY DEF PendingUnversioned
  <2>1. \E d \in {0, 1} : i + d \in DOMAIN pendingOP[r] /\ Pends(r, i + d, k)
    BY DEF OnlyOldOps
  <2>2. version[k] = Nil
    BY <2>1 DEF Awaiting
  <2> QED
    BY <2>2
<1> QED
  BY <1>1, OldAwaited

(* A slot that starts to emit goes onto the stack of its emitter.          *)
LEMMA StackPush ==
  ASSUME Stacked, stack \in [Goroutines -> Seq(Slots)], NEW t \in Goroutines, NEW s \in Slots,
         s \notin emiting, emiting' = emiting \cup {s},
         stack' = [stack EXCEPT ![t] = Append(@, s)]
  PROVE  stack' \in [Goroutines -> Seq(Slots)] /\ Stacked'
<1> DEFINE n == Len(stack[t]) + 1
<1>1. /\ stack' \in [Goroutines -> Seq(Slots)]
      /\ \A u \in Goroutines : u # t => stack'[u] = stack[u]
      /\ stack'[t] = Append(stack[t], s) /\ stack[t] \in Seq(Slots)
  BY SMT
<1>2. \A i \in DOMAIN stack'[t] :
        \/ i \in DOMAIN stack[t] /\ stack'[t][i] = stack[t][i]
        \/ i = n /\ stack'[t][i] = s
  BY <1>1, SMT
<1> HIDE DEF n
<1>3. \A u \in Goroutines : \A i \in DOMAIN stack'[u] :
        \/ i \in DOMAIN stack[u] /\ stack'[u][i] = stack[u][i] /\ stack[u][i] \in emiting
        \/ u = t /\ i = n /\ stack'[u][i] = s
  BY <1>1, <1>2 DEF Stacked
<1>4. Stacked'
  <2> SUFFICES ASSUME NEW u \in Goroutines, NEW i \in DOMAIN stack'[u]
               PROVE  /\ stack'[u][i] \in emiting'
                      /\ \A v \in Goroutines : \A j \in DOMAIN stack'[v] :
                           stack'[u][i] = stack'[v][j] => u = v /\ i = j
    BY DEF Stacked
  <2>1. stack'[u][i] \in emiting'
    BY <1>3
  <2>2. ASSUME NEW v \in Goroutines, NEW j \in DOMAIN stack'[v], stack'[u][i] = stack'[v][j]
        PROVE  u = v /\ i = j
    <3>1. CASE stack'[u][i] = s
      BY <1>3, <2>2, <3>1, SMT
    <3>2. CASE stack'[u][i] # s
      <4>1. /\ i \in DOMAIN stack[u] /\ stack'[u][i] = stack[u][i]
            /\ j \in DOMAIN stack[v] /\ stack'[v][j] = stack[v][j]
        BY <1>3, <2>2, <3>2
      <4> QED
        BY <2>2, <4>1, SMT DEF Stacked
    <3> QED
      BY <3>1, <3>2
  <2> QED
    BY <2>1, <2>2
<1> QED
  BY <1>1, <1>4

(* A slot that has stopped leaves the stack of its emitter.                *)
LEMMA StackPop ==
  ASSUME Stacked, stack \in [Goroutines -> Seq(Slots)], NEW t \in Goroutines, stack[t] # <<>>,
         emiting' = emiting \ {Last(stack[t])}, stack' = [stack EXCEPT ![t] = Front(@)]
  PROVE  stack' \in [Goroutines -> Seq(Slots)] /\ Stacked'
<1> DEFINE q == stack[t]
           f == Front(q)
<1>1. q \in Seq(Slots) /\ q # <<>> /\ stack' = [stack EXCEPT ![t] = f]
  BY DEF f
<1>2. /\ f \in Seq(Slots)
      /\ Len(q) \in DOMAIN q /\ Last(q) = q[Len(q)]
      /\ \A i \in DOMAIN f : i \in DOMAIN q /\ i # Len(q) /\ f[i] = q[i]
  <2> HIDE DEF q
  <2> QED
    BY <1>1, Fronted
<1> HIDE DEF f
<1>3. /\ stack' \in [Goroutines -> Seq(Slots)] /\ stack'[t] = f
      /\ \A u \in Goroutines : u # t => stack'[u] = stack[u]
  BY <1>1, <1>2, SMT
<1>4. \A u \in Goroutines : \A i \in DOMAIN stack'[u] :
        /\ i \in DOMAIN stack[u] /\ stack'[u][i] = stack[u][i]
        /\ stack[u][i] \in emiting'
  <2> SUFFICES ASSUME NEW u \in Goroutines, NEW i \in DOMAIN stack'[u]
               PROVE  /\ i \in DOMAIN stack[u] /\ stack'[u][i] = stack[u][i]
                      /\ stack[u][i] \in emiting'
    OBVIOUS
  <2>1. i \in DOMAIN stack[u] /\ stack'[u][i] = stack[u][i] /\ ~(u = t /\ i = Len(q))
    BY <1>2, <1>3
  <2>2. stack[u][i] \in emiting /\ stack[u][i] # Last(q)
    BY <1>2, <2>1 DEF Stacked
  <2> QED
    BY <2>1, <2>2
<1>5. Stacked'
  <2> SUFFICES ASSUME NEW u \in Goroutines, NEW i \in DOMAIN stack'[u]
               PROVE  /\ stack'[u][i] \in emiting'
                      /\ \A v \in Goroutines : \A j \in DOMAIN stack'[v] :
                           stack'[u][i] = stack'[v][j] => u = v /\ i = j
    BY DEF Stacked
  <2> QED
    BY <1>4, SMT DEF Stacked
<1> QED
  BY <1>3, <1>5

-----------------------------------------------------------------------------
(* The steps.                                                              *)

(* A slot that emits has been made, and is not Nil.                        *)
LEMMA SlotsNotNil == \A s \in Slots : s # Nil /\ \A h \in Handles : h # Nil
  BY EventHandlerAssumption

(* The calls the goroutines are in stay well formed when one returns.      *)
LEMMA CallsKept ==
  ASSUME CallTypes, made \subseteq made',
         call' = call \/ \E t \in Goroutines : call' = [call EXCEPT ![t] = Nil]
  PROVE  CallTypes'
<1>1. call' = [t \in Goroutines |-> call'[t]] /\ \A t \in Goroutines : call'[t] \in {call[t], Nil}
  <2>1. call = [t \in Goroutines |-> call[t]]
    BY DEF CallTypes
  <2>2. CASE call' = call
    BY <2>1, <2>2
  <2>3. ASSUME NEW t \in Goroutines, call' = [call EXCEPT ![t] = Nil]
        PROVE  /\ call' = [u \in Goroutines |-> call'[u]]
               /\ \A u \in Goroutines : call'[u] \in {call[u], Nil}
    BY <2>1, <2>3, SMT
  <2> QED
    BY <2>2, <2>3
<1>2. ASSUME NEW t \in Goroutines
      PROVE  \/ call'[t] = Nil
             \/ \E s \in made' : call'[t] = <<"emit", s>>
             \/ \E s \in made', h \in Handles : call'[t] = <<"remove", s, h>>
  <2>1. CASE call'[t] = Nil
    BY <2>1
  <2>2. CASE call'[t] = call[t] /\ \E s \in made : call[t] = <<"emit", s>>
    BY <2>2
  <2>3. CASE call'[t] = call[t] /\ \E s \in made, h \in Handles : call[t] = <<"remove", s, h>>
    BY <2>3
  <2> QED
    BY <1>1, <2>1, <2>2, <2>3 DEF CallTypes
<1> QED
  BY <1>1, <1>2 DEF CallTypes

(* The stacks stay as they are.                                            *)
LEMMA StackedKept ==
  ASSUME Stacked, stack' = stack, emiting' = emiting
  PROVE  Stacked'
<1> SUFFICES ASSUME NEW t \in Goroutines, NEW i \in DOMAIN stack[t]
             PROVE  /\ stack[t][i] \in emiting
                    /\ \A u \in Goroutines : \A j \in DOMAIN stack[u] :
                         stack[t][i] = stack[u][j] => t = u /\ i = j
  BY SMT DEF Stacked
<1> QED
  BY DEF Stacked

(* The lists stay as they are.                                             *)
LEMMA LinkedKept ==
  ASSUME ListTypes, Linked, l' = l, version' = version
  PROVE  ListTypes' /\ Linked' /\ \A h \in Handles : OnlyVersionOf(h)
<1>1. ListTypes'
  BY DEF ListTypes
<1>2. Linked'
  BY DEF Linked
<1> QED
  BY <1>1, <1>2 DEF OnlyVersionOf

(* The emitters stay where they are.                                       *)
LEMMA AtHandleKept ==
  ASSUME AtHandle, cur' = cur, emiting' = emiting, holder' = holder,
         \A s \in Slots : cur[s] # Nil => version'[cur[s]] = version[cur[s]]
  PROVE  AtHandle'
  BY DEF AtHandle

(* A queue that stays as it is holds no new registration.                  *)
LEMMA SameOps ==
  ASSUME QueueTypes, pendingOP' = pendingOP
  PROVE  OnlyOldOps
<1> SUFFICES ASSUME NEW r \in Slots
             PROVE  \A i \in DOMAIN pendingOP[r] : \A h \in Handles :
                      Pends(r, i, h)' => i + 0 \in DOMAIN pendingOP[r] /\ Pends(r, i + 0, h)
  BY DEF OnlyOldOps
<1>1. DOMAIN pendingOP[r] = 1..Len(pendingOP[r]) /\ Len(pendingOP[r]) \in Nat
  BY SeqDomain DEF QueueTypes
<1>2. \A i \in DOMAIN pendingOP[r] : i + 0 = i
  BY <1>1, SMT
<1> QED
  BY <1>2 DEF Pends

(* The queues stay as they are.                                            *)
LEMMA QueuesKept ==
  ASSUME QueueTypes, Awaiting, NothingLeftQueued, pendingOP' = pendingOP, emiting' = emiting,
         subscribed' = subscribed, \A h \in Handles : version[h] = Nil => version'[h] = Nil
  PROVE  QueueTypes' /\ Awaiting' /\ NothingLeftQueued'
<1>1. QueueTypes'
  BY DEF QueueTypes
<1>2. NothingLeftQueued'
  BY DEF NothingLeftQueued
<1>3. Awaiting'
  <2>1. PendingUnversioned
    BY DEF PendingUnversioned, Awaiting, Pends
  <2> QED
    BY <1>1, <2>1, SameOps, OldAwaited
<1> QED
  BY <1>1, <1>2, <1>3

(* CalledOnce is kept by a step that calls no handler and queues no        *)
(* registration, and after which a handle has the version it had, or none. *)
LEMMA CalledOnceKept ==
  ASSUME CalledOnce, RestTypes, once' = once, called' = called, OnlyOldOps,
         \A h \in once : version'[h] # Nil /\ called[h] = 1 =>
           version'[h] = version[h] /\ cur'[version[h]] = cur[version[h]]
  PROVE  CalledOnce'
<1> SUFFICES ASSUME NEW h \in once
             PROVE  /\ called[h] <= 1
                    /\ called[h] = 1 =>
                         /\ version'[h] # Nil => cur'[version'[h]] = h
                         /\ \A s \in Slots : \A i \in DOMAIN pendingOP'[s] : ~(Pends(s, i, h)')
  BY DEF CalledOnce
<1>1. called[h] <= 1 /\ h \in Handles
  BY DEF CalledOnce, RestTypes
<1>2. called[h] = 1 /\ version'[h] # Nil => cur'[version'[h]] = h
  BY DEF CalledOnce
<1>3. ASSUME called[h] = 1, NEW s \in Slots, NEW i \in DOMAIN pendingOP'[s], Pends(s, i, h)'
      PROVE  FALSE
  <2>1. \E d \in {0, 1} : i + d \in DOMAIN pendingOP[s] /\ Pends(s, i + d, h)
    BY <1>1, <1>3 DEF OnlyOldOps
  <2> QED
    BY <1>3, <2>1 DEF CalledOnce
<1> QED
  BY <1>1, <1>2, <1>3

(* register keeps the invariant.                                           *)
LEMMA RegisterStep ==
  ASSUME EInv, NEW t \in Goroutines, NEW h \in Handles, Register(t, h)
  PROVE  EInv'
<1> DEFINE s == IF slot = Nil THEN CHOOSE x \in Slots \ made : TRUE ELSE slot
<1>0. /\ ListTypes /\ QueueTypes /\ RestTypes /\ CallTypes /\ Linked /\ AtHandle /\ Stacked
      /\ NothingLeftQueued /\ Fresh /\ Awaiting /\ CalledOnce
  BY TypeParts DEF EInv
<1>1. s \in Slots
  <2>1. CASE slot = Nil
    <3>1. made # Slots /\ made \subseteq Slots
      BY <1>0, <2>1 DEF Register, RestTypes
    <3>2. \E x : x \in Slots \ made
      BY <3>1
    <3> QED
      BY <2>1, <3>2
  <2>2. CASE slot # Nil
    BY <1>0, <2>2 DEF RestTypes
  <2> QED
    BY <2>1, <2>2
<1>2. /\ h \notin subscribed /\ subscribed' = subscribed \cup {h}
      /\ slot' = s /\ made' = made \cup {s}
      /\ s \in emiting => push(s, <<"register", h>>) /\ version' = version /\ l' = l
      /\ s \notin emiting => doRegister(s, h) /\ pendingOP' = pendingOP
      /\ once' = once /\ emiting' = emiting /\ cur' = cur /\ holder' = holder /\ call' = call
      /\ stack' = stack /\ emits' = emits /\ removes' = removes /\ called' = called
  BY DEF Register
<1> HIDE DEF s
<1>3. version[h] = Nil /\ called[h] = 0
  BY <1>0, <1>2 DEF Fresh
<1>4. /\ ListTypes' /\ Linked' /\ OnlyVersionOf(h)
      /\ version'[h] = IF s \in emiting THEN Nil ELSE s
  <2>1. CASE s \in emiting
    BY <1>0, <1>2, <1>3, <2>1 DEF ListTypes, Linked, OnlyVersionOf
  <2>2. CASE s \notin emiting
    BY <1>0, <1>1, <1>2, <1>3, <2>2, RegisterLinks
  <2> QED
    BY <2>1, <2>2
<1>5. /\ QueueTypes'
      /\ \A r \in Slots : r # s => pendingOP'[r] = pendingOP[r]
      /\ \A r \in Slots : \A i \in DOMAIN pendingOP'[r] :
           \/ i \in DOMAIN pendingOP[r] /\ pendingOP'[r][i] = pendingOP[r][i]
           \/ /\ r = s /\ s \in emiting /\ i = Len(pendingOP[s]) + 1
              /\ pendingOP'[r][i] = <<"register", h>>
  <2>1. CASE s \in emiting
    <3>1. <<"register", h>> \in Ops
      BY SMT DEF Ops
    <3>2. /\ QueueTypes'
          /\ \A r \in Slots : r # s => pendingOP'[r] = pendingOP[r]
          /\ \A i \in DOMAIN pendingOP'[s] :
               \/ i \in DOMAIN pendingOP[s] /\ pendingOP'[s][i] = pendingOP[s][i]
               \/ i = Len(pendingOP[s]) + 1 /\ pendingOP'[s][i] = <<"register", h>>
      BY <1>0, <1>1, <1>2, <2>1, <3>1, PushDoes
    <3> QED
      BY <2>1, <3>2
  <2>2. CASE s \notin emiting
    BY <1>0, <1>2, <2>2 DEF QueueTypes
  <2> QED
    BY <2>1, <2>2
<1>6. \A r \in Slots : \A i \in DOMAIN pendingOP'[r] : \A k \in Handles : Pends(r, i, k)' =>
        \/ k # h /\ i \in DOMAIN pendingOP[r] /\ Pends(r, i, k)
        \/ k = h /\ r = s /\ s \in emiting /\ i = Len(pendingOP[s]) + 1
  <2> SUFFICES ASSUME NEW r \in Slots, NEW i \in DOMAIN pendingOP'[r], NEW k \in Handles,
                      Pends(r, i, k)'
               PROVE  \/ k # h /\ i \in DOMAIN pendingOP[r] /\ Pends(r, i, k)
                      \/ k = h /\ r = s /\ s \in emiting /\ i = Len(pendingOP[s]) + 1
    OBVIOUS
  <2>1. CASE i \in DOMAIN pendingOP[r] /\ pendingOP'[r][i] = pendingOP[r][i]
    <3>1. Pends(r, i, k)
      BY <2>1 DEF Pends
    <3>2. k # h
      BY <1>0, <1>2, <2>1, <3>1 DEF Awaiting
    <3> QED
      BY <2>1, <3>1, <3>2
  <2>2. CASE /\ r = s /\ s \in emiting /\ i = Len(pendingOP[s]) + 1
             /\ pendingOP'[r][i] = <<"register", h>>
    <3>1. k = h
      BY <2>2, SMT DEF Pends
    <3> QED
      BY <2>2, <3>1
  <2> QED
    BY <1>5, <2>1, <2>2
<1>7. EventTypeOK' /\ CallTypes' /\ Stacked'
  <2>1. RestTypes'
    BY <1>0, <1>1, <1>2 DEF RestTypes
  <2>2. EventTypeOK'
    BY <1>4, <1>5, <2>1 DEF EventTypeOK, ListTypes, QueueTypes, RestTypes
  <2>3. CallTypes'
    BY <1>0, <1>2, CallsKept
  <2>4. Stacked'
    BY <1>0, <1>2, StackedKept
  <2> QED
    BY <2>2, <2>3, <2>4
<1>8. AtHandle'
  <2> SUFFICES ASSUME NEW r \in Slots, cur[r] # Nil
               PROVE  version'[cur[r]] = r
    BY <1>0, <1>2 DEF AtHandle
  <2>1. cur[r] \in Handles /\ version[cur[r]] = r /\ r # Nil
    BY <1>0, SlotsNotNil DEF AtHandle, RestTypes
  <2> QED
    BY <1>3, <1>4, <2>1 DEF OnlyVersionOf
<1>9. NothingLeftQueued'
  BY <1>0, <1>2, <1>5 DEF NothingLeftQueued
<1>10. Fresh'
  BY <1>0, <1>2, <1>4 DEF Fresh, OnlyVersionOf
<1>11. Awaiting'
  <2> SUFFICES ASSUME NEW r \in Slots, NEW i \in DOMAIN pendingOP'[r], NEW k \in Handles,
                      Pends(r, i, k)'
               PROVE  /\ k \in subscribed' /\ version'[k] = Nil
                      /\ \A q \in Slots : \A j \in DOMAIN pendingOP'[q] :
                           Pends(q, j, k)' => r = q /\ i = j
    BY DEF Awaiting
  <2>1. CASE k = h
    BY <1>2, <1>4, <1>6, <2>1
  <2>2. CASE k # h
    <3>1. i \in DOMAIN pendingOP[r] /\ Pends(r, i, k)
      BY <1>6, <2>2
    <3>2. k \in subscribed /\ version[k] = Nil
      BY <1>0, <3>1 DEF Awaiting
    <3>3. \A q \in Slots : \A j \in DOMAIN pendingOP'[q] : Pends(q, j, k)' => r = q /\ i = j
      BY <1>0, <1>6, <2>2, <3>1 DEF Awaiting
    <3> QED
      BY <1>2, <1>4, <2>2, <3>2, <3>3 DEF OnlyVersionOf
  <2> QED
    BY <2>1, <2>2
<1>12. CalledOnce'
  <2> SUFFICES ASSUME NEW k \in once
               PROVE  /\ called[k] <= 1
                      /\ called[k] = 1 =>
                           /\ version'[k] # Nil => cur[version'[k]] = k
                           /\ \A r \in Slots : \A i \in DOMAIN pendingOP'[r] : ~(Pends(r, i, k)')
    BY <1>2 DEF CalledOnce
  <2>1. called[k] <= 1 /\ k \in Handles
    BY <1>0 DEF CalledOnce, RestTypes
  <2>2. SUFFICES ASSUME called[k] = 1
                 PROVE  /\ version'[k] # Nil => cur[version'[k]] = k
                        /\ \A r \in Slots : \A i \in DOMAIN pendingOP'[r] : ~(Pends(r, i, k)')
    BY <2>1
  <2>3. k # h
    <3>1. 0 # 1
      BY SMT
    <3> QED
      BY <1>3, <2>2, <3>1
  <2>4. version'[k] = version[k]
    BY <1>4, <2>1, <2>3 DEF OnlyVersionOf
  <2> QED
    BY <1>0, <1>6, <2>1, <2>2, <2>3, <2>4 DEF CalledOnce
<1> QED
  BY <1>4, <1>7, <1>8, <1>9, <1>10, <1>11, <1>12 DEF EInv

(* Clear, and the reads of Remove and Emit, keep the invariant.            *)
LEMMA LookStep ==
  ASSUME EInv, NEW t \in Goroutines,
         Clear(t) \/ Emit(t) \/ \E h \in Handles : RemoveLook(t, h)
  PROVE  EInv'
<1>0. /\ ListTypes /\ QueueTypes /\ RestTypes /\ CallTypes /\ Linked /\ AtHandle /\ Stacked
      /\ NothingLeftQueued /\ Fresh /\ Awaiting /\ CalledOnce
  BY TypeParts DEF EInv
<1>1. /\ once' = once /\ made' = made /\ version' = version /\ l' = l /\ emiting' = emiting
      /\ pendingOP' = pendingOP /\ cur' = cur /\ holder' = holder /\ stack' = stack
      /\ subscribed' = subscribed /\ called' = called
  BY DEF Clear, Emit, RemoveLook
<1>2. slot' = slot \/ slot' = Nil
  BY DEF Clear, Emit, RemoveLook
<1>3. emits' \in 0..MaxEmits /\ removes' \in 0..MaxRemoves
  <2>1. /\ emits' = emits \/ (emits < MaxEmits /\ emits' = emits + 1)
        /\ removes' = removes \/ (removes < MaxRemoves /\ removes' = removes + 1)
    BY DEF Clear, Emit, RemoveLook
  <2>2. emits \in 0..MaxEmits /\ removes \in 0..MaxRemoves
    BY <1>0 DEF RestTypes
  <2> QED
    BY <2>1, <2>2, EventHandlerAssumption, SMT
<1>4. RestTypes'
  BY <1>0, <1>1, <1>2, <1>3 DEF RestTypes
<1>5. EventTypeOK'
  BY <1>0, <1>1, <1>4 DEF EventTypeOK, ListTypes, QueueTypes, RestTypes
<1>6. CallTypes'
  <2>0. call = [u \in Goroutines |-> call[u]]
    BY <1>0 DEF CallTypes
  <2>6. call' = [u \in Goroutines |-> call'[u]]
    <3>1. call' = call \/ \E x : call' = [call EXCEPT ![t] = x]
      BY DEF Clear, Emit, RemoveLook
    <3>2. ASSUME NEW x, call' = [call EXCEPT ![t] = x]
          PROVE  call' = [u \in Goroutines |-> call'[u]]
      BY <2>0, <3>2, SMT
    <3> QED
      BY <2>0, <3>1, <3>2
  <2> SUFFICES ASSUME NEW u \in Goroutines
               PROVE  \/ call'[u] = Nil
                      \/ \E s \in made : call'[u] = <<"emit", s>>
                      \/ \E s \in made, h \in Handles : call'[u] = <<"remove", s, h>>
    BY <1>1, <2>6 DEF CallTypes
  <2>1. \/ call[u] = Nil
        \/ \E s \in made : call[u] = <<"emit", s>>
        \/ \E s \in made, h \in Handles : call[u] = <<"remove", s, h>>
    BY <1>0 DEF CallTypes
  <2>2. slot # Nil => slot \in made
    BY <1>0 DEF RestTypes
  <2>3. CASE Clear(t)
    BY <2>1, <2>3 DEF Clear
  <2>4. CASE Emit(t)
    <3>1. slot \in made /\ call' = [call EXCEPT ![t] = <<"emit", slot>>]
      BY <2>2, <2>4 DEF Emit
    <3>2. call'[u] = call[u] \/ call'[u] = <<"emit", slot>>
      BY <2>0, <3>1, SMT
    <3> QED
      BY <2>1, <3>1, <3>2
  <2>5. CASE \E h \in Handles : RemoveLook(t, h)
    <3>1. PICK h \in Handles : RemoveLook(t, h)
      BY <2>5
    <3>2. slot \in made /\ call' = [call EXCEPT ![t] = <<"remove", slot, h>>]
      BY <2>2, <3>1 DEF RemoveLook
    <3>3. call'[u] = call[u] \/ call'[u] = <<"remove", slot, h>>
      BY <2>0, <3>2, SMT
    <3> QED
      BY <2>1, <3>2, <3>3
  <2> QED
    BY <2>3, <2>4, <2>5
<1>7. Linked'
  BY <1>0, <1>1, LinkedKept
<1>8. AtHandle'
  BY <1>0, <1>1, AtHandleKept
<1>9. Stacked'
  BY <1>0, <1>1, StackedKept
<1>10. Awaiting' /\ NothingLeftQueued'
  BY <1>0, <1>1, QueuesKept
<1>11. Fresh'
  BY <1>0, <1>1 DEF Fresh
<1>12. CalledOnce'
  BY <1>0, <1>1, SameOps, CalledOnceKept
<1> QED
  BY <1>5, <1>6, <1>7, <1>8, <1>9, <1>10, <1>11, <1>12 DEF EInv

(* After doRemove of s a handle has the version it had, or none.           *)
LEMMA RemoveVersions ==
  ASSUME ListTypes, Linked, NEW s \in Slots, NEW h \in Handles, doRemove(s, h)
  PROVE  /\ \A k \in Handles : version'[k] # Nil => version'[k] = version[k]
         /\ \A k \in Handles : version[k] = Nil => version'[k] = Nil
         /\ \A k \in Handles : version[k] # s => version'[k] = version[k]
<1>1. /\ \A k \in Handles : k # h => version'[k] = version[k]
      /\ version'[h] = IF version[h] = s THEN Nil ELSE version[h]
  BY RemoveLinks DEF OnlyVersionOf
<1> QED
  BY <1>1

(* handlerSlot.remove keeps the invariant.                                 *)
LEMMA RemoveStep ==
  ASSUME EInv, NEW t \in Goroutines, remove(t)
  PROVE  EInv'
<1>0. /\ ListTypes /\ QueueTypes /\ RestTypes /\ CallTypes /\ Linked /\ AtHandle /\ Stacked
      /\ NothingLeftQueued /\ Fresh /\ Awaiting /\ CalledOnce
  BY TypeParts DEF EInv
<1> DEFINE s == call[t][2]
           h == call[t][3]
<1>1. s \in Slots /\ h \in Handles
  <2>1. call[t] # Nil /\ call[t][1] = "remove"
    BY DEF remove
  <2>2. ~ \E r \in made : call[t] = <<"emit", r>>
    BY <2>1, SMT
  <2>3. PICK r \in made, k \in Handles : call[t] = <<"remove", r, k>>
    BY <1>0, <2>1, <2>2 DEF CallTypes
  <2>4. s = r /\ h = k
    BY <2>3, SMT
  <2> QED
    BY <1>0, <2>4 DEF RestTypes
<1>2. /\ call' = [call EXCEPT ![t] = Nil]
      /\ s \in emiting => push(s, <<"delete", h>>) /\ version' = version /\ l' = l
      /\ s \notin emiting => doRemove(s, h) /\ pendingOP' = pendingOP
      /\ once' = once /\ slot' = slot /\ made' = made /\ emiting' = emiting /\ cur' = cur
      /\ holder' = holder /\ stack' = stack /\ subscribed' = subscribed /\ emits' = emits
      /\ removes' = removes /\ called' = called
  BY DEF remove
<1> HIDE DEF s, h
<1>3. /\ ListTypes' /\ Linked'
      /\ \A k \in Handles : version'[k] # Nil => version'[k] = version[k]
      /\ \A k \in Handles : version[k] = Nil => version'[k] = Nil
      /\ \A r \in Slots : cur[r] # Nil => version'[cur[r]] = version[cur[r]]
  <2>1. CASE s \in emiting
    <3>1. version' = version /\ l' = l
      BY <1>2, <2>1
    <3> QED
      BY <1>0, <3>1, LinkedKept
  <2>2. CASE s \notin emiting
    <3>1. doRemove(s, h)
      BY <1>2, <2>2
    <3>2. ListTypes' /\ Linked'
      BY <1>0, <1>1, <3>1, RemoveLinks
    <3>3. /\ \A k \in Handles : version'[k] # Nil => version'[k] = version[k]
          /\ \A k \in Handles : version[k] = Nil => version'[k] = Nil
          /\ \A k \in Handles : version[k] # s => version'[k] = version[k]
      BY <1>0, <1>1, <3>1, RemoveVersions
    <3>4. ASSUME NEW r \in Slots, cur[r] # Nil
          PROVE  version'[cur[r]] = version[cur[r]]
      <4>1. cur[r] \in Handles /\ version[cur[r]] = r /\ r \in emiting
        BY <1>0, <3>4 DEF AtHandle, RestTypes
      <4> QED
        BY <2>2, <3>3, <4>1
    <3> QED
      BY <3>2, <3>3, <3>4
  <2> QED
    BY <2>1, <2>2
<1>4. /\ QueueTypes' /\ OnlyOldOps
      /\ \A r \in Slots : r # s => pendingOP'[r] = pendingOP[r]
      /\ s \notin emiting => pendingOP' = pendingOP
  <2>1. CASE s \in emiting
    <3>1. <<"delete", h>> \in Ops /\ <<"delete", h>>[1] # "register"
      BY <1>1, SMT DEF Ops
    <3>2. push(s, <<"delete", h>>)
      BY <1>2, <2>1
    <3>3. OnlyOldOps
      BY <1>0, <1>1, <3>1, <3>2, PushKeeps
    <3>4. QueueTypes' /\ \A r \in Slots : r # s => pendingOP'[r] = pendingOP[r]
      BY <1>0, <1>1, <3>1, <3>2, PushDoes
    <3> QED
      BY <2>1, <3>3, <3>4
  <2>2. CASE s \notin emiting
    <3>1. pendingOP' = pendingOP
      BY <1>2, <2>2
    <3> QED
      BY <1>0, <3>1, SameOps DEF QueueTypes
  <2> QED
    BY <2>1, <2>2
<1>5. EventTypeOK'
  BY <1>0, <1>2, <1>3, <1>4 DEF EventTypeOK, ListTypes, QueueTypes, RestTypes
<1>6. CallTypes'
  BY <1>0, <1>2, CallsKept
<1>7. AtHandle'
  BY <1>0, <1>2, <1>3, AtHandleKept
<1>8. Stacked'
  BY <1>0, <1>2, StackedKept
<1>9. NothingLeftQueued'
  BY <1>0, <1>2, <1>4 DEF NothingLeftQueued
<1>10. Fresh'
  BY <1>0, <1>2, <1>3 DEF Fresh
<1>11. Awaiting'
  BY <1>0, <1>2, <1>3, <1>4, AwaitedKept
<1>12. CalledOnce'
  <2>1. \A k \in once : k \in Handles
    BY <1>0 DEF RestTypes
  <2> QED
    BY <1>0, <1>2, <1>3, <1>4, <2>1, CalledOnceKept
<1> QED
  BY <1>3, <1>5, <1>6, <1>7, <1>8, <1>9, <1>10, <1>11, <1>12 DEF EInv

(* handlerSlot.emit keeps the invariant.                                   *)
LEMMA EmitStep ==
  ASSUME EInv, NEW t \in Goroutines, emit(t)
  PROVE  EInv'
<1>0. /\ ListTypes /\ QueueTypes /\ RestTypes /\ CallTypes /\ Linked /\ AtHandle /\ Stacked
      /\ NothingLeftQueued /\ Fresh /\ Awaiting /\ CalledOnce
  BY TypeParts DEF EInv
<1> DEFINE s == call[t][2]
<1>1. s \in made /\ s \in Slots
  <2>1. call[t] # Nil /\ call[t][1] = "emit"
    BY DEF emit
  <2>2. ~ \E r \in made, k \in Handles : call[t] = <<"remove", r, k>>
    BY <2>1, SMT
  <2>3. PICK r \in made : call[t] = <<"emit", r>>
    BY <1>0, <2>1, <2>2 DEF CallTypes
  <2>4. s = r
    BY <2>3, SMT
  <2> QED
    BY <1>0, <2>4 DEF RestTypes
<1>2. /\ holder = Nil
      /\ call' = [call EXCEPT ![t] = Nil]
      /\ push(s, <<"emit">>)
      /\ s \in emiting => emiting' = emiting /\ holder' = holder /\ stack' = stack
      /\ s \notin emiting => /\ emiting' = emiting \cup {s} /\ holder' = s
                             /\ stack' = [stack EXCEPT ![t] = Append(@, s)]
      /\ once' = once /\ slot' = slot /\ made' = made /\ version' = version /\ l' = l /\ cur' = cur
      /\ subscribed' = subscribed /\ emits' = emits /\ removes' = removes /\ called' = called
  BY DEF emit
<1> HIDE DEF s
<1>3. /\ QueueTypes' /\ OnlyOldOps
      /\ \A r \in Slots : r # s => pendingOP'[r] = pendingOP[r]
  <2>1. <<"emit">> \in Ops /\ <<"emit">>[1] # "register"
    BY SMT DEF Ops
  <2>2. OnlyOldOps
    BY <1>0, <1>1, <1>2, <2>1, PushKeeps
  <2>3. QueueTypes' /\ \A r \in Slots : r # s => pendingOP'[r] = pendingOP[r]
    BY <1>0, <1>1, <1>2, <2>1, PushDoes
  <2> QED
    BY <2>2, <2>3
<1>4. stack' \in [Goroutines -> Seq(Slots)] /\ Stacked'
  <2>1. stack \in [Goroutines -> Seq(Slots)]
    BY <1>0 DEF RestTypes
  <2>2. CASE s \in emiting
    BY <1>0, <1>2, <2>1, <2>2, StackedKept
  <2>3. CASE s \notin emiting
    BY <1>0, <1>1, <1>2, <2>1, <2>3, StackPush
  <2> QED
    BY <2>2, <2>3
<1>5. ListTypes' /\ Linked'
  BY <1>0, <1>2, LinkedKept
<1>6. EventTypeOK'
  <2>1. emiting' \subseteq made' /\ holder' \in emiting' \cup {Nil}
    BY <1>0, <1>1, <1>2 DEF RestTypes
  <2> QED
    BY <1>0, <1>2, <1>3, <1>4, <1>5, <2>1 DEF EventTypeOK, ListTypes, QueueTypes, RestTypes
<1>7. CallTypes'
  BY <1>0, <1>2, CallsKept
<1>8. AtHandle'
  <2>1. CASE s \in emiting
    BY <1>0, <1>2, <2>1, AtHandleKept
  <2>2. CASE s \notin emiting
    <3> SUFFICES ASSUME NEW r \in Slots
                 PROVE  /\ cur[r] # Nil <=> r \in emiting \cup {s} /\ s # r
                        /\ cur[r] # Nil => version[cur[r]] = r
      BY <1>2, <2>2 DEF AtHandle
    <3>1. /\ cur[r] # Nil <=> r \in emiting /\ holder # r
          /\ cur[r] # Nil => version[cur[r]] = r
      BY <1>0 DEF AtHandle
    <3>2. holder # r
      BY <1>2, SlotsNotNil
    <3> QED
      BY <2>2, <3>1, <3>2
  <2> QED
    BY <2>1, <2>2
<1>9. NothingLeftQueued'
  BY <1>0, <1>2, <1>3 DEF NothingLeftQueued
<1>10. Fresh'
  BY <1>0, <1>2 DEF Fresh
<1>11. Awaiting'
  BY <1>0, <1>2, <1>3, AwaitedKept
<1>12. CalledOnce'
  BY <1>0, <1>2, <1>3, CalledOnceKept
<1> QED
  BY <1>4, <1>5, <1>6, <1>7, <1>8, <1>9, <1>10, <1>11, <1>12 DEF EInv

(* What an emitter that holds the lock of s finds.                         *)
LEMMA EmittingIs ==
  ASSUME RestTypes, AtHandle, NEW t \in Goroutines, NEW s \in Slots, Emitting(t, s)
  PROVE  holder = s /\ s \in emiting /\ cur[s] = Nil /\ s # Nil
<1>1. holder = s /\ s # Nil
  BY SlotsNotNil DEF Emitting
<1>2. s \in emiting
  BY <1>1 DEF RestTypes
<1> QED
  BY <1>1, <1>2 DEF AtHandle

(* Carrying out a removal or a registration keeps the invariant.           *)
LEMMA PopOtherStep ==
  ASSUME EInv, NEW t \in Goroutines, NEW s \in Slots, PopOther(t, s)
  PROVE  EInv'
<1>0. /\ ListTypes /\ QueueTypes /\ RestTypes /\ CallTypes /\ Linked /\ AtHandle /\ Stacked
      /\ NothingLeftQueued /\ Fresh /\ Awaiting /\ CalledOnce
  BY TypeParts DEF EInv
<1> DEFINE o == Head(pendingOP[s])
           h == o[2]
<1>1. /\ Emitting(t, s) /\ pendingOP[s] # <<>>
      /\ (o[1] = "delete" /\ doRemove(s, h)) \/ (o[1] = "register" /\ doRegister(s, h))
      /\ pendingOP' = [pendingOP EXCEPT ![s] = Tail(@)]
      /\ once' = once /\ slot' = slot /\ made' = made /\ emiting' = emiting /\ cur' = cur
      /\ holder' = holder /\ call' = call /\ stack' = stack /\ subscribed' = subscribed
      /\ emits' = emits /\ removes' = removes /\ called' = called
  BY DEF PopOther
<1>2. holder = s /\ s \in emiting /\ cur[s] = Nil /\ s # Nil
  BY <1>0, <1>1, EmittingIs
<1>3. /\ QueueTypes' /\ OnlyOldOps
      /\ 1 \in DOMAIN pendingOP[s] /\ o = pendingOP[s][1] /\ o \in Ops
      /\ \A r \in Slots : r # s => pendingOP'[r] = pendingOP[r]
      /\ \A i \in DOMAIN pendingOP'[s] :
           i + 1 \in DOMAIN pendingOP[s] /\ i + 1 # 1 /\ pendingOP'[s][i] = pendingOP[s][i + 1]
  BY <1>0, <1>1, PopDoes
<1>4. h \in Handles
  <2>1. o[1] # "emit"
    BY <1>1, SMT
  <2> HIDE DEF o
  <2> QED
    BY <1>3, <2>1, SMT DEF Ops
<1> HIDE DEF o, h
<1>5. o[1] = "register" => /\ Pends(s, 1, h) /\ version[h] = Nil /\ h \in subscribed
                           /\ h \in once => called[h] # 1
  <2> SUFFICES ASSUME o[1] = "register"
               PROVE  /\ Pends(s, 1, h) /\ version[h] = Nil /\ h \in subscribed
                      /\ h \in once => called[h] # 1
    OBVIOUS
  <2>1. Pends(s, 1, h)
    BY <1>3 DEF Pends, h
  <2>2. version[h] = Nil /\ h \in subscribed
    BY <1>0, <1>3, <1>4, <2>1 DEF Awaiting
  <2>3. h \in once => called[h] # 1
    BY <1>0, <1>3, <2>1 DEF CalledOnce
  <2> QED
    BY <2>1, <2>2, <2>3
<1>6. /\ ListTypes' /\ Linked' /\ OnlyVersionOf(h)
      /\ o[1] = "delete" => version'[h] = IF version[h] = s THEN Nil ELSE version[h]
  <2>1. CASE o[1] = "delete" /\ doRemove(s, h)
    BY <1>0, <1>4, <2>1, RemoveLinks
  <2>2. CASE o[1] = "register" /\ doRegister(s, h)
    <3>1. o[1] # "delete"
      BY <2>2, SMT
    <3> QED
      BY <1>0, <1>4, <1>5, <2>2, <3>1, RegisterLinks
  <2> QED
    BY <1>1, <2>1, <2>2
<1>7. EventTypeOK'
  BY <1>0, <1>1, <1>3, <1>6 DEF EventTypeOK, ListTypes, QueueTypes, RestTypes
<1>8. CallTypes'
  BY <1>0, <1>1, CallsKept
<1>9. Stacked'
  BY <1>0, <1>1, StackedKept
<1>10. AtHandle'
  <2>1. ASSUME NEW r \in Slots, cur[r] # Nil
        PROVE  version'[cur[r]] = version[cur[r]]
    <3>1. cur[r] \in Handles /\ version[cur[r]] = r /\ r # s /\ r # Nil
      BY <1>0, <1>2, <2>1, SlotsNotNil DEF AtHandle, RestTypes
    <3> QED
      BY <1>1, <1>5, <1>6, <3>1 DEF OnlyVersionOf
  <2> QED
    BY <1>0, <1>1, <2>1, AtHandleKept
<1>11. NothingLeftQueued'
  BY <1>0, <1>1, <1>2, <1>3 DEF NothingLeftQueued
<1>12. Fresh'
  <2> SUFFICES ASSUME NEW k \in Handles, k \notin subscribed
               PROVE  version'[k] = Nil /\ called[k] = 0
    BY <1>1 DEF Fresh
  <2>1. version[k] = Nil /\ called[k] = 0
    BY <1>0 DEF Fresh
  <2> QED
    BY <1>1, <1>2, <1>5, <1>6, <2>1 DEF OnlyVersionOf
<1>13. PendingUnversioned
  <2> SUFFICES ASSUME NEW r \in Slots, NEW i \in DOMAIN pendingOP'[r], NEW k \in Handles,
                      Pends(r, i, k)'
               PROVE  version'[k] = Nil
    BY DEF PendingUnversioned
  <2>1. \E d \in {0, 1} : i + d \in DOMAIN pendingOP[r] /\ Pends(r, i + d, k)
    BY <1>3 DEF OnlyOldOps
  <2>2. version[k] = Nil
    BY <1>0, <2>1 DEF Awaiting
  <2>3. CASE k # h
    BY <1>6, <2>2, <2>3 DEF OnlyVersionOf
  <2>4. CASE k = h /\ o[1] = "delete"
    BY <1>2, <1>6, <2>2, <2>4
  <2>5. CASE k = h /\ o[1] = "register"
    <3>1. r = s
      BY <1>0, <1>3, <1>4, <1>5, <2>1, <2>5 DEF Awaiting
    <3>2. i + 1 \in DOMAIN pendingOP[s] /\ i + 1 # 1 /\ Pends(s, i + 1, h)
      BY <1>3, <2>5, <3>1 DEF Pends
    <3> QED
      BY <1>0, <1>3, <1>4, <1>5, <2>5, <3>2 DEF Awaiting
  <2> QED
    BY <1>1, <2>3, <2>4, <2>5
<1>14. Awaiting'
  BY <1>0, <1>1, <1>3, <1>13, OldAwaited
<1>15. CalledOnce'
  <2>1. ASSUME NEW k \in once, version'[k] # Nil, called[k] = 1
        PROVE  version'[k] = version[k]
    <3>1. k \in Handles
      BY <1>0 DEF RestTypes
    <3> QED
      BY <1>1, <1>5, <1>6, <2>1, <3>1 DEF OnlyVersionOf
  <2> QED
    BY <1>0, <1>1, <1>3, <2>1, CalledOnceKept
<1> QED
  BY <1>6, <1>7, <1>8, <1>9, <1>10, <1>11, <1>12, <1>14, <1>15 DEF EInv

(* CallHandler leaves the emitter of s at h, a handle of its list.         *)
LEMMA CallAt ==
  ASSUME RestTypes, AtHandle, NEW s \in Slots, NEW h \in Handles, s \in emiting,
         holder = s \/ holder = Nil, CallHandler(s, h), version'[h] = s, emiting' = emiting,
         \A r \in Slots : r # s /\ cur[r] # Nil => version'[cur[r]] = version[cur[r]]
  PROVE  AtHandle' /\ cur' \in [Slots -> Handles \cup {Nil}] /\ holder' = Nil
<1>1. /\ holder' = Nil
      /\ cur' \in [Slots -> Handles \cup {Nil}] /\ cur'[s] = h
      /\ \A r \in Slots : r # s => cur'[r] = cur[r]
  BY SMT DEF CallHandler, RestTypes
<1>2. AtHandle'
  <2> SUFFICES ASSUME NEW r \in Slots
               PROVE  /\ cur'[r] # Nil <=> r \in emiting /\ holder' # r
                      /\ cur'[r] # Nil => version'[cur'[r]] = r
    BY DEF AtHandle
  <2>0. r # Nil /\ h # Nil
    BY SlotsNotNil
  <2>1. CASE r = s
    BY <1>1, <2>0, <2>1
  <2>2. CASE r # s
    <3>1. /\ cur[r] # Nil <=> r \in emiting /\ holder # r
          /\ cur[r] # Nil => version[cur[r]] = r
      BY DEF AtHandle
    <3> QED
      BY <1>1, <2>0, <2>2, <3>1
  <2> QED
    BY <2>1, <2>2
<1> QED
  BY <1>1, <1>2

(* CallHandler calls a handle of RegisterOnce for the first time.          *)
LEMMA CallOnce ==
  ASSUME ListTypes, RestTypes, Fresh, Awaiting, CalledOnce, NEW s \in Slots, NEW h \in Handles,
         version[h] = s, version'[h] = s, cur[s] # h, CallHandler(s, h),
         once' = once, subscribed' = subscribed, OnlyOldOps,
         \A k \in Handles : version[k] = Nil => version'[k] = Nil,
         \A k \in once : k # h /\ version'[k] # Nil => version'[k] = version[k] /\ cur[s] # k
  PROVE  CalledOnce' /\ Fresh' /\ called' \in [Handles -> Nat]
<1>1. /\ called' \in [Handles -> Nat]
      /\ \A k \in Handles : k # h => called'[k] = called[k]
      /\ h \in once => called'[h] = called[h] + 1
      /\ cur'[s] = h
      /\ \A r \in Slots : r # s => cur'[r] = cur[r]
  BY SMT DEF CallHandler, RestTypes
<1>2. s # Nil /\ h \in subscribed
  BY SlotsNotNil DEF Fresh
<1>3. Fresh'
  BY <1>1, <1>2 DEF Fresh
<1>4. ASSUME NEW k \in once
      PROVE  /\ called'[k] <= 1
             /\ called'[k] = 1 => (version'[k] # Nil => cur'[version'[k]] = k)
  <2>1. k \in Handles /\ called[k] <= 1 /\ called[k] \in Nat
    BY DEF RestTypes, CalledOnce
  <2>2. CASE k = h
    <3>1. called[k] # 1
      BY <1>2, <2>2 DEF CalledOnce
    <3>2. called'[k] <= 1
      BY <1>1, <2>1, <2>2, <3>1, SMT
    <3> QED
      BY <1>1, <2>2, <3>2
  <2>3. CASE k # h
    <3>1. called'[k] = called[k]
      BY <1>1, <2>1, <2>3
    <3>2. ASSUME called[k] = 1, version'[k] # Nil
          PROVE  cur'[version'[k]] = k
      <4>1. version'[k] = version[k] /\ cur[s] # k
        BY <2>3, <3>2
      <4>2. cur[version[k]] = k
        BY <3>2, <4>1 DEF CalledOnce
      <4>3. version[k] # s /\ version[k] \in Slots
        BY <3>2, <4>1, <4>2, <2>1 DEF ListTypes
      <4> QED
        BY <1>1, <4>1, <4>2, <4>3
    <3> QED
      BY <2>1, <3>1, <3>2
  <2> QED
    BY <2>2, <2>3
<1>5. ASSUME NEW k \in once, called'[k] = 1, NEW r \in Slots, NEW i \in DOMAIN pendingOP'[r],
             Pends(r, i, k)'
      PROVE  FALSE
  <2>1. k \in Handles
    BY DEF RestTypes
  <2>2. \E d \in {0, 1} : i + d \in DOMAIN pendingOP[r] /\ Pends(r, i + d, k)
    BY <1>5, <2>1 DEF OnlyOldOps
  <2>3. version[k] = Nil
    BY <2>1, <2>2 DEF Awaiting
  <2>4. k # h
    BY <1>2, <2>3
  <2>5. called[k] = 1
    BY <1>1, <1>5, <2>1, <2>4
  <2> QED
    BY <2>2, <2>5 DEF CalledOnce
<1>6. CalledOnce'
  BY <1>4, <1>5 DEF CalledOnce
<1> QED
  BY <1>1, <1>3, <1>6

(* Carrying out an emit keeps the invariant.                               *)
LEMMA PopEmitStep ==
  ASSUME EInv, NEW t \in Goroutines, NEW s \in Slots, PopEmit(t, s)
  PROVE  EInv'
<1>0. /\ ListTypes /\ QueueTypes /\ RestTypes /\ CallTypes /\ Linked /\ AtHandle /\ Stacked
      /\ NothingLeftQueued /\ Fresh /\ Awaiting /\ CalledOnce
  BY TypeParts DEF EInv
<1> DEFINE h == Head(l[s])
<1>1. /\ Emitting(t, s) /\ pendingOP[s] # <<>>
      /\ pendingOP' = [pendingOP EXCEPT ![s] = Tail(@)]
      /\ l[s] = <<>> => cur' = cur /\ holder' = holder /\ called' = called
      /\ l[s] # <<>> => CallHandler(s, h)
      /\ once' = once /\ slot' = slot /\ made' = made /\ version' = version /\ l' = l
      /\ emiting' = emiting /\ call' = call /\ stack' = stack /\ subscribed' = subscribed
      /\ emits' = emits /\ removes' = removes
  BY DEF PopEmit
<1>2. holder = s /\ s \in emiting /\ cur[s] = Nil /\ s # Nil
  BY <1>0, <1>1, EmittingIs
<1>3. /\ QueueTypes' /\ OnlyOldOps
      /\ \A r \in Slots : r # s => pendingOP'[r] = pendingOP[r]
  BY <1>0, <1>1, PopDoes
<1>4. l[s] # <<>> => h \in Handles /\ version[h] = s
  <2> SUFFICES ASSUME l[s] # <<>>
               PROVE  h \in Handles /\ version[h] = s
    OBVIOUS
  <2>1. l[s] \in Seq(Handles)
    BY <1>0 DEF ListTypes
  <2>2. 1 \in DOMAIN l[s] /\ h = l[s][1] /\ h \in Handles
    BY <2>1, Shifted
  <2>3. Contains(l[s], h)
    BY <2>1, <2>2, SeqDomain DEF Contains
  <2> QED
    BY <1>0, <2>2, <2>3 DEF Linked
<1> HIDE DEF h
<1>5. /\ AtHandle' /\ cur' \in [Slots -> Handles \cup {Nil}] /\ holder' \in emiting \cup {Nil}
      /\ CalledOnce' /\ Fresh' /\ called' \in [Handles -> Nat]
  <2>1. CASE l[s] = <<>>
    <3>1. AtHandle'
      BY <1>0, <1>1, <2>1, AtHandleKept
    <3>2. CalledOnce'
      BY <1>0, <1>1, <1>3, <2>1, CalledOnceKept
    <3>3. Fresh'
      BY <1>0, <1>1, <2>1 DEF Fresh
    <3> QED
      BY <1>0, <1>1, <2>1, <3>1, <3>2, <3>3 DEF RestTypes
  <2>2. CASE l[s] # <<>>
    <3>1. CallHandler(s, h) /\ h \in Handles /\ version[h] = s /\ version'[h] = s
      BY <1>1, <1>4, <2>2
    <3>2. AtHandle' /\ cur' \in [Slots -> Handles \cup {Nil}] /\ holder' = Nil
      BY <1>0, <1>1, <1>2, <3>1, CallAt
    <3>3. cur[s] # h /\ \A k \in once : cur[s] # k
      BY <1>0, <1>2, <3>1, SlotsNotNil DEF RestTypes
    <3>4. CalledOnce' /\ Fresh' /\ called' \in [Handles -> Nat]
      BY <1>0, <1>1, <1>3, <3>1, <3>3, CallOnce
    <3> QED
      BY <3>2, <3>4
  <2> QED
    BY <2>1, <2>2
<1>6. EventTypeOK'
  BY <1>0, <1>1, <1>3, <1>5 DEF EventTypeOK, ListTypes, QueueTypes, RestTypes
<1>7. CallTypes'
  BY <1>0, <1>1, CallsKept
<1>8. Stacked'
  BY <1>0, <1>1, StackedKept
<1>9. Linked'
  BY <1>0, <1>1, LinkedKept
<1>10. NothingLeftQueued'
  BY <1>0, <1>1, <1>2, <1>3 DEF NothingLeftQueued
<1>11. Awaiting'
  BY <1>0, <1>1, <1>3, AwaitedKept
<1> QED
  BY <1>5, <1>6, <1>7, <1>8, <1>9, <1>10, <1>11 DEF EInv

(* emit that ends keeps the invariant.                                     *)
LEMMA EmitEndsStep ==
  ASSUME EInv, NEW t \in Goroutines, NEW s \in Slots, EmitEnds(t, s)
  PROVE  EInv'
<1>0. /\ ListTypes /\ QueueTypes /\ RestTypes /\ CallTypes /\ Linked /\ AtHandle /\ Stacked
      /\ NothingLeftQueued /\ Fresh /\ Awaiting /\ CalledOnce
  BY TypeParts DEF EInv
<1>1. /\ Emitting(t, s) /\ pendingOP[s] = <<>> /\ emiting' = emiting \ {s} /\ holder' = Nil
      /\ stack' = [stack EXCEPT ![t] = Front(@)]
      /\ once' = once /\ slot' = slot /\ made' = made /\ version' = version /\ l' = l
      /\ pendingOP' = pendingOP /\ cur' = cur /\ call' = call /\ subscribed' = subscribed
      /\ emits' = emits /\ removes' = removes /\ called' = called
  BY DEF EmitEnds
<1>2. holder = s /\ s \in emiting /\ cur[s] = Nil /\ s # Nil
  BY <1>0, <1>1, EmittingIs
<1>3. stack' \in [Goroutines -> Seq(Slots)] /\ Stacked'
  <2>1. stack \in [Goroutines -> Seq(Slots)] /\ stack[t] # <<>> /\ emiting' = emiting \ {Last(stack[t])}
    BY <1>0, <1>1 DEF RestTypes, Emitting
  <2> QED
    BY <1>0, <1>1, <2>1, StackPop
<1>4. EventTypeOK'
  BY <1>0, <1>1, <1>3 DEF EventTypeOK, ListTypes, QueueTypes, RestTypes
<1>5. CallTypes'
  BY <1>0, <1>1, CallsKept
<1>6. Linked'
  BY <1>0, <1>1, LinkedKept
<1>7. AtHandle'
  <2> SUFFICES ASSUME NEW r \in Slots
               PROVE  /\ cur[r] # Nil <=> r \in emiting \ {s} /\ Nil # r
                      /\ cur[r] # Nil => version[cur[r]] = r
    BY <1>1 DEF AtHandle
  <2>1. /\ cur[r] # Nil <=> r \in emiting /\ holder # r
        /\ cur[r] # Nil => version[cur[r]] = r
    BY <1>0 DEF AtHandle
  <2>2. r # Nil
    BY SlotsNotNil
  <2> QED
    BY <1>2, <2>1, <2>2
<1>8. NothingLeftQueued'
  BY <1>0, <1>1 DEF NothingLeftQueued
<1>9. Fresh'
  BY <1>0, <1>1 DEF Fresh
<1>10. QueueTypes' /\ OnlyOldOps
  BY <1>0, <1>1, SameOps DEF QueueTypes
<1>11. Awaiting'
  BY <1>0, <1>1, <1>10, AwaitedKept
<1>12. CalledOnce'
  BY <1>0, <1>1, <1>10, CalledOnceKept
<1> QED
  BY <1>3, <1>4, <1>5, <1>6, <1>7, <1>8, <1>9, <1>11, <1>12 DEF EInv

(* A callback that returns keeps the invariant.                            *)
LEMMA ReturnsStep ==
  ASSUME EInv, NEW t \in Goroutines, NEW s \in Slots, CallbackReturns(t, s)
  PROVE  EInv'
<1>0. /\ ListTypes /\ QueueTypes /\ RestTypes /\ CallTypes /\ Linked /\ AtHandle /\ Stacked
      /\ NothingLeftQueued /\ Fresh /\ Awaiting /\ CalledOnce
  BY TypeParts DEF EInv
<1> DEFINE c == cur[s]
           n == nnextOf(s, c)
<1>1. /\ holder = Nil /\ stack[t] # <<>> /\ s = Last(stack[t])
      /\ c \in once => doRemove(s, c)
      /\ c \notin once => version' = version /\ l' = l
      /\ n # Nil => CallHandler(s, n)
      /\ n = Nil => cur' = [cur EXCEPT ![s] = Nil] /\ holder' = s /\ called' = called
      /\ once' = once /\ slot' = slot /\ made' = made /\ emiting' = emiting
      /\ pendingOP' = pendingOP /\ call' = call /\ stack' = stack /\ subscribed' = subscribed
      /\ emits' = emits /\ removes' = removes
  BY DEF CallbackReturns, Running
<1>2. s \in emiting /\ s # Nil
  <2>1. stack[t] \in Seq(Slots)
    BY <1>0 DEF RestTypes
  <2>2. Len(stack[t]) \in DOMAIN stack[t] /\ s = stack[t][Len(stack[t])]
    BY <1>1, <2>1, Fronted
  <2> QED
    BY <1>0, <2>2, SlotsNotNil DEF Stacked
<1>3. c \in Handles /\ version[c] = s
  BY <1>0, <1>1, <1>2 DEF AtHandle, RestTypes
<1>4. n # Nil => n \in Handles /\ version[n] = s /\ n # c
  BY <1>0, <1>3, NextIs
<1> HIDE DEF n
<1>5. /\ ListTypes' /\ Linked' /\ OnlyVersionOf(c)
      /\ c \in once => version'[c] = Nil
      /\ c \notin once => version' = version
  <2>1. CASE c \in once
    <3>1. doRemove(s, c)
      BY <1>1, <2>1
    <3> HIDE DEF c
    <3> QED
      BY <1>0, <1>3, <2>1, <3>1, RemoveLinks
  <2>2. CASE c \notin once
    <3>1. version' = version /\ l' = l
      BY <1>1, <2>2
    <3> QED
      BY <1>0, <1>3, <2>2, <3>1, LinkedKept
  <2> QED
    BY <2>1, <2>2
<1>6. QueueTypes' /\ OnlyOldOps
  BY <1>0, <1>1, SameOps DEF QueueTypes
<1>7. /\ \A k \in Handles : version[k] = Nil => version'[k] = Nil
      /\ \A k \in Handles : version'[k] # Nil => version'[k] = version[k]
  BY <1>5 DEF OnlyVersionOf
<1>8. ASSUME NEW r \in Slots, r # s, cur[r] # Nil
      PROVE  version'[cur[r]] = version[cur[r]]
  <2>1. cur[r] \in Handles /\ version[cur[r]] = r
    BY <1>0, <1>8 DEF AtHandle, RestTypes
  <2> QED
    BY <1>3, <1>5, <1>8, <2>1 DEF OnlyVersionOf
<1>9. \A k \in once : version'[k] # Nil => version'[k] = version[k] /\ k # c
  BY <1>0, <1>5, <1>7 DEF RestTypes
<1>10. /\ AtHandle' /\ cur' \in [Slots -> Handles \cup {Nil}] /\ holder' \in emiting \cup {Nil}
       /\ CalledOnce' /\ Fresh' /\ called' \in [Handles -> Nat]
  <2>1. CASE n # Nil
    <3>1. CallHandler(s, n) /\ n \in Handles /\ version[n] = s /\ version'[n] = s /\ cur[s] # n
      BY <1>1, <1>4, <1>5, <2>1 DEF OnlyVersionOf
    <3>2. AtHandle' /\ cur' \in [Slots -> Handles \cup {Nil}] /\ holder' = Nil
      BY <1>0, <1>1, <1>2, <1>8, <3>1, CallAt
    <3>3. CalledOnce' /\ Fresh' /\ called' \in [Handles -> Nat]
      BY <1>0, <1>1, <1>6, <1>7, <1>9, <3>1, CallOnce
    <3> QED
      BY <3>2, <3>3
  <2>2. CASE n = Nil
    <3>1. cur' = [cur EXCEPT ![s] = Nil] /\ holder' = s /\ called' = called
      BY <1>1, <2>2
    <3>2. /\ cur' \in [Slots -> Handles \cup {Nil}] /\ cur'[s] = Nil
          /\ \A r \in Slots : r # s => cur'[r] = cur[r]
      BY <1>0, <3>1, SMT DEF RestTypes
    <3>3. AtHandle'
      <4> SUFFICES ASSUME NEW r \in Slots
                   PROVE  /\ cur'[r] # Nil <=> r \in emiting /\ s # r
                          /\ cur'[r] # Nil => version'[cur'[r]] = r
        BY <1>1, <3>1 DEF AtHandle
      <4>1. CASE r = s
        BY <3>2, <4>1
      <4>2. CASE r # s
        <5>1. /\ cur[r] # Nil <=> r \in emiting /\ holder # r
              /\ cur[r] # Nil => version[cur[r]] = r
              /\ holder # r
          BY <1>0, <1>1, SlotsNotNil DEF AtHandle
        <5> QED
          BY <1>8, <3>2, <4>2, <5>1
      <4> QED
        BY <4>1, <4>2
    <3>4. CalledOnce'
      <4>1. ASSUME NEW k \in once, version'[k] # Nil, called[k] = 1
            PROVE  version'[k] = version[k] /\ cur'[version[k]] = cur[version[k]]
        <5>1. version'[k] = version[k] /\ k # c /\ k \in Handles
          BY <1>0, <1>9, <4>1 DEF RestTypes
        <5>2. cur[version[k]] = k /\ version[k] \in Slots
          BY <1>0, <4>1, <5>1 DEF CalledOnce, ListTypes
        <5> QED
          BY <3>2, <5>1, <5>2
      <4> QED
        BY <1>0, <1>1, <1>6, <3>1, <4>1, CalledOnceKept
    <3>5. Fresh'
      BY <1>0, <1>1, <1>7, <3>1 DEF Fresh
    <3> QED
      BY <1>0, <1>2, <3>1, <3>2, <3>3, <3>4, <3>5 DEF RestTypes
  <2> QED
    BY <2>1, <2>2
<1>11. EventTypeOK'
  BY <1>0, <1>1, <1>5, <1>6, <1>10 DEF EventTypeOK, ListTypes, QueueTypes, RestTypes
<1>12. CallTypes'
  BY <1>0, <1>1, CallsKept
<1>13. Stacked'
  BY <1>0, <1>1, StackedKept
<1>14. NothingLeftQueued'
  BY <1>0, <1>1 DEF NothingLeftQueued
<1>15. Awaiting'
  BY <1>0, <1>1, <1>6, <1>7, AwaitedKept
<1> QED
  BY <1>5, <1>10, <1>11, <1>12, <1>13, <1>14, <1>15 DEF EInv

-----------------------------------------------------------------------------

(* The invariant holds when NewEventHandler returns.                       *)
LEMMA InitEInv ==
  ASSUME EventInit
  PROVE  EInv
<1>1. /\ \A s \in Slots : l[s] = <<>> /\ pendingOP[s] = <<>> /\ cur[s] = Nil
      /\ \A h \in Handles : version[h] = Nil /\ called[h] = 0
      /\ \A t \in Goroutines : call[t] = Nil /\ stack[t] = <<>>
  BY DEF EventInit
<1>2. DOMAIN <<>> = {} /\ (\A x : ~Contains(<<>>, x)) /\ 0 <= 1 /\ 0 # 1
  BY SMT DEF Contains
<1>3. EventTypeOK
  <2>1. ListTypes /\ QueueTypes
    BY SMT DEF EventInit, ListTypes, QueueTypes
  <2>2. RestTypes
    <3>1. once \subseteq Handles
      BY EventHandlerAssumption DEF EventInit
    <3>2. 0 \in 0..MaxEmits /\ 0 \in 0..MaxRemoves
      BY EventHandlerAssumption, SMT
    <3>3. /\ cur \in [Slots -> Handles \cup {Nil}] /\ stack \in [Goroutines -> Seq(Slots)]
          /\ called \in [Handles -> Nat]
      BY SMT DEF EventInit
    <3> QED
      BY <3>1, <3>2, <3>3 DEF EventInit, RestTypes
  <2> QED
    BY <2>1, <2>2, TypeParts
<1>4. CallTypes
  <2>1. call = [t \in Goroutines |-> call[t]]
    BY SMT DEF EventInit
  <2> QED
    BY <1>1, <2>1 DEF CallTypes
<1>5. Linked
  <2> SUFFICES ASSUME NEW s \in Slots
               PROVE  /\ Distinct(l[s])
                      /\ \A h \in Handles : version[h] = s <=> Contains(l[s], h)
    BY DEF Linked
  <2>1. l[s] = <<>> /\ Distinct(<<>>)
    BY <1>1, <1>2 DEF Distinct
  <2> QED
    BY <1>1, <1>2, <2>1, SlotsNotNil
<1>6. AtHandle
  BY <1>1 DEF AtHandle, EventInit
<1>7. Stacked
  BY <1>1, <1>2 DEF Stacked
<1>8. NothingLeftQueued /\ Fresh
  BY <1>1 DEF NothingLeftQueued, Fresh
<1>9. Awaiting
  BY <1>1, <1>2 DEF Awaiting
<1>10. CalledOnce
  BY <1>1, <1>2, <1>3 DEF CalledOnce, EventTypeOK
<1> QED
  BY <1>3, <1>4, <1>5, <1>6, <1>7, <1>8, <1>9, <1>10 DEF EInv

(* Every step keeps the invariant.                                         *)
LEMMA NextEInv ==
  ASSUME EInv, [EventNext]_eventVars
  PROVE  EInv'
<1>1. CASE EventNext
  <2>1. PICK t \in Goroutines :
          \/ \E h \in Handles : Register(t, h) \/ RemoveLook(t, h)
          \/ Clear(t) \/ remove(t) \/ Emit(t) \/ emit(t) \/ EmitterStep(t)
    BY <1>1 DEF EventNext
  <2>2. ASSUME NEW h \in Handles, Register(t, h)
        PROVE  EInv'
    BY <2>2, RegisterStep
  <2>3. CASE Clear(t) \/ Emit(t) \/ \E h \in Handles : RemoveLook(t, h)
    BY <2>3, LookStep
  <2>4. CASE remove(t)
    BY <2>4, RemoveStep
  <2>5. CASE emit(t)
    BY <2>5, EmitStep
  <2>6. CASE EmitterStep(t)
    BY <2>6, PopOtherStep, PopEmitStep, EmitEndsStep, ReturnsStep DEF EmitterStep
  <2> QED
    BY <2>1, <2>2, <2>3, <2>4, <2>5, <2>6
<1>2. CASE UNCHANGED eventVars
  <2>0. /\ ListTypes /\ QueueTypes /\ RestTypes /\ CallTypes /\ Linked /\ AtHandle /\ Stacked
        /\ NothingLeftQueued /\ Fresh /\ Awaiting /\ CalledOnce
    BY TypeParts DEF EInv
  <2>1. /\ once' = once /\ slot' = slot /\ made' = made /\ version' = version /\ l' = l
        /\ emiting' = emiting /\ pendingOP' = pendingOP /\ cur' = cur /\ holder' = holder
        /\ call' = call /\ stack' = stack /\ subscribed' = subscribed /\ emits' = emits
        /\ removes' = removes /\ called' = called
    BY <1>2 DEF eventVars
  <2>2. EventTypeOK'
    BY <2>0, <2>1 DEF EventTypeOK, ListTypes, QueueTypes, RestTypes
  <2>3. CallTypes'
    BY <2>0, <2>1, CallsKept
  <2>4. Linked'
    BY <2>0, <2>1, LinkedKept
  <2>5. AtHandle'
    BY <2>0, <2>1, AtHandleKept
  <2>6. Stacked'
    BY <2>0, <2>1, StackedKept
  <2>7. Awaiting' /\ NothingLeftQueued'
    BY <2>0, <2>1, QueuesKept
  <2>8. Fresh'
    BY <2>0, <2>1 DEF Fresh
  <2>9. CalledOnce'
    BY <2>0, <2>1, SameOps, CalledOnceKept
  <2> QED
    BY <2>2, <2>3, <2>4, <2>5, <2>6, <2>7, <2>8, <2>9 DEF EInv
<1> QED
  BY <1>1, <1>2

(* The invariant of the handlers of one event: lists, versions, emitters,  *)
(* their stacks and the queued operations agree.                           *)
THEOREM HandlersInvariance == EventSpec => []EInv
<1>1. EventInit => EInv
  BY InitEInv
<1>2. EInv /\ [EventNext]_eventVars => EInv'
  BY NextEInv
<1> QED
  BY <1>1, <1>2, PTL DEF EventSpec

(* CurrentLinked: handlerSlot.emit finds the handle whose callback has     *)
(* returned in its list, and the lists hold the handles of their version,  *)
(* for any number of goroutines, slots and handles.                        *)
THEOREM HandlersLinked == EventSpec => []CurrentLinked
<1>1. EInv => CurrentLinked
  <2> SUFFICES ASSUME EInv
               PROVE  CurrentLinked
    OBVIOUS
  <2>1. EventTypeOK /\ Linked /\ AtHandle
    BY DEF EInv
  <2>2. ASSUME NEW s \in Slots, cur[s] # Nil
        PROVE  Contains(l[s], cur[s])
    <3>1. cur[s] \in Handles /\ version[cur[s]] = s
      BY <2>1, <2>2 DEF EventTypeOK, AtHandle
    <3> QED
      BY <2>1, <3>1 DEF Linked
  <2> QED
    BY <2>1, <2>2 DEF CurrentLinked, Linked, Distinct
<1> QED
  BY <1>1, HandlersInvariance, PTL

(* CarriedOutOnce: what was asked for while a slot was emitting is carried *)
(* out before its emitter leaves, and a handler of RegisterOnce is called  *)
(* once at most.                                                           *)
THEOREM HandlersCarriedOut == EventSpec => []CarriedOutOnce
<1>1. EInv => CarriedOutOnce
  BY DEF EInv, CalledOnce, CarriedOutOnce, OnceAtMostOnce
<1> QED
  BY <1>1, HandlersInvariance, PTL

-----------------------------------------------------------------------------
(* The listeners.                                                          *)

InLoop(c) == lpc[c] \in {"accept", "failed"}

(* The net.Listener of tcp and aio is closed by Close only, which sets     *)
(* closed first; so Serve finds it set when Accept fails for that reason.  *)
ServeInv ==
  /\ lpc = [c \in Callers |-> lpc[c]] /\ lerr = [c \in Callers |-> lerr[c]]
  /\ \A c \in Callers : InLoop(c) => started
  /\ \A c, d \in Callers : InLoop(c) /\ InLoop(d) => c = d
  /\ ~http /\ ~open => lclosed
  /\ \A c \in Callers : ~http /\ lpc[c] = "closing" => lclosed
  /\ \A c \in Callers : ~http /\ lerr[c] = "closed" => lpc[c] = "failed" /\ lclosed

(* Nobody has called Serve or Close.                                       *)
LEMMA InitServeInv == ListenerInit => ServeInv
  BY DEF ListenerInit, ServeInv, InLoop

(* What a step of c does to lpc and to lerr.                               *)
LEMMA Moved ==
  ASSUME lpc = [d \in Callers |-> lpc[d]], NEW c \in Callers, NEW from, NEW to, Step(c, from, to)
  PROVE  /\ lpc' = [d \in Callers |-> lpc'[d]] /\ lpc[c] = from /\ lpc'[c] = to
         /\ \A d \in Callers : d # c => lpc'[d] = lpc[d]
  BY SMT DEF Step

(* And of one that returns, or gets an error.                              *)
LEMMA Returned ==
  ASSUME lerr = [d \in Callers |-> lerr[d]], NEW c \in Callers, NEW e, Return(c, e)
  PROVE  /\ lerr' = [d \in Callers |-> lerr'[d]] /\ lerr'[c] = e
         /\ \A d \in Callers : d # c => lerr'[d] = lerr[d]
  BY SMT DEF Return

(* A step of c keeps the invariant.                                        *)
LEMMA ServeStep ==
  ASSUME ServeInv, NEW c \in Callers,
         \/ ListenerClose(c) \/ HttpClose(c) \/ CloseNetListener(c)
         \/ ServeNil(c) \/ Serve(c) \/ AcceptClient(c) \/ ServeErr(c) \/ HttpServeErr(c)
         \/ \E e \in {"temporary", "fatal", "closed"} : AcceptErr(c, e)
  PROVE  ServeInv'
<1>0. lpc = [d \in Callers |-> lpc[d]] /\ lerr = [d \in Callers |-> lerr[d]]
  BY DEF ServeInv
<1>1. CASE ListenerClose(c)
  <2>1. PICK to \in {"end", "closing"} : Step(c, "idle", to)
    BY <1>1 DEF ListenerClose
  <2>2. /\ lpc' = [d \in Callers |-> lpc'[d]] /\ lpc[c] = "idle" /\ lpc'[c] = to
        /\ \A d \in Callers : d # c => lpc'[d] = lpc[d]
    BY <1>0, <2>1, Moved
  <2>3. lerr' = lerr /\ lclosed' /\ started' = started /\ http' = http /\ open' = open
    BY <1>1 DEF ListenerClose
  <2> QED
    BY <2>2, <2>3 DEF ServeInv, InLoop
<1>2. CASE HttpClose(c) \/ CloseNetListener(c)
  <2>1. PICK from \in {"idle", "closing"}, to \in {"end", "closing"} : Step(c, from, to)
    BY <1>2 DEF HttpClose, CloseNetListener
  <2>2. /\ lpc' = [d \in Callers |-> lpc'[d]] /\ lpc[c] = from /\ lpc'[c] = to
        /\ \A d \in Callers : d # c => lpc'[d] = lpc[d]
    BY <1>0, <2>1, Moved
  <2>3. /\ lerr' = lerr /\ lclosed' = lclosed /\ started' = started /\ http' = http
        /\ http \/ lpc[c] = "closing"
    BY <1>2 DEF HttpClose, CloseNetListener, Step
  <2>4. ~http' /\ ~open' => lclosed'
    BY <2>3 DEF ServeInv
  <2>5. \A d \in Callers : ~http' /\ lpc'[d] = "closing" => lclosed'
    BY <2>2, <2>3 DEF ServeInv
  <2> QED
    BY <2>2, <2>3, <2>4, <2>5 DEF ServeInv, InLoop
<1>3. CASE Serve(c)
  <2>1. PICK to \in {"end", "accept"}, e \in {"started", "nil"} :
          Step(c, "idle", to) /\ Return(c, e) /\ (to = "accept" => ~started)
    BY <1>3 DEF Serve
  <2>2. /\ lpc' = [d \in Callers |-> lpc'[d]] /\ lpc[c] = "idle" /\ lpc'[c] = to
        /\ \A d \in Callers : d # c => lpc'[d] = lpc[d]
    BY <1>0, <2>1, Moved
  <2>3. /\ lerr' = [d \in Callers |-> lerr'[d]] /\ lerr'[c] = e
        /\ \A d \in Callers : d # c => lerr'[d] = lerr[d]
    BY <1>0, <2>1, Returned
  <2>4. started' /\ http' = http /\ open' = open /\ lclosed' = lclosed
    BY <1>3 DEF Serve
  <2>5. \A d, f \in Callers : InLoop(d)' /\ InLoop(f)' => d = f
    BY <2>1, <2>2 DEF ServeInv, InLoop
  <2>6. \A d \in Callers : ~http' /\ lerr'[d] = "closed" => lpc'[d] = "failed" /\ lclosed'
    BY <2>2, <2>3, <2>4 DEF ServeInv
  <2>7. \A d \in Callers : ~http' /\ lpc'[d] = "closing" => lclosed'
    BY <2>2, <2>4 DEF ServeInv
  <2> QED
    BY <2>2, <2>3, <2>4, <2>5, <2>6, <2>7 DEF ServeInv
<1>4. CASE AcceptClient(c)
  <2>1. Step(c, "accept", "accept")
    BY <1>4 DEF AcceptClient
  <2>2. lpc' = lpc
    BY <1>0, <2>1, SMT DEF Step
  <2> QED
    BY <1>4, <2>2 DEF AcceptClient, ServeInv, InLoop
<1>5. ASSUME NEW to \in {"accept", "failed", "end"}, NEW from \in {"accept", "failed"},
             Step(c, from, to), NEW e, Return(c, e), UNCHANGED <<http, started, lclosed>>,
             ~http' /\ ~open' => lclosed', ~http' /\ e = "closed" => to = "failed" /\ lclosed'
      PROVE  ServeInv'
  <2>2. /\ lpc' = [d \in Callers |-> lpc'[d]] /\ lpc[c] = from /\ lpc'[c] = to
        /\ \A d \in Callers : d # c => lpc'[d] = lpc[d]
    BY <1>0, <1>5, Moved
  <2>3. /\ lerr' = [d \in Callers |-> lerr'[d]] /\ lerr'[c] = e
        /\ \A d \in Callers : d # c => lerr'[d] = lerr[d]
    BY <1>0, <1>5, Returned
  <2>4. started' = started /\ http' = http /\ lclosed' = lclosed
    BY <1>5
  <2>5. \A d \in Callers : InLoop(d)' => InLoop(d)
    BY <2>2 DEF InLoop
  <2>6. ASSUME NEW d \in Callers, ~http', lerr'[d] = "closed"
        PROVE  lpc'[d] = "failed" /\ lclosed'
    <3>1. CASE d = c
      BY <1>5, <2>2, <2>3, <2>6, <3>1
    <3>2. CASE d # c
      BY <2>2, <2>3, <2>4, <2>6, <3>2 DEF ServeInv
    <3> QED
      BY <3>1, <3>2
  <2>7. \A d \in Callers : ~http' /\ lpc'[d] = "closing" => lclosed'
    BY <2>2, <2>4 DEF ServeInv
  <2>8. /\ \A d \in Callers : InLoop(d)' => started'
        /\ \A d, f \in Callers : InLoop(d)' /\ InLoop(f)' => d = f
    BY <2>4, <2>5 DEF ServeInv
  <2> QED
    BY <1>5, <2>2, <2>3, <2>6, <2>7, <2>8 DEF ServeInv
<1>6. CASE ServeErr(c)
  <2> DEFINE to == IF ~lclosed /\ lerr[c] = "temporary" THEN "accept" ELSE "end"
             e == IF lclosed \/ lerr[c] = "temporary" THEN "nil" ELSE lerr[c]
  <2>1. Step(c, "failed", to) /\ Return(c, e) /\ UNCHANGED <<http, started, lclosed, open>>
    BY <1>6 DEF ServeErr
  <2>2. ~http' /\ ~open' => lclosed'
    BY <2>1 DEF ServeInv
  <2>3. e # "closed"
    BY <1>6 DEF ServeInv, ServeErr
  <2>4. to \in {"accept", "failed", "end"}
    OBVIOUS
  <2> HIDE DEF to, e
  <2> QED
    BY <1>5, <2>1, <2>2, <2>3, <2>4
<1>7. CASE HttpServeErr(c)
  <2> DEFINE to == IF lerr[c] = "temporary" THEN "accept" ELSE "end"
             e == IF lerr[c] = "temporary" THEN "nil" ELSE lerr[c]
  <2>1. http' /\ Step(c, "failed", to) /\ Return(c, e) /\ UNCHANGED <<http, started, lclosed>>
    BY <1>7 DEF HttpServeErr
  <2>2. to \in {"accept", "failed", "end"}
    OBVIOUS
  <2> HIDE DEF to, e
  <2> QED
    BY <1>5, <2>1, <2>2
<1>8. ASSUME NEW e \in {"temporary", "fatal", "closed"}, AcceptErr(c, e)
      PROVE  ServeInv'
  <2>1. /\ Step(c, "accept", "failed") /\ Return(c, e) /\ UNCHANGED <<http, started, lclosed, open>>
        /\ e = "closed" => ~open
    BY <1>8 DEF AcceptErr
  <2>2. ~http' /\ ~open' => lclosed'
    BY <2>1 DEF ServeInv
  <2>3. ~http' /\ e = "closed" => lclosed'
    BY <2>1 DEF ServeInv
  <2> QED
    BY <1>5, <2>1, <2>2, <2>3
<1>9. CASE ServeNil(c)
  <2>1. Step(c, "idle", "end") /\ Return(c, "callback") /\ UNCHANGED <<http, started, lclosed, open>>
    BY <1>9 DEF ServeNil
  <2>2. /\ lpc' = [d \in Callers |-> lpc'[d]] /\ lpc[c] = "idle" /\ lpc'[c] = "end"
        /\ \A d \in Callers : d # c => lpc'[d] = lpc[d]
    BY <1>0, <2>1, Moved
  <2>3. /\ lerr' = [d \in Callers |-> lerr'[d]] /\ lerr'[c] = "callback"
        /\ \A d \in Callers : d # c => lerr'[d] = lerr[d]
    BY <1>0, <2>1, Returned
  <2>4. started' = started /\ http' = http /\ open' = open /\ lclosed' = lclosed
    BY <2>1
  <2>5. \A d \in Callers : InLoop(d)' => InLoop(d)
    BY <2>2 DEF InLoop
  <2>6. \A d \in Callers : ~http' /\ lerr'[d] = "closed" => lpc'[d] = "failed" /\ lclosed'
    BY <2>2, <2>3, <2>4 DEF ServeInv
  <2>7. \A d \in Callers : ~http' /\ lpc'[d] = "closing" => lclosed'
    BY <2>2, <2>4 DEF ServeInv
  <2> QED
    BY <2>2, <2>3, <2>4, <2>5, <2>6, <2>7 DEF ServeInv
<1> QED
  BY <1>1, <1>2, <1>3, <1>4, <1>6, <1>7, <1>8, <1>9

(* Serve of tcp and aio tells the end that Close brings from an error of   *)
(* Accept, and one call of Serve at most runs the loop, for any number of  *)
(* goroutines and clients.                                                 *)
THEOREM ServeEnds == ListenerSpec => []ServeEndsQuietly
<1>1. ServeInv /\ [ListenerNext]_listenerVars => ServeInv'
  <2>1. ServeInv /\ ListenerNext => ServeInv'
    BY ServeStep DEF ListenerNext
  <2>2. ServeInv /\ UNCHANGED listenerVars => ServeInv'
    <3> SUFFICES ASSUME ServeInv, UNCHANGED listenerVars
                 PROVE  ServeInv'
      OBVIOUS
    <3>1. /\ http' = http /\ started' = started /\ lclosed' = lclosed /\ open' = open
          /\ lpc' = lpc /\ lerr' = lerr
      BY DEF listenerVars
    <3> QED
      BY <3>1 DEF ServeInv, InLoop
  <2> QED
    BY <2>1, <2>2
<1>2. ServeInv => ServeEndsQuietly
  <2> SUFFICES ASSUME ServeInv
               PROVE  ServeEndsQuietly
    OBVIOUS
  <2> DEFINE S == {c \in Callers : lpc[c] \in {"accept", "failed"}}
  <2>1. S = {} \/ \E c \in Callers : S = {c}
    <3>1. \A c, d \in S : c = d
      BY DEF ServeInv, InLoop
    <3> QED
      BY <3>1
  <2>2. Cardinality(S) <= 1
    BY <2>1, FS_EmptySet, FS_Singleton, SMT
  <2>3. ASSUME NEW c \in Callers, ~http, lpc[c] = "end"
        PROVE  lerr[c] # "closed"
    BY <2>3 DEF ServeInv
  <2> QED
    BY <2>2, <2>3 DEF ServeEndsQuietly
<1> QED
  BY <1>1, <1>2, InitServeInv, PTL DEF ListenerSpec

-----------------------------------------------------------------------------
(* The log.                                                                *)

Seconds == 0..MaxTime

LogTypes ==
  /\ DOMAIN logPc = Loggers
  /\ now \in [Loggers -> Seconds] /\ clock \in Seconds
  /\ out \in Seconds \cup {-1}
  /\ bytes \in Int
  /\ files \in [Seconds -> Seq(Loggers)]

(* Lines are written at the end of Log, and only where there is a file.    *)
AtFile ==
  /\ \A g \in Loggers : logPc[g] \in {"file", "fileLock", "fileWrite"} => set.file
  /\ \A g \in Loggers, s \in Seconds : In(g, s) => Done(g) /\ set.file

(* What a file system that does not fail adds to it.                       *)
NoneLost == \A g \in Loggers : Done(g) /\ set.file => \E s \in Seconds : In(g, s)

OfItsDay == \A g \in Loggers, s \in Seconds : In(g, s) => Day(s) = Day(now[g])

NotOverfull ==
  out # -1 => /\ files[out] # <<>>
              /\ \/ bytes = Length[Last(files[out])]
                 \/ bytes - Length[Last(files[out])] < FileMax

Filed == ~faulty => NoneLost /\ OfItsDay /\ NotOverfull

LogInv == LogTypes /\ AtFile /\ NoneTwice /\ Filed

(* Nothing has been logged.                                                *)
LEMMA InitLogInv == LogInit => LogInv
<1> SUFFICES ASSUME LogInit
             PROVE  LogInv
  OBVIOUS
<1>1. LogTypes
  BY LoggerAssumption, SMTT(20) DEF LogInit, LogTypes, Seconds
<1>2. \A s \in Seconds : files[s] = <<>>
  BY DEF LogInit, Seconds
<1>3. \A g \in Loggers, s \in Seconds : ~In(g, s)
  BY <1>2, SMT DEF In, Contains
<1>4. NoneTwice
  <2>1. DOMAIN files = Seconds /\ DOMAIN <<>> = {}
    BY SMT DEF LogInit, Seconds
  <2> QED
    BY <1>2, <2>1 DEF NoneTwice
<1>5. \A g \in Loggers : logPc[g] = "idle"
  BY DEF LogInit
<1>6. out = -1
  BY DEF LogInit
<1> QED
  BY <1>1, <1>3, <1>4, <1>5, <1>6
    DEF LogInv, AtFile, Filed, NoneLost, OfItsDay, NotOverfull, Done

(* A line that is in no file is added to one.                              *)
LEMMA LineAdded ==
  ASSUME LogTypes, NoneTwice, NEW g \in Loggers, NEW f \in Seconds,
         \A s \in Seconds : ~In(g, s), files' = [files EXCEPT ![f] = Append(@, g)]
  PROVE  /\ files' \in [Seconds -> Seq(Loggers)]
         /\ NoneTwice'
         /\ \A h \in Loggers, s \in Seconds : In(h, s)' <=> In(h, s) \/ (h = g /\ s = f)
         /\ files'[f] # <<>> /\ Last(files'[f]) = g
<1> DEFINE n == Len(files[f]) + 1
<1>1. /\ files \in [Seconds -> Seq(Loggers)] /\ DOMAIN files = Seconds
      /\ \A s \in Seconds : DOMAIN files[s] = 1..Len(files[s]) /\ Len(files[s]) \in Nat
  BY SMTT(20) DEF LogTypes
<1>2. /\ files' \in [Seconds -> Seq(Loggers)] /\ DOMAIN files' = Seconds
      /\ files'[f] = Append(files[f], g) /\ \A s \in Seconds : s # f => files'[s] = files[s]
  BY <1>1, SMT
<1>3. /\ files'[f] # <<>> /\ DOMAIN files'[f] = 1..n /\ files'[f][n] = g
      /\ \A i \in 1..Len(files[f]) : files'[f][i] = files[f][i]
  <2>1. files[f] \in Seq(Loggers)
    BY <1>1
  <2>2. PICK q \in Seq(Loggers) : q = files[f]
    BY <2>1
  <2>3. /\ Append(q, g) # <<>> /\ DOMAIN Append(q, g) = 1..(Len(q) + 1)
        /\ Append(q, g)[Len(q) + 1] = g /\ \A i \in 1..Len(q) : Append(q, g)[i] = q[i]
    BY SMTT(20)
  <2> QED
    BY <1>2, <2>2, <2>3
<1>4. /\ n \in Nat /\ n \in 1..n /\ n \notin 1..Len(files[f])
      /\ \A i : i \in 1..n <=> i \in 1..Len(files[f]) \/ i = n
  BY <1>1, SMT
<1>5. Len(files'[f]) = n
  BY <1>1, <1>2, SMT
<1> HIDE DEF n
<1>6. Last(files'[f]) = g
  BY <1>3, <1>5 DEF Last
<1>7. \A s \in Seconds : \A i \in DOMAIN files'[s] :
        \/ i \in DOMAIN files[s] /\ files'[s][i] = files[s][i]
        \/ s = f /\ i = n /\ files'[s][i] = g
  BY <1>1, <1>2, <1>3, <1>4
<1>8. \A s \in Seconds : \A i \in DOMAIN files[s] : files[s][i] # g
  BY <1>1 DEF In, Contains
<1>9. NoneTwice'
  <2>0. DOMAIN files' = Seconds
    BY <1>2
  <2> SUFFICES ASSUME NEW s \in Seconds, NEW r \in Seconds,
                      NEW i \in DOMAIN files'[s], NEW j \in DOMAIN files'[r],
                      files'[s][i] = files'[r][j]
               PROVE  s = r /\ i = j
    BY <2>0, ZenonT(40) DEF NoneTwice
  <2>1. CASE i \in DOMAIN files[s] /\ files'[s][i] = files[s][i]
    <3>1. files[s][i] # g
      BY <1>8, <2>1
    <3>2. j \in DOMAIN files[r] /\ files'[r][j] = files[r][j]
      BY <1>7, <2>1, <3>1
    <3>3. files[s][i] = files[r][j]
      BY <2>1, <3>2
    <3>4. \A u, v \in Seconds : \A k \in DOMAIN files[u], m \in DOMAIN files[v] :
            files[u][k] = files[v][m] => u = v /\ k = m
      BY <1>1 DEF NoneTwice
    <3>5. \A k \in DOMAIN files[s], m \in DOMAIN files[r] :
            files[s][k] = files[r][m] => s = r /\ k = m
      BY <3>4
    <3> QED
      BY <2>1, <3>2, <3>3, <3>5
  <2>2. CASE s = f /\ i = n /\ files'[s][i] = g
    <3>1. files'[r][j] = g
      BY <2>2
    <3>2. ~(j \in DOMAIN files[r] /\ files'[r][j] = files[r][j])
      BY <1>8, <3>1
    <3>3. r = f /\ j = n
      BY <1>7, <3>2
    <3> QED
      BY <2>2, <3>3
  <2> QED
    BY <1>7, <2>1, <2>2
<1>10. ASSUME NEW h \in Loggers, NEW s \in Seconds
       PROVE  In(h, s)' <=> In(h, s) \/ (h = g /\ s = f)
  <2>1. CASE s # f
    BY <1>2, <1>3, <2>1 DEF In, Contains
  <2>2. CASE s = f
    BY <1>1, <1>3, <1>4, <1>5, <2>2 DEF In, Contains
  <2> QED
    BY <2>1, <2>2
<1> QED
  BY <1>2, <1>3, <1>6, <1>9, <1>10

(* A step that writes nothing leaves the open file as it is.               *)
LEMMA SizesKept ==
  ASSUME NotOverfull, out' = out, bytes' = bytes, files' = files
  PROVE  NotOverfull'
  BY SMT DEF NotOverfull

(* A step of g before its line is written.                                 *)
LEMMA LogMoves ==
  ASSUME LogInv, NEW g \in Loggers, NEW p, GotoLog(g, p), ~Done(g),
         p \in {"end", "panic"} => ~set.file,
         p \in {"file", "fileLock", "fileWrite"} => set.file,
         UNCHANGED <<set, faulty, clock, out, bytes, files>>,
         now' \in [Loggers -> Seconds], \A h \in Loggers : h # g => now'[h] = now[h]
  PROVE  LogInv'
<1>1. /\ DOMAIN logPc' = Loggers /\ logPc'[g] = p
      /\ \A h \in Loggers : h # g => logPc'[h] = logPc[h]
  BY DEF LogInv, LogTypes, GotoLog
<1>2. set' = set /\ faulty' = faulty /\ clock' = clock /\ out' = out /\ bytes' = bytes /\ files' = files
  OBVIOUS
<1>3. \A s \in Seconds : ~In(g, s)
  BY DEF LogInv, AtFile
<1>4. LogTypes' /\ NoneTwice'
  <2>1. LogTypes'
    BY <1>1, <1>2 DEF LogInv, LogTypes
  <2>2. NoneTwice /\ files' = files => NoneTwice'
    BY SMTT(20) DEF NoneTwice
  <2> QED
    BY <1>2, <2>1, <2>2 DEF LogInv
<1>5. \A h \in Loggers, s \in Seconds : In(h, s)' <=> In(h, s)
  BY <1>2 DEF In
<1>6. \A h \in Loggers : h # g => (Done(h)' <=> Done(h))
  BY <1>1 DEF Done
<1>7. AtFile'
  <2>1. ASSUME NEW h \in Loggers, logPc'[h] \in {"file", "fileLock", "fileWrite"}
        PROVE  set'.file
    <3>1. CASE h = g
      BY <1>1, <1>2, <2>1, <3>1
    <3>2. CASE h # g
      BY <1>1, <1>2, <2>1, <3>2 DEF LogInv, AtFile
    <3> QED
      BY <3>1, <3>2
  <2>2. ASSUME NEW h \in Loggers, NEW s \in Seconds, In(h, s)'
        PROVE  Done(h)' /\ set'.file
    <3>1. In(h, s) /\ h # g
      BY <1>3, <1>5, <2>2
    <3> QED
      BY <1>2, <1>6, <3>1 DEF LogInv, AtFile
  <2> QED
    BY <2>1, <2>2 DEF AtFile
<1>8. Filed'
  <2>1. ASSUME ~faulty, NEW h \in Loggers, Done(h)', set'.file
        PROVE  \E s \in Seconds : In(h, s)'
    <3>1. h # g
      BY <1>1, <1>2, <2>1 DEF Done
    <3>2. Done(h) /\ set.file
      BY <1>2, <1>6, <2>1, <3>1
    <3> QED
      BY <1>5, <2>1, <3>2 DEF LogInv, Filed, NoneLost
  <2>2. ASSUME ~faulty, NEW h \in Loggers, NEW s \in Seconds, In(h, s)'
        PROVE  Day(s) = Day(now'[h])
    <3>1. In(h, s) /\ h # g
      BY <1>3, <1>5, <2>2
    <3> QED
      BY <2>2, <3>1 DEF LogInv, Filed, OfItsDay
  <2>3. NotOverfull => NotOverfull'
    BY <1>2, SizesKept
  <2>4. ~faulty => NoneLost' /\ OfItsDay'
    BY <2>1, <2>2 DEF NoneLost, OfItsDay
  <2>5. ~faulty => NotOverfull'
    BY <2>3 DEF LogInv, Filed
  <2>6. ~faulty' => ~faulty
    BY <1>2, SMT
  <2> QED
    BY <2>4, <2>5, <2>6 DEF Filed
<1> QED
  BY <1>4, <1>7, <1>8 DEF LogInv

(* The line of g is written, to the file it has, or a new one.             *)
LEMMA LogWrites ==
  ASSUME LogInv, NEW g \in Loggers, Write(g)
  PROVE  LogInv'
<1>1. PICK o \in Opened(now[g]) :
        /\ out' = o.file
        /\ \/ /\ o.file # -1
              /\ files' = [files EXCEPT ![o.file] = Append(@, g)]
              /\ bytes' = o.count + Length[g]
           \/ /\ o.file = -1 \/ faulty
              /\ bytes' = o.count
              /\ UNCHANGED files
  BY DEF Write
<1>2. /\ logPc[g] = "fileWrite" /\ GotoLog(g, AfterFile(g))
      /\ set' = set /\ faulty' = faulty /\ clock' = clock /\ now' = now
  BY DEF Write
<1>3. /\ DOMAIN logPc' = Loggers /\ logPc'[g] \in {"end", "panic"}
      /\ \A h \in Loggers : h # g => logPc'[h] = logPc[h]
  BY <1>2 DEF LogInv, LogTypes, GotoLog, AfterFile
<1>4. set.file /\ ~Done(g) /\ \A s \in Seconds : ~In(g, s)
  <2>1. ~Done(g)
    BY <1>2 DEF Done
  <2> QED
    BY <1>2, <2>1 DEF LogInv, AtFile
<1>5. now[g] \in Seconds /\ now[g] # -1
  <2>1. now[g] \in Seconds
    BY DEF LogInv, LogTypes
  <2> QED
    BY <2>1, SMT DEF Seconds
<1>6. o = [file |-> out, count |-> bytes] \/ o = [file |-> now[g], count |-> 0]
  BY DEF Opened
<1>7. /\ o.file \in Seconds \cup {-1} /\ o.count \in Int
      /\ ~faulty => /\ o.file # -1 /\ Day(o.file) = Day(now[g])
                    /\ o.count = 0 \/ o.count < FileMax
  <2>1. CASE o = [file |-> now[g], count |-> 0]
    BY <1>5, <2>1, SMT
  <2>2. CASE o = [file |-> out, count |-> bytes]
    <3>1. o.file = out /\ o.count = bytes /\ out \in Seconds \cup {-1} /\ bytes \in Int
      BY <2>2 DEF LogInv, LogTypes
    <3>2. ASSUME ~faulty, o # [file |-> now[g], count |-> 0]
          PROVE  out # -1 /\ bytes < FileMax /\ Day(out) = Day(now[g])
      BY <3>2 DEF Opened, checkOutputFile
    <3> QED
      BY <2>1, <3>1, <3>2
  <2> QED
    BY <1>6, <2>1, <2>2
<1>8. Length[g] \in Nat
  BY LoggerAssumption
<1>9. \A h \in Loggers : logPc'[h] \in {"file", "fileLock", "fileWrite"} => set'.file
  BY <1>2, <1>4
<1>10. Done(g)' /\ \A h \in Loggers : h # g => (Done(h)' <=> Done(h))
  BY <1>3 DEF Done
<1>11. CASE /\ o.file # -1
            /\ files' = [files EXCEPT ![o.file] = Append(@, g)]
            /\ bytes' = o.count + Length[g]
  <2> DEFINE f == o.file
  <2>0. f \in Seconds
    BY <1>7, <1>11
  <2>1. /\ files' \in [Seconds -> Seq(Loggers)]
        /\ NoneTwice'
        /\ \A h \in Loggers, s \in Seconds : In(h, s)' <=> In(h, s) \/ (h = g /\ s = f)
        /\ files'[f] # <<>> /\ Last(files'[f]) = g
    BY <1>4, <1>11, <2>0, LineAdded DEF LogInv
  <2>2. out' = f /\ bytes' \in Int
    BY <1>1, <1>7, <1>8, <1>11, SMT
  <2>3. LogTypes'
    BY <1>2, <1>3, <2>0, <2>1, <2>2 DEF LogInv, LogTypes
  <2>4. AtFile'
    <3>1. ASSUME NEW h \in Loggers, NEW s \in Seconds, In(h, s)'
          PROVE  Done(h)' /\ set'.file
      <4>1. CASE h = g
        BY <1>2, <1>4, <1>10, <4>1
      <4>2. CASE h # g
        BY <1>2, <1>4, <1>10, <2>1, <3>1, <4>2 DEF LogInv, AtFile
      <4> QED
        BY <4>1, <4>2
    <3> QED
      BY <1>9, <3>1 DEF AtFile
  <2>5. ASSUME ~faulty, NEW h \in Loggers, Done(h)', set'.file
        PROVE  \E s \in Seconds : In(h, s)'
    <3>1. CASE h = g
      BY <2>0, <2>1, <3>1
    <3>2. CASE h # g
      BY <1>4, <1>10, <2>1, <2>5, <3>2 DEF LogInv, Filed, NoneLost
    <3> QED
      BY <3>1, <3>2
  <2>6. ASSUME ~faulty, NEW h \in Loggers, NEW s \in Seconds, In(h, s)'
        PROVE  Day(s) = Day(now'[h])
    <3>1. CASE In(h, s)
      BY <1>2, <2>6, <3>1 DEF LogInv, Filed, OfItsDay
    <3>2. CASE h = g /\ s = f
      BY <1>2, <1>7, <2>6, <3>2
    <3> QED
      BY <2>1, <2>6, <3>1, <3>2
  <2>7. ~faulty => bytes' = Length[g] \/ bytes' - Length[g] < FileMax
    BY <1>7, <1>8, <1>11, LoggerAssumption, SMT
  <2>8. Filed'
    BY <1>2, <2>1, <2>2, <2>5, <2>6, <2>7 DEF Filed, NoneLost, OfItsDay, NotOverfull
  <2> QED
    BY <2>1, <2>3, <2>4, <2>8 DEF LogInv
<1>12. CASE (o.file = -1 \/ faulty) /\ bytes' = o.count /\ UNCHANGED files
  <2>1. faulty
    BY <1>7, <1>12
  <2>2. \A h \in Loggers, s \in Seconds : In(h, s)' <=> In(h, s)
    BY <1>12 DEF In
  <2>3. LogTypes' /\ NoneTwice'
    <3>1. LogTypes'
      BY <1>1, <1>2, <1>3, <1>7, <1>12 DEF LogInv, LogTypes
    <3>2. NoneTwice /\ files' = files => NoneTwice'
      BY SMT DEF NoneTwice
    <3> QED
      BY <1>12, <3>1, <3>2 DEF LogInv
  <2>4. ASSUME NEW h \in Loggers, NEW s \in Seconds, In(h, s)'
        PROVE  Done(h)' /\ set'.file
    <3>1. In(h, s) /\ h # g
      BY <1>4, <2>2, <2>4
    <3> QED
      BY <1>2, <1>10, <3>1 DEF LogInv, AtFile
  <2> QED
    BY <1>2, <1>9, <2>1, <2>3, <2>4 DEF LogInv, AtFile, Filed
<1> QED
  BY <1>1, <1>11, <1>12

(* Every step keeps the invariant.                                         *)
LEMMA LogStep == LogInv /\ [LogNext]_loggerVars => LogInv'
<1> SUFFICES ASSUME LogInv, [LogNext]_loggerVars
             PROVE  LogInv'
  OBVIOUS
<1>0. now \in [Loggers -> Seconds] /\ clock \in Seconds
  BY DEF LogInv, LogTypes
<1>1. ASSUME NEW g \in Loggers, Log(g)
      PROVE  LogInv'
  <2> DEFINE p == IF Ignored(g) THEN "ignored" ELSE IF set.std THEN "std" ELSE AfterStdOut(g)
  <2>1. GotoLog(g, p) /\ ~Done(g) /\ UNCHANGED <<set, faulty, clock, now, out, bytes, files>>
    BY <1>1 DEF Log, Done
  <2>2. AfterFile(g) \in {"end", "panic"}
    BY DEF AfterFile
  <2>3. /\ p \in {"end", "panic"} => ~set.file
        /\ p \in {"file", "fileLock", "fileWrite"} => set.file
    BY <2>2 DEF AfterStdOut
  <2> HIDE DEF p
  <2> QED
    BY <1>0, <2>1, <2>3, LogMoves
<1>2. ASSUME NEW g \in Loggers, OutputNow(g)
      PROVE  LogInv'
  <2> DEFINE p == IF logPc[g] = "std" THEN "stdLock" ELSE "fileLock"
  <2>1. /\ GotoLog(g, p) /\ ~Done(g) /\ logPc[g] \in {"std", "file"}
        /\ now' = [now EXCEPT ![g] = clock]
        /\ UNCHANGED <<set, faulty, clock, out, bytes, files>>
    BY <1>2 DEF OutputNow, Done
  <2>2. now' \in [Loggers -> Seconds] /\ \A h \in Loggers : h # g => now'[h] = now[h]
    BY <1>0, <2>1
  <2>3. p \notin {"end", "panic"}
    OBVIOUS
  <2>4. p \in {"file", "fileLock", "fileWrite"} => set.file
    BY <2>1 DEF LogInv, AtFile
  <2> HIDE DEF p
  <2> QED
    BY <2>1, <2>2, <2>3, <2>4, LogMoves
<1>3. ASSUME NEW g \in Loggers, OutputLock(g)
      PROVE  LogInv'
  <2> DEFINE p == IF logPc[g] = "stdLock" THEN "stdWrite" ELSE "fileWrite"
  <2>1. /\ GotoLog(g, p) /\ ~Done(g) /\ logPc[g] \in {"stdLock", "fileLock"}
        /\ UNCHANGED <<set, faulty, clock, now, out, bytes, files>>
    BY <1>3 DEF OutputLock, Done
  <2>2. p \notin {"end", "panic"}
    OBVIOUS
  <2>3. p \in {"file", "fileLock", "fileWrite"} => set.file
    BY <2>1 DEF LogInv, AtFile
  <2> HIDE DEF p
  <2> QED
    BY <1>0, <2>1, <2>2, <2>3, LogMoves
<1>4. ASSUME NEW g \in Loggers, WriteStdOut(g)
      PROVE  LogInv'
  <2> DEFINE p == AfterStdOut(g)
  <2>1. GotoLog(g, p) /\ ~Done(g) /\ UNCHANGED <<set, faulty, clock, now, out, bytes, files>>
    BY <1>4 DEF WriteStdOut, Done
  <2>2. AfterFile(g) \in {"end", "panic"}
    BY DEF AfterFile
  <2>3. /\ p \in {"end", "panic"} => ~set.file
        /\ p \in {"file", "fileLock", "fileWrite"} => set.file
    BY <2>2 DEF AfterStdOut
  <2> HIDE DEF p
  <2> QED
    BY <1>0, <2>1, <2>3, LogMoves
<1>5. CASE Tick \/ UNCHANGED loggerVars
  <2>1. /\ set' = set /\ faulty' = faulty /\ logPc' = logPc /\ now' = now
        /\ out' = out /\ bytes' = bytes /\ files' = files
    BY <1>5 DEF Tick, loggerVars
  <2>2. clock' \in Seconds
    BY <1>0, <1>5, LoggerAssumption, SMTT(20) DEF Tick, loggerVars, Seconds
  <2>3. LogTypes'
    BY <2>1, <2>2 DEF LogInv, LogTypes
  <2>4. \A h \in Loggers, s \in Seconds : In(h, s)' <=> In(h, s)
    BY <2>1 DEF In
  <2>5. \A h \in Loggers : Done(h)' <=> Done(h)
    BY <2>1 DEF Done
  <2>6. AtFile'
    BY <2>1, <2>4, <2>5 DEF LogInv, AtFile
  <2>7. NoneTwice'
    BY <2>1, SMTT(20) DEF LogInv, NoneTwice
  <2>8. (NoneLost => NoneLost') /\ (OfItsDay => OfItsDay')
    BY <2>1, <2>4, <2>5 DEF NoneLost, OfItsDay
  <2>9. NotOverfull => NotOverfull'
    BY <2>1, SizesKept
  <2>10. Filed'
    BY <2>1, <2>8, <2>9 DEF LogInv, Filed
  <2> QED
    BY <2>3, <2>6, <2>7, <2>10 DEF LogInv
<1> QED
  BY <1>1, <1>2, <1>3, <1>4, <1>5, LogWrites DEF LogNext

(* No line is in two places; on a file system that does not fail, a line   *)
(* that is not ignored is in a file of the day it was logged once Log is   *)
(* done with it, and none is added to a full file.                         *)
THEOREM LinesKept == LogSpec => []LinesFiled
<1>1. LogInv => LinesFiled
  <2> SUFFICES ASSUME LogInv
               PROVE  LinesFiled
    OBVIOUS
  <2>1. DOMAIN files = Seconds
    BY DEF LogInv, LogTypes
  <2>2. ~faulty => \A g \in Loggers : (\E s \in Seconds : In(g, s)) <=> Done(g) /\ set.file
    BY DEF LogInv, AtFile, Filed, NoneLost
  <2>3. ~faulty => \A g \in Loggers, s \in Seconds : In(g, s) => Day(s) = Day(now[g])
    BY DEF LogInv, Filed, OfItsDay
  <2>4. ~faulty /\ out # -1 => \/ bytes = Length[Last(files[out])]
                              \/ bytes - Length[Last(files[out])] < FileMax
    BY DEF LogInv, Filed, NotOverfull
  <2>5. NoneTwice
    BY DEF LogInv
  <2> QED
    BY <2>1, <2>2, <2>3, <2>4, <2>5 DEF LinesFiled
<1> QED
  BY <1>1, InitLogInv, LogStep, PTL DEF LogSpec
=============================================================================
