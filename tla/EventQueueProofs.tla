-------------------------- MODULE EventQueueProofs --------------------------
(***************************************************************************)
(* Proofs about EventQueue for any number of goroutines, priorities and    *)
(* sizes: no wake-up is lost, and the priority queue holds and returns     *)
(* what it should.                                                         *)
(*                                                                         *)
(* The first invariant, IInv, adds two facts to NoLostWakeup.  The         *)
(* goroutines a condition can wake are among those the counters count, so  *)
(* that a counter that is 0, on which the code wakes nobody, means that    *)
(* nobody waits.  And only the goroutine that won the compare-and-swap of  *)
(* Run waits for events, so that one Signal is enough.                     *)
(*                                                                         *)
(* The second, QInv, adds what the lists of the priority queue look like:  *)
(* the list of each level links exactly the events of that level that were *)
(* accepted and not taken, from the oldest on, and high is the highest     *)
(* level with an event, which Get goes by.                                 *)
(***************************************************************************)
EXTENDS EventQueue, FiniteSetTheorems, WellFoundedInduction, NaturalsInduction, TLAPS

(* Steps of logic and sets are for Zenon; those that need arithmetic,      *)
(* sequences or updates of functions cite SMT.                             *)
USE Zenon

RunPCs == {"get", "emptyWait", "got", "gotBroadcast", "event"}

PCs == RunPCs \cup {"idle", "done", "fullWait", "signalEmpty", "close", "closeEmpty", "broadcastFull"}

(* The goroutines that f has at l.                                         *)
Where(f, l) == {t \in Threads : f[t] = l}

Types ==
  /\ q.count \in Nat
  /\ fullSize \in Sizes
  /\ closed \in BOOLEAN
  /\ waiters \in [Conds -> SUBSET Threads]
  /\ pc \in [Threads -> PCs]

OneRuns ==
  /\ started \in Threads \cup {Nil}
  /\ \A t \in Threads : pc[t] \in RunPCs => t = started

Counted ==
  /\ fullWaited = Cardinality(Where(pc, "fullWait"))
  /\ emptyWaited = Cardinality(Where(pc, "emptyWait"))
  /\ waiters["full"] \subseteq Where(pc, "fullWait")
  /\ waiters["empty"] \subseteq Where(pc, "emptyWait")

Wakeups ==
  /\ waiters["empty"] # {} /\ q.count > 0 => \E t \in Threads : pc[t] \in {"signalEmpty", "closeEmpty"}
  /\ waiters["empty"] # {} /\ closed => \E t \in Threads : pc[t] = "closeEmpty"
  /\ waiters["full"] # {} /\ (q.count < fullSize \/ closed)
       => \E t \in Threads : pc[t] \in {"closeEmpty", "broadcastFull", "gotBroadcast"}

IInv == Types /\ OneRuns /\ Counted /\ Wakeups

-----------------------------------------------------------------------------
(* The goroutines are finitely many.                                       *)
LEMMA FiniteThreads == IsFiniteSet(Threads)
  BY EventQueueAssumption, FS_Union DEF EventQueueAssumption, Threads

(* So those that wait can be counted, and the count is positive when there *)
(* is one.                                                                 *)
LEMMA CountThreads ==
  \A f, l : /\ IsFiniteSet(Where(f, l))
            /\ Cardinality(Where(f, l)) \in Nat
            /\ Where(f, l) # {} => Cardinality(Where(f, l)) > 0
<1> TAKE f, l
<1>1. IsFiniteSet(Where(f, l))
  BY FiniteThreads, FS_Subset DEF Where
<1>2. Cardinality(Where(f, l)) \in Nat
  BY <1>1, FS_CardinalityType
<1>3. Where(f, l) # {} => Cardinality(Where(f, l)) # 0
  BY <1>1, FS_EmptySet
<1> QED
  BY SMT, <1>1, <1>2, <1>3

(* A new queue is empty and nobody waits.                                  *)
LEMMA InitIInv == Init => IInv
<1> SUFFICES ASSUME Init
             PROVE  IInv
  OBVIOUS
<1> USE DEF Init
<1>1. Types
  BY DEF Types, PCs, newpq
<1>2. OneRuns
  BY DEF OneRuns, RunPCs
<1>3. Where(pc, "fullWait") = {} /\ Where(pc, "emptyWait") = {}
  BY DEF Where
<1>4. Counted
  BY <1>3, FS_EmptySet DEF Counted, Conds
<1>5. Wakeups
  BY DEF Wakeups, Conds
<1> QED
  BY <1>1, <1>2, <1>4, <1>5 DEF IInv

-----------------------------------------------------------------------------
(* The steps, with the goroutine that makes them named.                    *)
StepOf(t) ==
  \/ \E p \in Priorities, fullReturn \in BOOLEAN : AddNoWait(t, p, fullReturn)
  \/ \E p \in Priorities : Add(t, p)
  \/ AddResume(t)
  \/ t \in Runners /\ Run(t)
  \/ Get(t)
  \/ GetResume(t)
  \/ RunNext(t)
  \/ EventReturns(t)
  \/ Close(t)
  \/ CloseLocked(t)
  \/ \E n \in Sizes : SetFullSize(t, n)
  \/ SignalEmpty(t)
  \/ CloseBroadcastsEmpty(t)
  \/ BroadcastFull(t)

(* Next is these steps.                                                    *)
LEMMA NextStep == Next => \E t \in Threads : StepOf(t)
  BY DEF Next, Continue, StepOf, Threads, EmitToEventQueue, Post, PostNoWait, PostFullReturn

(* What a step does to the counters and the wait sets, next to where it    *)
(* moves its goroutine.                                                    *)
CounterMoves(t) ==
  /\ pc' \in [Threads -> PCs]
  /\ \A u \in Threads : u # t => pc'[u] = pc[u]
  /\ fullWaited' = fullWaited + (IF pc'[t] = "fullWait" THEN 1 ELSE 0)
                              - (IF pc[t] = "fullWait" THEN 1 ELSE 0)
  /\ emptyWaited' = emptyWaited + (IF pc'[t] = "emptyWait" THEN 1 ELSE 0)
                                - (IF pc[t] = "emptyWait" THEN 1 ELSE 0)

WaiterMoves(t) ==
  /\ waiters' \in [Conds -> SUBSET Threads]
  /\ \A c \in Conds : waiters'[c] \subseteq waiters[c] \cup {t}
  /\ t \in waiters'["full"] => pc'[t] = "fullWait"
  /\ t \in waiters'["empty"] => pc'[t] = "emptyWait"

(* The counters go with the goroutines that wait.                          *)
LEMMA Counters ==
  ASSUME IInv, NEW t \in Threads, StepOf(t)
  PROVE  CounterMoves(t)
<1>n. fullWaited \in Nat /\ emptyWaited \in Nat
  BY CountThreads DEF IInv, Counted
<1>t. pc \in [Threads -> PCs]
  BY DEF IInv, Types
<1>1. ASSUME NEW p \in Priorities, NEW fullReturn \in BOOLEAN, AddNoWait(t, p, fullReturn)
      PROVE  CounterMoves(t)
  BY SMT, <1>n, <1>t, <1>1 DEF CounterMoves, PCs, RunPCs, AddNoWait, Accept, Goto, Return, Free
<1>2. ASSUME NEW p \in Priorities, Add(t, p)
      PROVE  CounterMoves(t)
  BY SMT, <1>n, <1>t, <1>2 DEF CounterMoves, PCs, RunPCs, Add, AddLoop, Accept, Goto, Return, Free
<1>3. CASE AddResume(t)
  BY SMT, <1>n, <1>t, <1>3 DEF CounterMoves, PCs, RunPCs, AddResume, AddLoop, Accept, Goto, Return
<1>4. CASE Get(t) \/ GetResume(t)
  BY SMT, <1>n, <1>t, <1>4 DEF CounterMoves, PCs, RunPCs, Get, GetResume, GetLoop, Goto
<1>5. CASE Run(t) \/ RunNext(t) \/ EventReturns(t)
  BY SMT, <1>n, <1>t, <1>5 DEF CounterMoves, PCs, RunPCs, Run, RunNext, EventReturns, Goto
<1>6. CASE Close(t) \/ CloseLocked(t)
  BY SMT, <1>n, <1>t, <1>6 DEF CounterMoves, PCs, RunPCs, Close, CloseLocked, Goto, Free
<1>7. ASSUME NEW n \in Sizes, SetFullSize(t, n)
      PROVE  CounterMoves(t)
  BY SMT, <1>n, <1>t, <1>7 DEF CounterMoves, PCs, RunPCs, SetFullSize, Goto, Free
<1>8. CASE SignalEmpty(t)
  BY SMT, <1>n, <1>t, <1>8 DEF CounterMoves, PCs, RunPCs, SignalEmpty, Goto, Return
<1>9. CASE CloseBroadcastsEmpty(t) \/ BroadcastFull(t)
  BY SMT, <1>n, <1>t, <1>9 DEF CounterMoves, PCs, RunPCs, CloseBroadcastsEmpty, BroadcastFull, Goto, Return
<1> QED
  BY <1>1, <1>2, <1>3, <1>4, <1>5, <1>6, <1>7, <1>8, <1>9 DEF StepOf

(* Only the goroutine of the step enters a wait set, and a goroutine that  *)
(* goes on has left it.                                                    *)
LEMMA WaitSets ==
  ASSUME IInv, NEW t \in Threads, StepOf(t)
  PROVE  WaiterMoves(t)
<1>t. pc \in [Threads -> PCs] /\ waiters \in [Conds -> SUBSET Threads]
  BY DEF IInv, Types
<1>w. /\ t \in waiters["full"] => pc[t] = "fullWait"
      /\ t \in waiters["empty"] => pc[t] = "emptyWait"
  BY DEF IInv, Counted, Where
<1>1. ASSUME NEW p \in Priorities, NEW fullReturn \in BOOLEAN, AddNoWait(t, p, fullReturn)
      PROVE  WaiterMoves(t)
  BY <1>t, <1>w, <1>1 DEF WaiterMoves, Conds, AddNoWait, Accept, Goto, Return, Free
<1>2. ASSUME NEW p \in Priorities, Add(t, p)
      PROVE  WaiterMoves(t)
  BY SMT, <1>t, <1>w, <1>2 DEF WaiterMoves, Conds, Add, AddLoop, Accept, Goto, Return, Free, C!Enqueue
<1>3. CASE AddResume(t)
  BY SMT, <1>t, <1>w, <1>3 DEF WaiterMoves, Conds, AddResume, AddLoop, Accept, Goto, Return, C!Enqueue
<1>4. CASE Get(t) \/ GetResume(t)
  BY SMT, <1>t, <1>w, <1>4 DEF WaiterMoves, Conds, Get, GetResume, GetLoop, Goto, C!Enqueue
<1>5. CASE Run(t) \/ RunNext(t) \/ EventReturns(t)
  BY <1>t, <1>w, <1>5 DEF WaiterMoves, Conds, Run, RunNext, EventReturns, Goto
<1>6. CASE Close(t) \/ CloseLocked(t)
  BY <1>t, <1>w, <1>6 DEF WaiterMoves, Conds, Close, CloseLocked, Goto, Free
<1>7. ASSUME NEW n \in Sizes, SetFullSize(t, n)
      PROVE  WaiterMoves(t)
  BY <1>t, <1>w, <1>7 DEF WaiterMoves, Conds, SetFullSize, Goto, Free
<1>8. CASE SignalEmpty(t)
  BY <1>t, <1>w, <1>8 DEF WaiterMoves, Conds, SignalEmpty, Goto, Return, C!WakeOne, C!Withdraw
<1>9. CASE CloseBroadcastsEmpty(t) \/ BroadcastFull(t)
  BY <1>t, <1>w, <1>9 DEF WaiterMoves, Conds, CloseBroadcastsEmpty, BroadcastFull, Goto, Return, C!WakeAll
<1> QED
  BY <1>1, <1>2, <1>3, <1>4, <1>5, <1>6, <1>7, <1>8, <1>9 DEF StepOf

(* The goroutines at a label, after a step that moves t from f[t] to g[t]  *)
(* and nobody else.                                                        *)
LEMMA OneMoves ==
  ASSUME NEW l, NEW t \in Threads, NEW f \in [Threads -> PCs], NEW g \in [Threads -> PCs],
         \A u \in Threads : u # t => g[u] = f[u]
  PROVE  Cardinality(Where(g, l)) = Cardinality(Where(f, l)) + (IF g[t] = l THEN 1 ELSE 0)
                                                              - (IF f[t] = l THEN 1 ELSE 0)
<1>f. IsFiniteSet(Where(f, l)) /\ Cardinality(Where(f, l)) \in Nat
  BY CountThreads
<1>1. CASE f[t] = l <=> g[t] = l
  <2>1. Where(g, l) = Where(f, l)
    BY <1>1 DEF Where
  <2> QED
    BY SMT, <1>f, <1>1, <2>1
<1>2. CASE f[t] = l /\ g[t] # l
  <2>1. Where(g, l) = Where(f, l) \ {t} /\ t \in Where(f, l)
    BY SMT, <1>2 DEF Where
  <2>2. Cardinality(Where(f, l) \ {t}) = Cardinality(Where(f, l)) - 1
    BY <1>f, <2>1, FS_RemoveElement
  <2> QED
    BY SMT, <1>f, <1>2, <2>1, <2>2
<1>3. CASE f[t] # l /\ g[t] = l
  <2>1. Where(g, l) = Where(f, l) \cup {t} /\ t \notin Where(f, l)
    BY <1>3 DEF Where
  <2>2. Cardinality(Where(f, l) \cup {t}) = Cardinality(Where(f, l)) + 1
    BY <1>f, <2>1, FS_AddElement
  <2> QED
    BY SMT, <1>f, <1>3, <2>1, <2>2
<1> QED
  BY <1>1, <1>2, <1>3

(* The counters count.                                                     *)
LEMMA CountedStep ==
  ASSUME IInv, NEW t \in Threads, StepOf(t)
  PROVE  Counted'
<1>1. pc \in [Threads -> PCs]
  BY DEF IInv, Types
<1>2. pc' \in [Threads -> PCs] /\ \A u \in Threads : u # t => pc'[u] = pc[u]
  BY Counters DEF CounterMoves
<1>3. fullWaited' = Cardinality(Where(pc', "fullWait"))
  <2>1. fullWaited' = fullWaited + (IF pc'[t] = "fullWait" THEN 1 ELSE 0) - (IF pc[t] = "fullWait" THEN 1 ELSE 0)
    BY Counters DEF CounterMoves
  <2>2. fullWaited = Cardinality(Where(pc, "fullWait"))
    BY DEF IInv, Counted
  <2> QED
    BY SMT, <1>1, <1>2, <2>1, <2>2, OneMoves
<1>4. emptyWaited' = Cardinality(Where(pc', "emptyWait"))
  <2>1. emptyWaited' = emptyWaited + (IF pc'[t] = "emptyWait" THEN 1 ELSE 0) - (IF pc[t] = "emptyWait" THEN 1 ELSE 0)
    BY Counters DEF CounterMoves
  <2>2. emptyWaited = Cardinality(Where(pc, "emptyWait"))
    BY DEF IInv, Counted
  <2> QED
    BY SMT, <1>1, <1>2, <2>1, <2>2, OneMoves
<1>5. WaiterMoves(t)
  BY WaitSets
<1>6. \A u \in Threads : /\ u \in waiters'["full"] => pc'[u] = "fullWait"
                         /\ u \in waiters'["empty"] => pc'[u] = "emptyWait"
  BY SMT, <1>2, <1>5 DEF WaiterMoves, Conds, IInv, Counted, Where
<1>7. waiters["full"]' \subseteq Where(pc', "fullWait") /\ waiters["empty"]' \subseteq Where(pc', "emptyWait")
  BY <1>5, <1>6 DEF WaiterMoves, Conds, Where
<1> QED
  BY <1>3, <1>4, <1>7 DEF Counted

(* The types are kept: Get takes an event only when count is positive.     *)
LEMMA TypesStep ==
  ASSUME IInv, NEW t \in Threads, StepOf(t)
  PROVE  Types'
<1>1. pc' \in [Threads -> PCs]
  BY Counters DEF CounterMoves
<1>2. q.count \in Nat /\ fullSize \in Sizes /\ closed \in BOOLEAN /\ waiters \in [Conds -> SUBSET Threads]
  BY DEF IInv, Types
<1>3. q'.count \in Nat
  <2>1. \/ q' = q
        \/ \E p, v : push(p, v)
        \/ q.count > 0 /\ pop
    BY DEF StepOf, AddNoWait, Add, AddLoop, Accept, AddResume, Run, Get, GetResume, GetLoop, RunNext,
       EventReturns, Close, CloseLocked, SetFullSize, SignalEmpty, CloseBroadcastsEmpty, BroadcastFull
  <2>2. ASSUME NEW p, NEW v, push(p, v)
        PROVE  q'.count = q.count + 1
    BY <2>2 DEF push
  <2>3. ASSUME pop
        PROVE  q'.count = q.count - 1
    BY <2>3 DEF pop
  <2> QED
    BY SMT, <1>2, <2>1, <2>2, <2>3
<1>4. fullSize' \in Sizes /\ closed' \in BOOLEAN
  BY <1>2 DEF StepOf, AddNoWait, Add, AddResume, Run, Get, GetResume, RunNext, EventReturns, Close,
     CloseLocked, SetFullSize, SignalEmpty, CloseBroadcastsEmpty, BroadcastFull, sizeVars
<1>5. waiters' \in [Conds -> SUBSET Threads]
  BY WaitSets DEF WaiterMoves
<1> QED
  BY <1>1, <1>3, <1>4, <1>5 DEF Types

(* One goroutine is in Run: the compare-and-swap lets nobody else in.      *)
LEMMA OneRunsStep ==
  ASSUME IInv, NEW t \in Threads, StepOf(t)
  PROVE  OneRuns'
<1>1. Nil \notin Threads
  BY EventQueueAssumption DEF EventQueueAssumption, Threads
<1>2. started' = started \/ (started = Nil /\ started' = t /\ Run(t))
  BY DEF StepOf, AddNoWait, Add, AddResume, Run, Get, GetResume, RunNext, EventReturns, Close, CloseLocked,
     SetFullSize, SignalEmpty, CloseBroadcastsEmpty, BroadcastFull, runVars
<1>3. started' \in Threads \cup {Nil}
  BY <1>2 DEF IInv, OneRuns
<1>4. \A u \in Threads : u # t => pc'[u] = pc[u]
  BY Counters DEF CounterMoves
<1>5. CASE Run(t)
  BY <1>1, <1>3, <1>4, <1>5 DEF Run, Goto, IInv, OneRuns
<1>6. CASE started' = started
  <2>1. pc'[t] \in RunPCs => t = started
    BY <1>1, <1>6 DEF IInv, Types, OneRuns, PCs, RunPCs, StepOf, AddNoWait, Add, AddLoop, Accept, AddResume,
       Run, Get, GetResume, GetLoop, RunNext, EventReturns, Close, CloseLocked, SetFullSize, SignalEmpty,
       CloseBroadcastsEmpty, BroadcastFull, Goto, Return, Free
  <2> QED
    BY <1>3, <1>4, <1>6, <2>1 DEF IInv, OneRuns
<1> QED
  BY <1>2, <1>5, <1>6

-----------------------------------------------------------------------------
(* A counter that is 0 means that nobody can be woken.                     *)
LEMMA NobodyToWake ==
  ASSUME IInv
  PROVE  /\ ~(fullWaited > 0) => waiters["full"] = {}
         /\ ~(emptyWaited > 0) => waiters["empty"] = {}
<1>1. /\ Where(pc, "fullWait") # {} => fullWaited > 0
      /\ Where(pc, "emptyWait") # {} => emptyWaited > 0
  BY CountThreads DEF IInv, Counted
<1> QED
  BY <1>1 DEF IInv, Counted

(* Who waits for events is the goroutine in Run.                           *)
LEMMA OneWaits ==
  ASSUME IInv
  PROVE  \A t, u \in waiters["empty"] : t = u
  BY DEF IInv, Counted, Where, OneRuns, RunPCs

(* No step loses a wake-up.  An accepted event, a taken one, a larger size *)
(* and Close leave their goroutine at the label of the wake-up that is due *)
(* if somebody waits; and a goroutine leaves that label only when it has   *)
(* woken them.                                                             *)
LEMMA WakeupsStep ==
  ASSUME IInv, NEW t \in Threads, StepOf(t)
  PROVE  Wakeups'
<1>t. /\ q.count \in Nat /\ fullSize \in Int /\ closed \in BOOLEAN
      /\ waiters \in [Conds -> SUBSET Threads] /\ pc \in [Threads -> PCs]
  BY EventQueueAssumption DEF IInv, Types, EventQueueAssumption
<1>w. Wakeups
  BY DEF IInv
<1>z. /\ ~(fullWaited > 0) => waiters["full"] = {}
      /\ ~(emptyWaited > 0) => waiters["empty"] = {}
  BY NobodyToWake
<1>s. Sizes \subseteq Int
  BY EventQueueAssumption DEF EventQueueAssumption
<1>m. \A u \in Threads : u # t => pc'[u] = pc[u]
  BY Counters DEF CounterMoves
<1>a. ASSUME NEW p, Accept(t, p), UNCHANGED <<waiters, closed, fullSize>>,
             pc[t] \notin {"signalEmpty", "closeEmpty", "broadcastFull", "gotBroadcast"}
      PROVE  Wakeups'
  <2>1. q'.count = q.count + 1
    BY <1>a DEF Accept, push
  <2>2. waiters["empty"] # {} => pc'[t] = "signalEmpty"
    BY <1>a, <1>z, <1>t DEF Accept, Goto
  <2> QED
    BY SMT, <1>t, <1>w, <1>a, <1>m, <2>1, <2>2 DEF Wakeups
<1>b. ASSUME NEW p, NEW n, AddLoop(t, p, n), ~closed, UNCHANGED <<closed, fullSize>>,
             pc[t] \notin {"signalEmpty", "closeEmpty", "broadcastFull", "gotBroadcast"}
      PROVE  Wakeups'
  <2>1. CASE q.count < fullSize
    BY SMT, <1>t, <1>a, <1>b, <2>1 DEF AddLoop
  <2>2. CASE q.count >= fullSize
    BY SMT, <1>t, <1>w, <1>m, <1>b, <2>2 DEF AddLoop, Wakeups, C!Enqueue, Conds
  <2> QED
    BY SMT, <1>s, <1>t, <2>1, <2>2
<1>c. ASSUME NEW n, GetLoop(t, n), UNCHANGED <<closed, fullSize>>,
             pc[t] \notin {"signalEmpty", "closeEmpty", "broadcastFull", "gotBroadcast"}
      PROVE  Wakeups'
  <2>1. CASE ~closed /\ q.count = 0
    BY SMT, <1>t, <1>w, <1>m, <1>c, <2>1 DEF GetLoop, Wakeups, C!Enqueue, Conds
  <2>2. CASE closed \/ q.count > 0
    <3>1. waiters' = waiters
      BY SMT, <1>c, <1>t, <2>2 DEF GetLoop
    <3>2. q'.count \in Nat /\ q'.count <= q.count
      BY SMT, <1>c, <1>t, <2>2 DEF GetLoop, pop
    <3>3. waiters["full"] # {} => pc'[t] = "gotBroadcast"
      BY SMT, <1>c, <1>t, <1>z, <2>2 DEF GetLoop, Goto
    <3> QED
      BY SMT, <1>t, <1>w, <1>m, <1>c, <3>1, <3>2, <3>3 DEF Wakeups
  <2> QED
    BY SMT, <1>t, <2>1, <2>2
<1>1. ASSUME NEW p \in Priorities, NEW fullReturn \in BOOLEAN, AddNoWait(t, p, fullReturn)
      PROVE  Wakeups'
  BY <1>a, <1>1 DEF AddNoWait, Free, sizeVars
<1>2. ASSUME NEW p \in Priorities, Add(t, p)
      PROVE  Wakeups'
  BY <1>b, <1>2 DEF Add, Free, sizeVars
<1>3. CASE AddResume(t)
  <2>1. CASE ~closed
    BY <1>b, <1>3, <2>1 DEF AddResume, sizeVars
  <2>2. CASE closed
    BY <1>t, <1>w, <1>m, <1>3, <2>2 DEF AddResume, sizeVars, Wakeups
  <2> QED
    BY <2>1, <2>2
<1>4. CASE Get(t) \/ GetResume(t)
  BY <1>c, <1>4 DEF Get, GetResume, sizeVars
<1>5. CASE Run(t) \/ RunNext(t) \/ EventReturns(t) \/ Close(t)
  BY SMT, <1>t, <1>w, <1>m, <1>5 DEF Run, RunNext, EventReturns, Close, Free, sizeVars, Wakeups
<1>6. CASE CloseLocked(t)
  BY <1>t, <1>w, <1>m, <1>6 DEF CloseLocked, Goto, Wakeups
<1>7. ASSUME NEW n \in Sizes, SetFullSize(t, n)
      PROVE  Wakeups'
  <2>1. CASE fullSize < n /\ fullWaited > 0
    BY <1>t, <1>w, <1>m, <1>7, <2>1 DEF SetFullSize, Goto, Free, Wakeups
  <2>2. CASE ~(fullSize < n /\ fullWaited > 0)
    BY SMT, <1>s, <1>t, <1>w, <1>z, <1>7, <2>2 DEF SetFullSize, Wakeups
  <2> QED
    BY <2>1, <2>2
<1>8. CASE SignalEmpty(t)
  <2>1. waiters'["empty"] = {} /\ waiters'["full"] = waiters["full"]
    BY <1>t, <1>8, OneWaits DEF SignalEmpty, C!WakeOne, C!Withdraw, Conds
  <2> QED
    BY <1>t, <1>w, <1>m, <1>8, <2>1 DEF SignalEmpty, sizeVars, Wakeups
<1>9. CASE CloseBroadcastsEmpty(t)
  BY <1>t, <1>w, <1>m, <1>9 DEF CloseBroadcastsEmpty, C!WakeAll, Conds, Goto, sizeVars, Wakeups
<1>10. CASE BroadcastFull(t)
  BY <1>t, <1>w, <1>m, <1>10 DEF BroadcastFull, C!WakeAll, Conds, sizeVars, Wakeups
<1> QED
  BY <1>1, <1>2, <1>3, <1>4, <1>5, <1>6, <1>7, <1>8, <1>9, <1>10 DEF StepOf

-----------------------------------------------------------------------------
(* The invariant is inductive.                                             *)
LEMMA NextIInv == IInv /\ [Next]_vars => IInv'
<1> SUFFICES ASSUME IInv, [Next]_vars
             PROVE  IInv'
  OBVIOUS
<1>1. CASE Next
  <2>1. PICK t \in Threads : StepOf(t)
    BY <1>1, NextStep
  <2> QED
    BY <2>1, TypesStep, OneRunsStep, CountedStep, WakeupsStep DEF IInv
<1>2. CASE UNCHANGED vars
  BY <1>2 DEF vars, IInv, Types, OneRuns, Counted, Wakeups
<1> QED
  BY <1>1, <1>2

(* In every state the queue reaches, the counters are exact, one goroutine *)
(* runs the events, and every due wake-up is on its way.                   *)
THEOREM Invariance == Spec => []IInv
  BY InitIInv, NextIInv, PTL DEF Spec

(* While Run waits although there are events, or the queue is closed, and  *)
(* while a poster waits although there is room, somebody is about to wake  *)
(* them: Get, Add and SetFullSize, which signal after the unlock on the    *)
(* strength of a counter read under the lock, never leave one asleep.      *)
THEOREM WakeupsKept == Spec => []NoLostWakeup
<1>1. IInv => NoLostWakeup
  <2> SUFFICES ASSUME IInv
               PROVE  NoLostWakeup
    OBVIOUS
  <2>1. /\ {t \in Threads : pc[t] \in {"fullWait"}} = Where(pc, "fullWait")
        /\ {t \in Threads : pc[t] \in {"emptyWait"}} = Where(pc, "emptyWait")
    BY DEF Where
  <2>2. /\ fullWaited = Cardinality({t \in Threads : pc[t] \in {"fullWait"}})
        /\ emptyWaited = Cardinality({t \in Threads : pc[t] \in {"emptyWait"}})
    BY <2>1, Zenon DEF IInv, Counted
  <2> QED
    BY <2>2 DEF NoLostWakeup, IInv, Wakeups
<1> QED
  BY <1>1, Invariance, PTL

-----------------------------------------------------------------------------
(* The maximum and the minimum of a set, from the element that is it.      *)
LEMMA MaxIs ==
  ASSUME NEW S, S \subseteq Int, NEW m \in S, \A x \in S : x <= m
  PROVE  Max(S) = m
<1>1. \A x \in S : (\A y \in S : x >= y) <=> x = m
  BY SMT
<1> QED
  BY <1>1, Zenon DEF Max

(* The same for the minimum.                                               *)
LEMMA MinIs ==
  ASSUME NEW S, S \subseteq Int, NEW m \in S, \A x \in S : m <= x
  PROVE  Min(S) = m
<1>1. \A x \in S : (\A y \in S : x =< y) <=> x = m
  BY SMT
<1> QED
  BY <1>1, Zenon DEF Min

(* The minimum of two numbers.                                             *)
LEMMA OfTwo ==
  ASSUME NEW a \in Int, NEW b \in Int
  PROVE  /\ Max({a, b}) = IF a >= b THEN a ELSE b
         /\ Min({a, b}) = IF a <= b THEN a ELSE b
<1> DEFINE S == {a, b}
<1>1. S \subseteq Int /\ a \in S /\ b \in S /\ \A x \in S : x = a \/ x = b
  OBVIOUS
<1> HIDE DEF S
<1>2. CASE a >= b
  <2>1. \A x \in S : x <= a /\ b <= x
    BY SMT, <1>1, <1>2
  <2>2. Max(S) = a /\ Min(S) = b
    BY <1>1, <2>1, MaxIs, MinIs
  <2> QED
    BY SMT, <1>2, <2>2 DEF S
<1>3. CASE ~(a >= b)
  <2>1. \A x \in S : x <= b /\ a <= x
    BY SMT, <1>1, <1>3
  <2>2. Max(S) = b /\ Min(S) = a
    BY <1>1, <2>1, MaxIs, MinIs
  <2> QED
    BY SMT, <1>3, <2>2 DEF S
<1> QED
  BY <1>2, <1>3

(* A set of naturals that is bounded and not empty has a greatest element. *)
LEMMA Greatest ==
  ASSUME NEW S \in SUBSET Nat, S # {}, NEW b \in Nat, \A x \in S : x <= b
  PROVE  \E m \in S : \A x \in S : x <= m
<1> DEFINE B == {n \in Nat : \A x \in S : x <= n}
<1>1. PICK n \in B : \A k \in B : ~(<<k, n>> \in OpToRel(<, Nat))
  <2>1. B \subseteq Nat /\ B # {}
    OBVIOUS
  <2> QED
    BY <2>1, WFMin, NatLessThanWellFounded
<1>2. \A k \in B : ~(k < n)
  BY <1>1 DEF OpToRel
<1>3. n \in S
  <2> SUFFICES ASSUME n \notin S
               PROVE  FALSE
    OBVIOUS
  <2>1. \A x \in S : x < n
    BY SMT
  <2>2. PICK y \in S : TRUE
    OBVIOUS
  <2>5. n \in Nat /\ y \in Nat /\ y < n
    BY <2>1
  <2>3. \A x \in S : x <= n - 1
    BY SMT, <2>1, <2>5
  <2>4. n - 1 \in B
    BY SMT, <2>5, <2>3
  <2> QED
    BY SMT, <1>2, <2>4
<1> QED
  BY <1>3

-----------------------------------------------------------------------------
(* The links of a list that holds the events S: from each to the next one  *)
(* that was pushed, and from the last, the tail, to the first.             *)
Linked(list, S) ==
  /\ DOMAIN list.next = S
  /\ S = {} => list.tail = Nil
  /\ S # {} => list.tail \in S /\ \A e \in S : e <= list.tail
  /\ \A e \in S : list.next[e] \in S
  /\ \A f \in S : list.next[list.tail] <= f
  /\ \A e \in S : e # list.tail => e < list.next[e]
  /\ \A e, f \in S : e # list.tail => f <= e \/ list.next[e] <= f

(* An empty list has no events.                                            *)
LEMMA EmptyLinked == Linked(L!EmptyList, {})
  BY SMT DEF Linked, L!EmptyList

(* Whether a list is empty is seen from its tail.                          *)
LEMMA TailTells ==
  ASSUME NEW list, NEW S \in SUBSET Nat, Linked(list, S)
  PROVE  L!IsEmpty(list) <=> S = {}
  BY EventQueueAssumption DEF EventQueueAssumption, Linked, L!IsEmpty

(* A push puts a later event at the end.                                   *)
LEMMA PushLinked ==
  ASSUME NEW list, NEW S \in SUBSET Nat, Linked(list, S), NEW v \in Nat, \A e \in S : e < v
  PROVE  Linked(L!Push(list, v), S \cup {v})
<1> DEFINE new == L!Push(list, v)
<1>e. L!IsEmpty(list) <=> S = {}
  BY TailTells
<1>1. CASE S = {}
  <2>1. new = [tail |-> v, next |-> [i \in {v} |-> v]]
    <3>1. DOMAIN list.next \cup {v} = {v}
      BY <1>1 DEF Linked
    <3>2. L!Link(list.next, v, v) = [i \in {v} |-> v]
      BY <3>1 DEF L!Link
    <3> QED
      BY <1>e, <1>1, <3>2 DEF L!Push
  <2> QED
    BY SMT, <1>1, <2>1 DEF Linked
<1>2. CASE S # {}
  <2>1. new.tail = v
    BY <1>e, <1>2 DEF L!Push
  <2>t. list.tail \in S /\ v \notin S
    BY SMT, <1>2 DEF Linked
  <2>2. new.next = [i \in S \cup {v} |-> IF i = list.tail THEN v ELSE IF i = v THEN list.next[list.tail] ELSE list.next[i]]
    <3>1. DOMAIN list.next = S /\ (S \cup {v}) \cup {list.tail} = S \cup {v}
      BY <2>t DEF Linked
    <3>2. new.next = L!Link(L!Link(list.next, v, L!First(list)), list.tail, v)
      BY <1>e, <1>2 DEF L!Push
    <3> QED
      BY <3>1, <3>2 DEF L!Link, L!First
  <2>3. DOMAIN new.next = S \cup {v}
    BY <2>2
  <2>4. new.next[v] = list.next[list.tail] /\ new.next[list.tail] = v
    BY <2>2, <2>t
  <2>5. \A e \in S : e # list.tail => new.next[e] = list.next[e]
    BY <2>2, <2>t
  <2> HIDE DEF new
  <2> DEFINE T == S \cup {v}
  <2>6. list.next[list.tail] \in S /\ \A f \in S : list.next[list.tail] <= f
    BY <2>t DEF Linked
  <2>7. \A e \in S : list.next[e] \in S /\ e <= list.tail
    BY <1>2 DEF Linked
  <2>u. \A e \in S : e # list.tail => e < list.next[e]
    BY DEF Linked
  <2>v. \A e, f \in S : e # list.tail => f <= e \/ list.next[e] <= f
    BY DEF Linked
  <2>8. \A e \in T : new.next[e] \in T
    BY <2>4, <2>5, <2>6, <2>7
  <2>9. \A e \in T : e # v => e < new.next[e]
    <3> SUFFICES ASSUME NEW e \in S
                 PROVE  e < new.next[e]
      OBVIOUS
    <3> QED
      BY <2>4, <2>5, <2>u
  <2>10. \A e, f \in T : e # v => f <= e \/ new.next[e] <= f
    <3> SUFFICES ASSUME NEW e \in S, NEW f \in S \cup {v}
                 PROVE  f <= e \/ new.next[e] <= f
      OBVIOUS
    <3>1. CASE e = list.tail
      BY SMT, <3>1, <2>4, <2>7
    <3>2. CASE e # list.tail /\ f \in S
      BY <3>2, <2>5, <2>v
    <3>3. CASE e # list.tail /\ f = v
      <4>1. list.next[e] \in S
        BY <2>7
      <4>2. list.next[e] < v
        BY <4>1
      <4>3. new.next[e] \in Nat /\ new.next[e] < v
        BY <4>1, <4>2, <3>3, <2>5
      <4> QED
        BY SMT, <3>3, <4>3
    <3> QED
      BY <3>1, <3>2, <3>3
  <2>14. DOMAIN new.next = T
    BY <2>3
  <2>11. \A e \in T : e <= v
    BY SMT
  <2>12. list.next[list.tail] <= v
    BY <2>6, <2>11
  <2>13. \A f \in T : new.next[v] <= f
    BY <2>4, <2>6, <2>12
  <2> QED
    <3>1. v \in T
      OBVIOUS
    <3> HIDE DEF T
    <3>2. Linked(new, T)
      BY <2>1, <2>14, <2>8, <2>9, <2>10, <2>11, <2>13, <3>1 DEF Linked
    <3> QED
      BY <3>2 DEF T, new
<1> QED
  BY <1>1, <1>2

(* A pop takes the first event.                                            *)
LEMMA PopLinked ==
  ASSUME NEW list, NEW S \in SUBSET Nat, Linked(list, S), S # {}
  PROVE  /\ L!First(list) \in S
         /\ \A f \in S : L!First(list) <= f
         /\ Linked(L!Pop(list), S \ {L!First(list)})
<1> DEFINE new == L!Pop(list)
           item == L!First(list)
<1>t. list.tail \in S /\ item \in S /\ (\A f \in S : item <= f)
  BY DEF Linked, L!First
<1>1. CASE item = list.tail
  <2>1. \A e \in S : e <= item /\ item <= e
    BY <1>1, <1>t DEF Linked
  <2>2. new = L!EmptyList
    BY <1>1 DEF L!Pop
  <2> HIDE DEF item
  <2>4. ASSUME NEW e \in S
        PROVE  e = item
    <3>1. e \in Nat /\ item \in Nat
      BY <1>t
    <3> QED
      BY SMT, <2>1, <3>1
  <2>3. S \ {item} = {}
    BY <2>4
  <2> QED
    BY <1>t, <2>2, <2>3, EmptyLinked DEF item
<1>2. CASE item # list.tail
  <2>1. new = [tail |-> list.tail, next |-> [i \in S \ {item} |-> L!Link(list.next, list.tail, list.next[item])[i]]]
    BY <1>2 DEF L!Pop, L!Items, Linked
  <2>2. new.tail = list.tail /\ DOMAIN new.next = S \ {item}
    BY SMT, <2>1
  <2>3. \A i \in S \ {item} : new.next[i] = IF i = list.tail THEN list.next[item] ELSE list.next[i]
    BY SMT, <2>1 DEF L!Link, Linked
  <2> HIDE DEF new
  <2>7. \A e \in S : list.next[e] \in S /\ e <= list.tail
    BY DEF Linked
  <2>u. \A e \in S : e # list.tail => e < list.next[e]
    BY DEF Linked
  <2>v. \A e, f \in S : e # list.tail => f <= e \/ list.next[e] <= f
    BY DEF Linked
  <2> HIDE DEF item
  <2>8. \A e \in S \ {item} : new.next[e] \in S \ {item}
    <3> SUFFICES ASSUME NEW e \in S, e # item
                 PROVE  new.next[e] \in S /\ new.next[e] # item
      OBVIOUS
    <3>1. CASE e = list.tail
      <4>1. new.next[e] = list.next[item] /\ list.next[item] \in S
        BY <1>t, <2>3, <2>7, <3>1
      <4>2. item < list.next[item]
        BY <1>t, <1>2, <2>u
      <4>3. item \in Nat
        BY <1>t
      <4> QED
        BY SMT, <4>1, <4>2, <4>3
    <3>2. CASE e # list.tail
      BY SMT, <3>2, <1>t, <2>3, <2>7, <2>u
    <3> QED
      BY <3>1, <3>2
  <2>9. \A e \in S \ {item} : e # list.tail => e < new.next[e]
    BY <2>3, <2>u
  <2>10. \A e, f \in S \ {item} : e # list.tail => f <= e \/ new.next[e] <= f
    BY <2>3, <2>v
  <2>11. \A f \in S \ {item} : new.next[list.tail] <= f
    <3> SUFFICES ASSUME NEW f \in S, f # item
                 PROVE  new.next[list.tail] <= f
      OBVIOUS
    <3>1. f <= item \/ list.next[item] <= f
      BY <1>t, <1>2, <2>v
    <3>2. item <= f /\ item \in Nat /\ f \in Nat
      BY <1>t
    <3>3. list.next[item] <= f
      BY SMT, <3>1, <3>2
    <3> QED
      BY <1>t, <1>2, <2>3, <3>3
  <2>12. Linked(new, S \ {item})
    BY <1>t, <1>2, <2>2, <2>7, <2>8, <2>9, <2>10, <2>11 DEF Linked
  <2> QED
    BY <1>t, <2>12 DEF item, new
<1> QED
  BY <1>1, <1>2

-----------------------------------------------------------------------------
(* The levels of the priority queue are 0 up to a greatest one, and the    *)
(* level of a post is one of them.                                         *)
LEMMA LevelsAre == \E n \in Nat : Levels = 0..n /\ Max(Levels) = n
<1>1. \E m \in Nat : m > 0 /\ Max({PriorityCount, 1}) = m
  <2>1. PriorityCount \in Int
    BY EventQueueAssumption DEF EventQueueAssumption
  <2>2. Max({PriorityCount, 1}) = IF PriorityCount >= 1 THEN PriorityCount ELSE 1
    BY SMT, <2>1, OfTwo
  <2> QED
    BY SMT, <2>1, <2>2
<1>2. PICK m \in Nat : m > 0 /\ Max({PriorityCount, 1}) = m
  BY <1>1
<1>3. Levels = 0..(m - 1) /\ m - 1 \in Nat
  BY SMT, <1>2 DEF Levels
<1>4. Max(Levels) = m - 1
  <2>1. Levels \subseteq Int /\ m - 1 \in Levels /\ \A x \in Levels : x <= m - 1
    BY SMT, <1>3
  <2> QED
    BY <2>1, MaxIs, Zenon
<1> QED
  BY <1>3, <1>4, Zenon

(* push clamps the priority of a post to a level.                          *)
LEMMA ClampLevel ==
  ASSUME NEW p \in Int
  PROVE  Clamp(p) \in Levels
<1>1. PICK n \in Nat : Levels = 0..n /\ Max(Levels) = n
  BY LevelsAre
<1>2. Min({p, n}) = IF p <= n THEN p ELSE n
  BY SMT, OfTwo
<1>3. Clamp(p) = IF p < 0 THEN 0 ELSE IF p <= n THEN p ELSE n
  BY <1>1, <1>2, Zenon DEF Clamp
<1> QED
  BY SMT, <1>1, <1>3

-----------------------------------------------------------------------------
(* The events that wait at a level.                                        *)
Level(p) == {e \in Queued : prio[e] = p}

(* The pq holds the events that were accepted and not taken.               *)
Pq ==
  /\ DOMAIN q.list = Levels
  /\ q.high \in Levels
  /\ q.count = Cardinality(Queued)
  /\ \A p \in Levels : Linked(q.list[p], Level(p))
  /\ \A e \in Queued : prio[e] <= q.high
  /\ q.high = 0 \/ \E e \in Queued : prio[e] = q.high

(* What Get returned has been called unless Run is about to call it.       *)
Taken == got.v \in ran \cup {Nil} \/ \E t \in Threads : pc[t] \in {"got", "gotBroadcast"}

History ==
  /\ closeOnce \in BOOLEAN
  /\ started \in Runners \cup {Nil}
  /\ want \in [Threads -> Priorities \cup {0}]
  /\ prio \in Seq(Levels) /\ Len(prio) <= MaxEvents
  /\ ran \subseteq Events
  /\ got.v \in Events \cup {Nil}

QInv == IInv /\ Pq /\ Taken /\ History

(* What a step does to the pq and the events in it: nothing, ...           *)
Leaves == q' = q /\ prio' = prio /\ Queued' = Queued

(* ... an event is accepted, ...                                           *)
Accepts(p) ==
  /\ Len(prio) < MaxEvents
  /\ prio' = Append(prio, Clamp(p))
  /\ push(p, Len(prio) + 1)
  /\ UNCHANGED <<got, ran>>

(* ... or one is taken.                                                    *)
Takes ==
  /\ q.count > 0
  /\ pop
  /\ got'.v = front
  /\ got.v \in ran \cup {Nil}
  /\ UNCHANGED <<prio, ran>>

(* Get is called when the event taken before has been called.              *)
LEMMA TakenBefore ==
  ASSUME QInv, NEW t \in Threads, pc[t] \in {"get", "emptyWait"}
  PROVE  got.v \in ran \cup {Nil}
<1>1. \A u \in Threads : pc[u] \in RunPCs => u = started
  BY DEF QInv, IInv, OneRuns
<1>2. \A u \in Threads : pc[u] \notin {"got", "gotBroadcast"}
  BY <1>1 DEF RunPCs
<1> QED
  BY <1>2 DEF QInv, Taken

(* Every step leaves the pq alone, accepts an event or takes one.          *)
LEMMA QueueMoves ==
  ASSUME QInv, NEW t \in Threads, StepOf(t)
  PROVE  Leaves \/ (\E p \in Priorities \cup {0} : Accepts(p)) \/ Takes
<1> DEFINE Goal == Leaves \/ (\E p \in Priorities \cup {0} : Accepts(p)) \/ Takes
<1>n. Nil \notin Nat
  BY EventQueueAssumption DEF EventQueueAssumption
<1>l. ASSUME UNCHANGED <<q, prio, got, ran>>
      PROVE  Goal
  BY <1>l DEF Leaves, Queued, Events
<1>a. ASSUME NEW p \in Priorities \cup {0}, Accept(t, p), UNCHANGED <<got, ran>>
      PROVE  Goal
  <2>1. Accepts(p)
    BY <1>a, Zenon DEF Accept, Accepts
  <2> QED
    BY <2>1
<1>g. ASSUME NEW n, GetLoop(t, n), pc[t] \in {"get", "emptyWait"}, UNCHANGED <<prio, ran>>
      PROVE  Goal
  <2>1. got.v \in ran \cup {Nil}
    BY <1>g, TakenBefore
  <2>2. CASE q' = q /\ got' = got
    BY <1>l, <1>g, <2>2
  <2>3. CASE q.count > 0 /\ pop /\ got'.v = front
    BY <1>g, <2>1, <2>3 DEF Takes
  <2>4. CASE q' = q /\ got'.v = Nil
    BY SMT, <1>g, <1>n, <2>1, <2>4 DEF Leaves, Queued, Events
  <2> QED
    <3>1. CASE closed \/ q.count > 0
      BY SMT, <1>g, <2>3, <2>4, <3>1 DEF GetLoop
    <3>2. CASE ~(closed \/ q.count > 0)
      BY <1>g, <2>2, <3>2 DEF GetLoop
    <3> QED
      BY <3>1, <3>2
<1>1. ASSUME NEW p \in Priorities, NEW fullReturn \in BOOLEAN, AddNoWait(t, p, fullReturn)
      PROVE  Goal
  BY <1>1, <1>a DEF AddNoWait, runVars
<1>2. ASSUME NEW p \in Priorities, Add(t, p)
      PROVE  Goal
  BY <1>2, <1>a, <1>l DEF Add, AddLoop, runVars
<1>3. CASE AddResume(t)
  <2>1. want[t] \in Priorities \cup {0}
    BY DEF QInv, History
  <2> QED
    BY <1>3, <1>a, <1>l, <2>1 DEF AddResume, AddLoop, runVars
<1>4. CASE Get(t) \/ GetResume(t)
  BY <1>4, <1>g DEF Get, GetResume
<1>5. CASE RunNext(t)
  BY <1>5, <1>n DEF RunNext, Leaves, Queued, Events
<1>6. CASE Run(t) \/ EventReturns(t) \/ Close(t) \/ CloseLocked(t)
  BY <1>6, <1>l DEF Run, EventReturns, Close, CloseLocked, runVars
<1>7. ASSUME NEW n \in Sizes, SetFullSize(t, n)
      PROVE  Goal
  BY <1>7, <1>l DEF SetFullSize, runVars
<1>8. CASE SignalEmpty(t) \/ CloseBroadcastsEmpty(t) \/ BroadcastFull(t)
  BY <1>8, <1>l DEF SignalEmpty, CloseBroadcastsEmpty, BroadcastFull, runVars
<1> QED
  BY <1>1, <1>2, <1>3, <1>4, <1>5, <1>6, <1>7, <1>8 DEF StepOf

(* The events that wait are finitely many numbers.                         *)
LEMMA FiniteQueued ==
  ASSUME History
  PROVE  /\ Len(prio) \in Nat /\ Events = 1..Len(prio)
         /\ \A e \in Events : prio[e] \in Levels
         /\ Queued \subseteq Events /\ Queued \subseteq Nat
         /\ IsFiniteSet(Queued)
         /\ Cardinality(Queued) \in 0..Len(prio)
         /\ Cardinality(Queued) > 0 <=> Queued # {}
<1>1. Len(prio) \in Nat /\ Events = 1..Len(prio) /\ \A e \in Events : prio[e] \in Levels
  BY SMT DEF History, Events
<1>2. Queued \subseteq Events /\ Queued \subseteq Nat
  BY SMT, <1>1 DEF Queued
<1>3. IsFiniteSet(1..Len(prio)) /\ Cardinality(1..Len(prio)) = Len(prio)
  <2>1. Len(prio) \in Int /\ 1 \in Int
    BY SMT, <1>1
  <2>2. /\ IsFiniteSet(1..Len(prio))
        /\ Cardinality(1..Len(prio)) = IF 1 > Len(prio) THEN 0 ELSE Len(prio) - 1 + 1
    BY <2>1, FS_Interval
  <2> QED
    BY SMT, <1>1, <2>2
<1>4. IsFiniteSet(Queued) /\ Cardinality(Queued) <= Cardinality(1..Len(prio))
  BY <1>1, <1>2, <1>3, FS_Subset
<1>5. Cardinality(Queued) \in Nat /\ (Cardinality(Queued) = 0 <=> Queued = {})
  BY <1>4, FS_CardinalityType, FS_EmptySet
<1>6. Cardinality(Queued) \in 0..Len(prio)
  BY SMT, <1>1, <1>3, <1>4, <1>5
<1>7. Cardinality(Queued) > 0 <=> Queued # {}
  BY SMT, <1>5
<1> QED
  BY <1>1, <1>2, <1>4, <1>6, <1>7

(* An accepted event goes to the end of the list of its level.             *)
LEMMA AcceptStep ==
  ASSUME QInv, NEW p \in Priorities \cup {0}, Accepts(p)
  PROVE  Pq' /\ ~(Queued' \subseteq Queued)
<1> DEFINE v == Len(prio) + 1
           c == Clamp(p)
<1>h. History
  BY DEF QInv
<1>p. Pq
  BY DEF QInv
<1>n. Nil \notin Nat
  BY EventQueueAssumption DEF EventQueueAssumption
<1>c. c \in Levels
  BY SMT, ClampLevel, EventQueueAssumption DEF EventQueueAssumption
<1>f. /\ Len(prio) \in Nat /\ Events = 1..Len(prio)
      /\ \A e \in Events : prio[e] \in Levels
      /\ Queued \subseteq Events /\ Queued \subseteq Nat
      /\ IsFiniteSet(Queued)
      /\ Cardinality(Queued) \in 0..Len(prio)
  BY <1>h, FiniteQueued
<1>i. Levels \subseteq Nat
  BY SMT, LevelsAre
<1> HIDE DEF c
<1>1. /\ Events' = Events \cup {v} /\ v \notin Events /\ v \in Nat
      /\ prio'[v] = c /\ \A e \in Events : prio'[e] = prio[e]
  <2>1. prio \in Seq(Levels) /\ prio' = Append(prio, c)
    BY <1>h DEF History, Accepts, c
  <2>2. Len(prio') = v /\ prio'[v] = c /\ \A e \in 1..Len(prio) : prio'[e] = prio[e]
    BY SMT, <2>1, <1>c
  <2>3. 1..v = 1..Len(prio) \cup {v}
    BY SMT, <1>f
  <2> QED
    BY SMT, <1>f, <2>2, <2>3 DEF Events
<1>2. Queued' = Queued \cup {v} /\ v \notin Queued
  <2>1. v \notin ran /\ v # got.v
    BY <1>h, <1>1, <1>n DEF History
  <2>2. ran' = ran /\ got' = got
    BY DEF Accepts
  <2> QED
    BY <1>1, <2>1, <2>2 DEF Queued
<1>3. \A x \in Levels : Level(x)' = IF x = c THEN Level(x) \cup {v} ELSE Level(x)
  BY <1>1, <1>2, <1>f DEF Level
<1>q. q' = [list |-> [q.list EXCEPT ![c] = L!Push(@, v)], count |-> q.count + 1, high |-> Max({c, q.high})]
  BY DEF Accepts, push, c
<1> HIDE DEF v
<1>4. DOMAIN q'.list = Levels
  BY <1>p, <1>q DEF Pq
<1>5. q'.count = Cardinality(Queued')
  <2>1. Cardinality(Queued \cup {v}) = Cardinality(Queued) + 1
    BY <1>f, <1>2, FS_AddElement
  <2>2. q.count = Cardinality(Queued)
    BY <1>p DEF Pq
  <2> QED
    BY <1>q, <1>2, <2>1, <2>2
<1>6. q'.high \in Levels /\ q'.high >= c /\ q'.high >= q.high /\ q'.high \in {c, q.high}
  <2>1. q.high \in Levels /\ q'.high = Max({c, q.high})
    BY <1>p, <1>q DEF Pq
  <2>2. c \in Nat /\ q.high \in Nat
    BY <2>1, <1>c, <1>i
  <2>3. Max({c, q.high}) = IF c >= q.high THEN c ELSE q.high
    BY SMT, <2>2, OfTwo
  <2> QED
    BY SMT, <2>1, <2>2, <2>3, <1>c
<1>7. ASSUME NEW x \in Levels
      PROVE  Linked(q'.list[x], Level(x)')
  <2>1. Linked(q.list[x], Level(x)) /\ Level(x) \in SUBSET Nat
    BY <1>p, <1>f DEF Pq, Level
  <2>2. CASE x = c
    <3>1. q'.list[x] = L!Push(q.list[x], v)
      BY <1>p, <1>q, <2>2 DEF Pq
    <3>2. v \in Nat /\ \A e \in Level(x) : e < v
      BY SMT, <1>f DEF Level, v
    <3> QED
      BY SMT, <1>3, <2>1, <2>2, <3>1, <3>2, PushLinked
  <2>3. CASE x # c
    BY <1>p, <1>q, <1>3, <2>1, <2>3 DEF Pq
  <2> QED
    BY <2>2, <2>3
<1>8. \A e \in Queued' : prio'[e] <= q'.high
  <2>1. \A e \in Queued : prio[e] <= q.high /\ prio[e] \in Nat
    BY <1>p, <1>f, <1>i DEF Pq
  <2>2. q.high \in Nat /\ q'.high \in Nat /\ c \in Nat
    BY <1>p, <1>6, <1>i, <1>c DEF Pq
  <2> QED
    BY SMT, <1>1, <1>2, <1>f, <1>6, <2>1, <2>2
<1>9. q'.high = 0 \/ \E e \in Queued' : prio'[e] = q'.high
  <2>1. CASE q'.high = c
    BY <2>1, <1>1, <1>2
  <2>2. CASE q'.high = q.high
    BY <2>2, <1>p, <1>1, <1>2, <1>f DEF Pq
  <2> QED
    BY <2>1, <2>2, <1>6
<1>10. Pq'
  BY <1>4, <1>5, <1>6, <1>7, <1>8, <1>9 DEF Pq
<1> QED
  BY <1>2, <1>10

(* What Get takes is the oldest event of the highest level, and the search *)
(* for the next level that is not empty finds it.                          *)
LEMMA TakeStep ==
  ASSUME QInv, Takes
  PROVE  /\ Pq'
         /\ front \in Queued /\ Queued' = Queued \ {front}
         /\ \A f \in Queued' : prio[front] > prio[f] \/ (prio[front] = prio[f] /\ front < f)
<1> DEFINE h == q.high
           v == front
           list == [q.list EXCEPT ![h] = L!Pop(@)]
<1>h. History
  BY DEF QInv
<1>p. Pq
  BY DEF QInv
<1>f. /\ Len(prio) \in Nat /\ Events = 1..Len(prio)
      /\ \A e \in Events : prio[e] \in Levels
      /\ Queued \subseteq Events /\ Queued \subseteq Nat
      /\ IsFiniteSet(Queued)
      /\ Cardinality(Queued) \in 0..Len(prio)
      /\ Cardinality(Queued) > 0 <=> Queued # {}
  BY <1>h, FiniteQueued
<1>i. PICK top \in Nat : Levels = 0..top
  BY LevelsAre
<1>q. q' = [list |-> list, count |-> q.count - 1,
            high |-> Max({0} \cup {p \in 0..h : ~L!IsEmpty(list[p])})]
  BY DEF Takes, pop
<1>1. h \in Levels /\ h \in Nat /\ Level(h) # {} /\ Level(h) \in SUBSET Nat /\ Linked(q.list[h], Level(h))
  <2>1. h \in Levels /\ h \in Nat /\ Linked(q.list[h], Level(h))
    BY SMT, <1>p, <1>i DEF Pq
  <2>2. Queued # {} /\ \A e \in Queued : prio[e] \in Nat /\ prio[e] <= h
    BY SMT, <1>p, <1>f, <1>i DEF Pq, Takes
  <2>3. \E e \in Queued : prio[e] = h
    BY SMT, <1>p, <2>1, <2>2 DEF Pq
  <2> QED
    BY <2>1, <2>3, <1>f DEF Level
<1>2. /\ v \in Level(h)
      /\ \A f \in Level(h) : v <= f
      /\ Linked(L!Pop(q.list[h]), Level(h) \ {v})
  BY <1>1, PopLinked DEF front
<1>3. v \in Queued /\ prio[v] = h /\ v \in Nat
  BY <1>2, <1>f DEF Level
<1> HIDE DEF v
<1>4. Queued' = Queued \ {v}
  <2>1. prio' = prio /\ ran' = ran /\ got'.v = v /\ got.v \in ran \cup {Nil} /\ Nil \notin Nat
    BY EventQueueAssumption DEF Takes, v, EventQueueAssumption
  <2> QED
    BY SMT, <2>1, <1>f DEF Queued, Events
<1>5. \A x \in Levels : Level(x)' = IF x = h THEN Level(x) \ {v} ELSE Level(x)
  <2>1. prio' = prio
    BY DEF Takes
  <2> QED
    BY <2>1, <1>3, <1>4 DEF Level
<1>6. DOMAIN list = Levels /\ \A x \in Levels : Linked(list[x], Level(x)')
  <2>1. DOMAIN q.list = Levels /\ \A x \in Levels : Linked(q.list[x], Level(x))
    BY <1>p DEF Pq
  <2>2. DOMAIN list = Levels
    BY <2>1
  <2>3. list[h] = L!Pop(q.list[h]) /\ \A x \in Levels : x # h => list[x] = q.list[x]
    BY <2>1, <1>1
  <2> HIDE DEF list
  <2> QED
    BY <2>1, <2>2, <2>3, <1>1, <1>2, <1>5
<1> HIDE DEF list
<1>7. q'.count = Cardinality(Queued')
  <2>1. Cardinality(Queued \ {v}) = Cardinality(Queued) - 1
    BY <1>f, <1>3, FS_RemoveElement
  <2> QED
    BY <1>p, <1>q, <1>4, <2>1 DEF Pq
<1> DEFINE M == {0} \cup {p \in 0..h : ~L!IsEmpty(list[p])}
<1>8. \A x \in 0..h : x \in Levels /\ (~L!IsEmpty(list[x]) <=> \E e \in Queued' : prio[e] = x)
  <2> SUFFICES ASSUME NEW x \in 0..h
               PROVE  x \in Levels /\ (~L!IsEmpty(list[x]) <=> \E e \in Queued' : prio[e] = x)
    OBVIOUS
  <2>1. x \in Levels
    BY SMT, <1>1, <1>i
  <2>2. Linked(list[x], Level(x)')
    BY <1>6, <2>1
  <2>3. Level(x)' = {e \in Queued' : prio[e] = x}
    BY DEF Level, Takes
  <2>4. Level(x)' \in SUBSET Nat
    BY <2>3, <1>4, <1>f
  <2>5. L!IsEmpty(list[x]) <=> Level(x)' = {}
    BY <2>2, <2>4, TailTells
  <2> QED
    BY <2>1, <2>3, <2>5
<1>9. PICK m \in M : \A x \in M : x <= m
  <2>1. M \in SUBSET Nat /\ M # {} /\ \A x \in M : x <= h
    BY SMT, <1>1
  <2> HIDE DEF M
  <2> QED
    BY <2>1, <1>1, Greatest
<1>10. q'.high = m
  <2>1. M \subseteq Int
    BY SMT, <1>1
  <2>2. Max(M) = m
    BY <2>1, <1>9, MaxIs
  <2> QED
    BY <1>q, <2>2
<1>11. m \in Levels /\ (m = 0 \/ \E e \in Queued' : prio[e] = m)
  BY SMT, <1>8, <1>9, <1>i
<1>12. \A e \in Queued' : prio[e] \in Nat /\ prio[e] <= h
  <2>1. \A e \in Queued : prio[e] \in Nat
    BY SMT, <1>f, <1>i
  <2>2. \A e \in Queued : prio[e] <= h
    BY <1>p DEF Pq
  <2> QED
    BY <1>4, <2>1, <2>2
<1>13. \A e \in Queued' : prio[e] <= m
  <2> SUFFICES ASSUME NEW e \in Queued'
               PROVE  prio[e] <= m
    OBVIOUS
  <2>1. prio[e] \in 0..h
    BY SMT, <1>1, <1>12
  <2>2. prio[e] \in M
    BY <1>8, <2>1
  <2> QED
    BY <1>9, <2>2
<1>14. Pq'
  <2>1. q'.list = list /\ prio' = prio
    BY <1>q DEF Takes
  <2> QED
    BY <2>1, <1>6, <1>7, <1>10, <1>11, <1>13 DEF Pq
<1>15. \A f \in Queued' : prio[v] > prio[f] \/ (prio[v] = prio[f] /\ v < f)
  <2> SUFFICES ASSUME NEW f \in Queued', ~(prio[v] > prio[f])
               PROVE  prio[v] = prio[f] /\ v < f
    OBVIOUS
  <2>1. prio[f] = h
    BY SMT, <1>1, <1>3, <1>12
  <2>2. f \in Queued /\ f # v /\ f \in Nat
    BY <1>4, <1>f
  <2>3. v <= f
    BY <1>2, <2>1, <2>2 DEF Level
  <2> QED
    BY SMT, <1>3, <2>1, <2>2, <2>3
<1> QED
  BY <1>3, <1>4, <1>14, <1>15 DEF v

(* A new pq is empty.                                                      *)
LEMMA InitQInv == Init => QInv
<1> SUFFICES ASSUME Init
             PROVE  QInv
  OBVIOUS
<1>1. Events = {} /\ Queued = {} /\ \A p : Level(p) = {}
  BY SMT DEF Init, Events, Queued, Level
<1>2. 0 \in Levels
  BY SMT, LevelsAre
<1>3. Pq
  <2>1. q = [list |-> [p \in Levels |-> L!EmptyList], count |-> 0, high |-> 0]
    BY DEF Init, newpq
  <2>2. \A p \in Levels : Linked(q.list[p], Level(p))
    BY <1>1, <2>1, EmptyLinked
  <2>3. Cardinality(Queued) = 0
    BY <1>1, FS_EmptySet
  <2> QED
    BY <1>1, <1>2, <2>1, <2>2, <2>3 DEF Pq
<1>4. Taken
  BY DEF Init, Taken
<1>5. History
  <2>1. 0 <= MaxEvents
    BY SMT, EventQueueAssumption DEF EventQueueAssumption
  <2>2. prio \in Seq(Levels) /\ Len(prio) <= MaxEvents
    BY SMT, <2>1 DEF Init
  <2>3. want \in [Threads -> Priorities \cup {0}]
    BY DEF Init
  <2> QED
    BY <2>2, <2>3 DEF Init, History
<1> QED
  BY <1>3, <1>4, <1>5, InitIInv DEF QInv

(* Run calls what Get returned before it calls Get again.                  *)
LEMMA TakenStep ==
  ASSUME QInv, NEW t \in Threads, StepOf(t)
  PROVE  Taken'
<1>t. pc \in [Threads -> PCs] /\ \A u \in Threads : u # t => pc'[u] = pc[u]
  BY Counters DEF QInv, IInv, Types, CounterMoves
<1>1. CASE Get(t) \/ GetResume(t)
  <2>1. CASE got' = got
    <3>1. got.v \in ran \cup {Nil}
      BY <1>1, TakenBefore DEF Get, GetResume
    <3> QED
      BY <1>1, <2>1, <3>1 DEF Get, GetResume, Taken
  <2>2. CASE pc'[t] \in {"got", "gotBroadcast"}
    BY <2>2 DEF Taken
  <2> QED
    BY <1>t, <1>1, <2>1, <2>2 DEF Get, GetResume, GetLoop, Goto
<1>2. CASE RunNext(t)
  BY <1>2 DEF RunNext, Taken
<1>3. CASE BroadcastFull(t)
  <2>1. pc[t] = "gotBroadcast" => pc'[t] = "got"
    BY <1>t, <1>3 DEF BroadcastFull, Goto
  <2>2. pc[t] # "got" /\ got' = got /\ ran' = ran
    BY <1>3 DEF BroadcastFull, runVars
  <2> QED
    BY <1>t, <2>1, <2>2 DEF QInv, Taken
<1>4. CASE pc[t] \notin {"got", "gotBroadcast"} /\ got' = got /\ ran' = ran
  BY <1>t, <1>4 DEF QInv, Taken
<1> QED
  BY <1>1, <1>2, <1>3, <1>4 DEF StepOf, AddNoWait, Add, AddResume, Run, EventReturns, Close, CloseLocked,
     SetFullSize, SignalEmpty, CloseBroadcastsEmpty, Free, runVars

(* What a step does to the rest of the state.                              *)
RestMoves(t) ==
  /\ closeOnce' \in BOOLEAN
  /\ started' \in Runners \cup {Nil}
  /\ want' = want \/ \E p \in Priorities \cup {0} : want' = [want EXCEPT ![t] = p]
  /\ got' = got \/ got'.v = Nil \/ Takes
  /\ ran' = ran \/ ran' = ran \cup ({got.v} \ {Nil})

(* Every step is such a step.                                              *)
LEMMA Rest ==
  ASSUME QInv, NEW t \in Threads, StepOf(t)
  PROVE  RestMoves(t)
<1>h. closeOnce \in BOOLEAN /\ started \in Runners \cup {Nil} /\ want[t] \in Priorities \cup {0}
  BY DEF QInv, History
<1>1. ASSUME NEW p \in Priorities, NEW fullReturn \in BOOLEAN, AddNoWait(t, p, fullReturn)
      PROVE  RestMoves(t)
  BY <1>h, <1>1 DEF AddNoWait, RestMoves, sizeVars, runVars
<1>2. ASSUME NEW p \in Priorities, Add(t, p)
      PROVE  RestMoves(t)
  BY <1>h, <1>2 DEF Add, AddLoop, RestMoves, sizeVars, runVars
<1>3. CASE AddResume(t)
  BY <1>h, <1>3 DEF AddResume, AddLoop, RestMoves, sizeVars, runVars
<1>4. CASE Get(t) \/ GetResume(t)
  <2>1. got.v \in ran \cup {Nil}
    BY <1>4, TakenBefore DEF Get, GetResume
  <2>2. UNCHANGED <<prio, ran>> /\ \E n : GetLoop(t, n)
    BY <1>4 DEF Get, GetResume
  <2>3. got' = got \/ got'.v = Nil \/ Takes
    BY SMT, <2>1, <2>2 DEF GetLoop, Takes
  <2> QED
    BY <1>h, <1>4, <2>3 DEF Get, GetResume, RestMoves, sizeVars
<1>5. CASE t \in Runners /\ Run(t)
  BY <1>h, <1>5 DEF Run, RestMoves, sizeVars
<1>6. CASE RunNext(t) \/ EventReturns(t)
  BY <1>h, <1>6 DEF RunNext, EventReturns, RestMoves, sizeVars, runVars
<1>7. CASE Close(t) \/ CloseLocked(t)
  BY <1>h, <1>7 DEF Close, CloseLocked, RestMoves, runVars
<1>8. ASSUME NEW n \in Sizes, SetFullSize(t, n)
      PROVE  RestMoves(t)
  BY <1>h, <1>8 DEF SetFullSize, RestMoves, runVars
<1>9. CASE SignalEmpty(t) \/ CloseBroadcastsEmpty(t) \/ BroadcastFull(t)
  BY <1>h, <1>9 DEF SignalEmpty, CloseBroadcastsEmpty, BroadcastFull, RestMoves, sizeVars, runVars
<1> QED
  BY <1>1, <1>2, <1>3, <1>4, <1>5, <1>6, <1>7, <1>8, <1>9 DEF StepOf

(* The numbers and histories keep their types.                             *)
LEMMA HistoryStep ==
  ASSUME QInv, NEW t \in Threads, StepOf(t)
  PROVE  History'
<1>h. History
  BY DEF QInv
<1>r. RestMoves(t)
  BY Rest
<1>1. closeOnce' \in BOOLEAN /\ started' \in Runners \cup {Nil}
  BY <1>r DEF RestMoves
<1>3. want' \in [Threads -> Priorities \cup {0}]
  BY <1>h, <1>r DEF RestMoves, History
<1>4. prio' \in Seq(Levels) /\ Len(prio') <= MaxEvents /\ Events \subseteq Events'
  <2>1. prio \in Seq(Levels) /\ Len(prio) <= MaxEvents
    BY <1>h DEF History
  <2>2. CASE prio' = prio
    BY <2>1, <2>2 DEF Events
  <2>3. ASSUME NEW p \in Priorities \cup {0}, Accepts(p)
        PROVE  prio' \in Seq(Levels) /\ Len(prio') <= MaxEvents /\ Events \subseteq Events'
    <3>1. Clamp(p) \in Levels
      BY SMT, ClampLevel, EventQueueAssumption DEF EventQueueAssumption
    <3>2. prio' = Append(prio, Clamp(p)) /\ Len(prio) < MaxEvents /\ MaxEvents \in Nat
      BY <2>3, EventQueueAssumption DEF Accepts, EventQueueAssumption
    <3>3. prio' \in Seq(Levels) /\ Len(prio') = Len(prio) + 1
      BY SMT, <2>1, <3>1, <3>2
    <3> QED
      BY SMT, <2>1, <3>2, <3>3 DEF Events
  <2> QED
    BY <2>2, <2>3, QueueMoves DEF Leaves, Takes
<1>5. got'.v \in Events' \cup {Nil}
  <2>1. CASE Takes
    <3>1. front \in Queued /\ Queued \subseteq Events
      BY <2>1, <1>h, TakeStep, FiniteQueued
    <3> QED
      BY <2>1, <3>1, <1>4 DEF Takes
  <2>2. CASE got' = got \/ got'.v = Nil
    BY <2>2, <1>4, <1>h DEF History
  <2> QED
    BY <2>1, <2>2, <1>r DEF RestMoves
<1>6. ran' \subseteq Events'
  BY <1>r, <1>4, <1>h DEF RestMoves, History
<1> QED
  BY <1>1, <1>3, <1>4, <1>5, <1>6 DEF History

(* The larger invariant is inductive too.                                  *)
LEMMA NextQInv == QInv /\ [Next]_vars => QInv'
<1> SUFFICES ASSUME QInv, [Next]_vars
             PROVE  QInv'
  OBVIOUS
<1>1. CASE Next
  <2>1. PICK t \in Threads : StepOf(t)
    BY <1>1, NextStep
  <2>2. IInv'
    BY NextIInv DEF QInv
  <2>3. Pq'
    <3>1. CASE Leaves
      BY <3>1 DEF QInv, Leaves, Pq, Level
    <3> QED
      BY <2>1, <3>1, QueueMoves, AcceptStep, TakeStep
  <2> QED
    BY <2>1, <2>2, <2>3, TakenStep, HistoryStep DEF QInv
<1>2. CASE UNCHANGED vars
  <2>1. IInv'
    BY NextIInv DEF QInv
  <2>2. Pq' /\ Taken' /\ History'
    BY <1>2 DEF vars, QInv, Pq, Level, Queued, Events, Taken, History
  <2> QED
    BY <2>1, <2>2 DEF QInv
<1> QED
  BY <1>1, <1>2

(* In every state the lists of the pq link exactly the events that were    *)
(* accepted and not taken, in the order of their posts.                    *)
THEOREM QueueInvariance == Spec => []QInv
  BY InitQInv, NextQInv, PTL DEF Spec

(* The lists hold the accepted events that were not taken, each at its     *)
(* priority, and count and high, which Add, Get and pop go by, are what a  *)
(* search of the lists would find.                                         *)
THEOREM QueueKept == Spec => []QueueExact
<1>1. QInv => QueueExact
  <2> SUFFICES ASSUME QInv
               PROVE  QueueExact
    OBVIOUS
  <2>h. History /\ Pq /\ Types
    BY DEF QInv, IInv
  <2>f. /\ Queued \subseteq Events
        /\ \A e \in Events : prio[e] \in Levels
        /\ Cardinality(Queued) \in 0..Len(prio) /\ Len(prio) \in Nat
    BY <2>h, FiniteQueued
  <2>1. TypeOK
    <3>1. q.count \in 0..MaxEvents
      BY SMT, <2>h, <2>f, EventQueueAssumption DEF Pq, History, EventQueueAssumption
    <3> QED
      BY <2>h, <3>1 DEF Pq, History, Types, TypeOK
  <2>2. \A p \in Levels : L!Items(q.list[p]) = {e \in Queued : prio[e] = p}
    BY <2>h DEF Pq, Linked, Level, L!Items
  <2>3. q.high = Max({0} \cup {prio[e] : e \in Queued})
    <3> DEFINE S == {0} \cup {prio[e] : e \in Queued}
    <3>1. Levels \subseteq Nat
      BY SMT, LevelsAre
    <3>2. q.high \in S /\ q.high \in Nat
      BY <2>h, <3>1 DEF Pq
    <3>4. \A e \in Queued : prio[e] \in Nat /\ prio[e] <= q.high
      BY <2>h, <2>f, <3>1 DEF Pq
    <3>5. S \subseteq Int /\ \A x \in S : x <= q.high
      BY SMT, <3>2, <3>4
    <3> HIDE DEF S
    <3>3. Max(S) = q.high
      BY <3>2, <3>5, MaxIs
    <3> QED
      BY <3>3 DEF S
  <2> QED
    BY <2>h, <2>1, <2>2, <2>3 DEF QueueExact, Pq
<1> QED
  BY <1>1, QueueInvariance, PTL

(* Get takes the oldest event of the highest priority, however posts, the  *)
(* growth of the lists and the search for the next level interleave.       *)
THEOREM OrderKept == Spec => ServedInOrder
<1> DEFINE Order == Queued' \subseteq Queued =>
             \A e \in Queued \ Queued', f \in Queued' : prio[e] > prio[f] \/ (prio[e] = prio[f] /\ e < f)
<1>1. QInv /\ [Next]_vars => [Order]_vars
  <2> SUFFICES ASSUME QInv, Next
               PROVE  Order
    OBVIOUS
  <2>1. PICK t \in Threads : StepOf(t)
    BY NextStep
  <2>2. CASE Leaves
    BY <2>2 DEF Leaves
  <2>3. CASE \E p \in Priorities \cup {0} : Accepts(p)
    BY <2>3, AcceptStep
  <2>4. CASE Takes
    BY <2>4, TakeStep
  <2> QED
    BY <2>1, <2>2, <2>3, <2>4, QueueMoves
<1> QED
  BY <1>1, QueueInvariance, PTL DEF Spec, ServedInOrder
=============================================================================
