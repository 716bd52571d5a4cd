----------------------------- MODULE EventQueue -----------------------------
(***************************************************************************)
(* The event queue of event/eventQueue.go over the priority queue of       *)
(* event/priorityQueue.go: goroutines post events with a priority, and the *)
(* goroutine in Run calls them, highest priority first.  An event may post *)
(* to the queue it is called from.                                         *)
(*                                                                         *)
(* What happens under listGuard is one action.  The conditions are those   *)
(* of package sync, whose Signal and Broadcast are called after listGuard  *)
(* was released, on the strength of a counter read under it.               *)
(*                                                                         *)
(* An event is the number of its push.  ProtectCall turns the panic of an  *)
(* event into an error that is logged, so that an event always returns.    *)
(***************************************************************************)
EXTENDS Integers, Sequences, FiniteSets, FiniteSetsExt

CONSTANTS
  Posters,         \* goroutines that post, close the queue and set its size
  Runners,         \* goroutines that call Run
  Priorities,      \* the priorities events are posted with, in range or not
  PriorityCount,   \* the argument of NewEventQueueWithPriority
  Sizes,           \* the arguments of SetFullSize
  MaxEvents,       \* bound: events accepted
  Nil

ASSUME EventQueueAssumption ==
  /\ IsFiniteSet(Posters) /\ IsFiniteSet(Runners)
  /\ Nil \notin Posters \cup Runners \cup Nat
  /\ Sizes \subseteq Int /\ Priorities \subseteq Int
  /\ PriorityCount \in Int
  /\ MaxEvents \in Nat

VARIABLES
  q,                                          \* the pq: its lists, count and high
  fullSize, closed, emptyWaited, fullWaited,  \* fields of PriorityQueue
  closeOnce,
  started,   \* the runner that won the CAS of Run, or Nil
  waiters,   \* the wait sets of emptyCond and fullCond
  pc,
  want,      \* the priority of the post each goroutine waits with
  got,       \* what the last Get of Run returned
  prio,      \* history: the priorities of the accepted events
  ran        \* history: the events called

vars == <<q, fullSize, closed, emptyWaited, fullWaited, closeOnce, started, waiters, pc, want,
          got, prio, ran>>

sizeVars == <<fullSize, closed, closeOnce>>
runVars == <<started, got, ran>>

Threads == Posters \cup Runners

Conds == {"empty", "full"}

L == INSTANCE TailList

C == INSTANCE Cond WITH
       blocked <- [c \in Conds |-> {t \in Threads : pc[t] = IF c = "full" THEN "fullWait" ELSE "emptyWait"}]

Goto(t, label) == pc' = [pc EXCEPT ![t] = label]

Events == 1..Len(prio)

Queued == Events \ (ran \cup {got.v})

(* Where a goroutine is when a call it made of the queue has returned: in  *)
(* the event that Run is calling, or in the program.                       *)
Return(t) == Goto(t, IF t = started THEN "event" ELSE "idle")

(* A goroutine that is free to call the queue.                             *)
Free(t) == pc[t] \in IF t = started THEN {"event"} ELSE {"idle"}

-----------------------------------------------------------------------------
(* The pq.                                                                 *)

Levels == 0..Max({PriorityCount, 1}) - 1

newpq == [list |-> [p \in Levels |-> L!EmptyList], count |-> 0, high |-> 0]

Clamp(p) == IF p < 0 THEN 0 ELSE Min({p, Max(Levels)})

push(p, v) ==
  q' = [list |-> [q.list EXCEPT ![Clamp(p)] = L!Push(@, v)],
        count |-> q.count + 1,
        high |-> Max({Clamp(p), q.high})]

front == L!First(q.list[q.high])

(* Mutant: high stays where it is.                                         *)
popKeepsHigh ==
  q' = [q EXCEPT !.list = [@ EXCEPT ![q.high] = L!Pop(@)], !.count = @ - 1]

(* The first event of the highest level goes, and high falls to the next   *)
(* level that is not empty, or to 0.                                       *)
pop ==
  LET list == [q.list EXCEPT ![q.high] = L!Pop(@)]
  IN  q' = [list |-> list,
            count |-> q.count - 1,
            high |-> Max({0} \cup {p \in 0..q.high : ~L!IsEmpty(list[p])})]

-----------------------------------------------------------------------------
Init ==
  /\ q = newpq
  /\ fullSize \in Sizes
  /\ closed = FALSE
  /\ emptyWaited = 0
  /\ fullWaited = 0
  /\ closeOnce = FALSE
  /\ started = Nil
  /\ waiters = [c \in Conds |-> {}]
  /\ pc = [t \in Threads |-> "idle"]
  /\ want = [t \in Threads |-> 0]
  /\ got = [closed |-> FALSE, v |-> Nil]
  /\ prio = <<>>
  /\ ran = {}

(* The tail of AddNoWait and Add: the push, and the choice to signal.      *)
Accept(t, p) ==
  /\ Len(prio) < MaxEvents
  /\ prio' = Append(prio, Clamp(p))
  /\ push(p, Len(prio) + 1)
  /\ IF emptyWaited > 0 THEN Goto(t, "signalEmpty") ELSE Return(t)

(* A call refused with ErrQueueClosed or ErrQueueFull leaves no trace.     *)
AddNoWait(t, p, fullReturn) ==
  /\ Free(t)
  /\ ~closed
  /\ ~(fullReturn /\ q.count >= fullSize)
  /\ Accept(t, p)
  /\ UNCHANGED <<sizeVars, emptyWaited, fullWaited, waiters, want, runVars>>

(* The test of Add's loop, with `others' goroutines in fullWaited.         *)
AddLoop(t, p, others) ==
  \/ /\ q.count >= fullSize
     /\ fullWaited' = others + 1
     /\ want' = [want EXCEPT ![t] = p]
     /\ C!Enqueue("full", t)
     /\ Goto(t, "fullWait")
     /\ UNCHANGED <<q, prio>>
  \/ /\ q.count < fullSize
     /\ fullWaited' = others
     /\ want' = [want EXCEPT ![t] = 0]
     /\ Accept(t, p)
     /\ UNCHANGED waiters

Add(t, p) ==
  /\ Free(t)
  /\ ~closed
  /\ AddLoop(t, p, fullWaited)
  /\ UNCHANGED <<sizeVars, emptyWaited, runVars>>

AddResume(t) ==
  /\ pc[t] = "fullWait"
  /\ t \notin waiters["full"]
  /\ \/ ~closed /\ AddLoop(t, want[t], fullWaited - 1)
     \/ /\ closed
        /\ fullWaited' = fullWaited - 1
        /\ want' = [want EXCEPT ![t] = 0]
        /\ Return(t)
        /\ UNCHANGED <<q, prio, waiters>>
  /\ UNCHANGED <<sizeVars, emptyWaited, runVars>>

PostFullReturn(t, p) == AddNoWait(t, p, TRUE)

PostNoWait(t, p) == AddNoWait(t, p, FALSE)

Post(t, p) == Add(t, p)

(* The three ways to post, chosen by the fields of EventQueueParam.        *)
EmitToEventQueue(t, p, blockMode, fullReturn) ==
  \/ blockMode /\ Post(t, p)
  \/ ~blockMode /\ fullReturn /\ PostFullReturn(t, p)
  \/ ~blockMode /\ ~fullReturn /\ PostNoWait(t, p)

-----------------------------------------------------------------------------
(* Get's loop and what follows it, with `others' goroutines in             *)
(* emptyWaited.                                                            *)
GetLoop(t, others) ==
  \/ /\ ~closed
     /\ q.count = 0
     /\ emptyWaited' = others + 1
     /\ C!Enqueue("empty", t)
     /\ Goto(t, "emptyWait")
     /\ UNCHANGED <<q, got>>
  \/ /\ closed \/ q.count > 0
     /\ emptyWaited' = others
     /\ got' = [closed |-> closed, v |-> IF q.count > 0 THEN front ELSE Nil]
     /\ IF q.count > 0 THEN pop ELSE UNCHANGED q
     /\ Goto(t, IF fullWaited > 0 THEN "gotBroadcast" ELSE "got")
     /\ UNCHANGED waiters

(* Run: only the first caller stays in it, a later one returns at once.    *)
Run(t) ==
  /\ pc[t] = "idle"
  /\ started = Nil
  /\ started' = t
  /\ Goto(t, "get")
  /\ UNCHANGED <<q, sizeVars, emptyWaited, fullWaited, waiters, want, got, prio, ran>>

Get(t) ==
  /\ pc[t] = "get"
  /\ GetLoop(t, emptyWaited)
  /\ UNCHANGED <<sizeVars, fullWaited, want, prio, started, ran>>

GetResume(t) ==
  /\ pc[t] = "emptyWait"
  /\ t \notin waiters["empty"]
  /\ GetLoop(t, emptyWaited - 1)
  /\ UNCHANGED <<sizeVars, fullWaited, want, prio, started, ran>>

(* Mutant: Run returns as soon as Get reports that the queue is closed.    *)
RunNextNoDrain(t) ==
  /\ pc[t] = "got"
  /\ Goto(t, IF got.closed THEN "done" ELSE IF got.v # Nil THEN "event" ELSE "get")
  /\ ran' = ran \cup ({got.v} \ {Nil})
  /\ UNCHANGED <<q, sizeVars, emptyWaited, fullWaited, waiters, want, got, prio, started>>

(* What Get returned is called; a closed and empty queue ends Run.         *)
RunNext(t) ==
  /\ pc[t] = "got"
  /\ Goto(t, IF got.v # Nil THEN "event" ELSE IF got.closed THEN "done" ELSE "get")
  /\ ran' = ran \cup ({got.v} \ {Nil})
  /\ UNCHANGED <<q, sizeVars, emptyWaited, fullWaited, waiters, want, got, prio, started>>

EventReturns(t) ==
  /\ pc[t] = "event"
  /\ Goto(t, "get")
  /\ UNCHANGED <<q, sizeVars, emptyWaited, fullWaited, waiters, want, runVars, prio>>

-----------------------------------------------------------------------------
Close(t) ==
  /\ Free(t)
  /\ ~closeOnce
  /\ closeOnce' = TRUE
  /\ Goto(t, "close")
  /\ UNCHANGED <<q, fullSize, closed, emptyWaited, fullWaited, waiters, want, runVars, prio>>

CloseLocked(t) ==
  /\ pc[t] = "close"
  /\ closed' = TRUE
  /\ Goto(t, "closeEmpty")
  /\ UNCHANGED <<q, fullSize, closeOnce, emptyWaited, fullWaited, waiters, want, runVars, prio>>

(* Mutant: nobody is told that there is more room.                         *)
SetFullSizeSilent(t, newSize) ==
  /\ Free(t)
  /\ newSize > 0
  /\ fullSize' = newSize
  /\ UNCHANGED <<q, closed, closeOnce, emptyWaited, fullWaited, waiters, pc, want, runVars, prio>>

SetFullSize(t, newSize) ==
  /\ Free(t)
  /\ newSize > 0
  /\ fullSize' = newSize
  /\ IF fullSize < newSize /\ fullWaited > 0 THEN Goto(t, "broadcastFull") ELSE UNCHANGED pc
  /\ UNCHANGED <<q, closed, closeOnce, emptyWaited, fullWaited, waiters, want, runVars, prio>>

(* The wake-ups, after listGuard was released.                             *)
SignalEmpty(t) ==
  /\ pc[t] = "signalEmpty"
  /\ C!WakeOne("empty")
  /\ Return(t)
  /\ UNCHANGED <<q, sizeVars, emptyWaited, fullWaited, want, runVars, prio>>

CloseBroadcastsEmpty(t) ==
  /\ pc[t] = "closeEmpty"
  /\ C!WakeAll("empty")
  /\ Goto(t, "broadcastFull")
  /\ UNCHANGED <<q, sizeVars, emptyWaited, fullWaited, want, runVars, prio>>

BroadcastFull(t) ==
  /\ pc[t] \in {"broadcastFull", "gotBroadcast"}
  /\ C!WakeAll("full")
  /\ IF pc[t] = "gotBroadcast" THEN Goto(t, "got") ELSE Return(t)
  /\ UNCHANGED <<q, sizeVars, emptyWaited, fullWaited, want, runVars, prio>>

-----------------------------------------------------------------------------
Continue(t) ==
  \/ AddResume(t) \/ Get(t) \/ GetResume(t) \/ RunNext(t) \/ EventReturns(t)
  \/ CloseLocked(t) \/ SignalEmpty(t) \/ CloseBroadcastsEmpty(t) \/ BroadcastFull(t)

Next ==
  \/ \E t \in Threads, p \in Priorities, b, f \in BOOLEAN : EmitToEventQueue(t, p, b, f)
  \/ \E t \in Posters : Close(t) \/ (\E n \in Sizes : SetFullSize(t, n))
  \/ \E t \in Runners : Run(t)
  \/ \E t \in Threads : Continue(t)

Spec == Init /\ [][Next]_vars

(* Goroutines that can run do, and events return.                          *)
FairSpec == Spec /\ \A t \in Threads : WF_vars(Continue(t))

-----------------------------------------------------------------------------
TypeOK ==
  /\ q.count \in 0..MaxEvents /\ q.high \in Levels
  /\ DOMAIN q.list = Levels
  /\ fullSize \in Sizes
  /\ closed \in BOOLEAN /\ closeOnce \in BOOLEAN
  /\ started \in Runners \cup {Nil}
  /\ waiters \in [Conds -> SUBSET Threads]
  /\ want \in [Threads -> Priorities \cup {0}]
  /\ prio \in Seq(Levels)
  /\ ran \subseteq Events

(* The events in the lists are the accepted ones that were not taken, each *)
(* in the list of its priority, and count and high, which Add, Get and pop *)
(* go by, are what a search of the lists would find.                       *)
QueueExact ==
  /\ TypeOK
  /\ \A p \in Levels : L!Items(q.list[p]) = {e \in Queued : prio[e] = p}
  /\ q.count = Cardinality(Queued)
  /\ q.high = Max({0} \cup {prio[e] : e \in Queued})

(* Run takes the event of the highest priority, the oldest of these,       *)
(* however posts and the removal of earlier events interleave.             *)
ServedInOrder ==
  [][Queued' \subseteq Queued =>
       \A e \in Queued \ Queued', f \in Queued' : prio[e] > prio[f] \/ (prio[e] = prio[f] /\ e < f)]_vars

(* No wake-up is lost: the counters that decide on them are those of the   *)
(* goroutines that wait; while Run waits although there are events, or the *)
(* queue is closed, somebody is about to wake it; and while a poster waits *)
(* although there is room, or the queue is closed, somebody is about to    *)
(* broadcast.                                                              *)
NoLostWakeup ==
  LET at(labels) == {t \in Threads : pc[t] \in labels}
  IN  /\ fullWaited = Cardinality(at({"fullWait"}))
      /\ emptyWaited = Cardinality(at({"emptyWait"}))
      /\ waiters["empty"] # {} /\ q.count > 0 => at({"signalEmpty", "closeEmpty"}) # {}
      /\ waiters["empty"] # {} /\ closed => at({"closeEmpty"}) # {}
      /\ waiters["full"] # {} /\ (q.count < fullSize \/ closed)
           => at({"closeEmpty", "broadcastFull", "gotBroadcast"}) # {}

(* After Close, every call that was waiting returns, and Run, if anybody   *)
(* called it, calls every event that was accepted before it returns.       *)
CloseDrains ==
  closed ~> /\ \A t \in Threads : pc[t] \in {"idle", "done"}
            /\ started # Nil => ran = Events
=============================================================================
