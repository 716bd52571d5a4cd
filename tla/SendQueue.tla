------------------------------ MODULE SendQueue ------------------------------
(***************************************************************************)
(* The bounded queue of socket/sendqueue.go between the callers of Send    *)
(* and the goroutine that writes to the connection.                        *)
(*                                                                         *)
(* The code holds listGuard from the entry of a call to the point where it *)
(* waits or unlocks, so each such region is one action.  The signal or     *)
(* broadcast that follows is done after listGuard was released, on the     *)
(* strength of a counter read inside the region: it is an action of its    *)
(* own, and everybody else can run in between.                             *)
(*                                                                         *)
(* An item is abstracted to the goroutine that adds it.                    *)
(***************************************************************************)
EXTENDS Integers, Sequences, FiniteSets

CONSTANTS
  Producers,     \* goroutines that call Add and AddWithTimeout
  Consumers,     \* goroutines that call Get
  Controllers,   \* goroutines that call Close and SetFullSize
  Sizes,         \* the arguments SetFullSize is called with
  InitialSize    \* the argument of NewSendQueue

ASSUME SendQueueAssumption ==
  /\ IsFiniteSet(Producers)
  /\ IsFiniteSet(Consumers)
  /\ IsFiniteSet(Controllers)
  /\ Sizes \subseteq Nat \ {0}
  /\ InitialSize \in Sizes

VARIABLES
  list, fullSize, closed, emptyWaited, fullWaited,   \* fields of SendQueue
  waiters,   \* the wait sets of emptyCond and fullCond
  pc,        \* where each goroutine is
  ret        \* what the last Add or AddWithTimeout of each goroutine returned

vars == <<list, fullSize, closed, emptyWaited, fullWaited, waiters, pc, ret>>

Threads == Producers \cup Consumers \cup Controllers

Conds == {"empty", "full"}

C == INSTANCE Cond WITH
       blocked <- [c \in Conds |->
                     {t \in Threads : IF c = "full" THEN pc[t] \in {"fullWait", "timedWait"}
                                                    ELSE pc[t] = "emptyWait"}]

(* "fullWait" and "timedWait": blocked in fullCond.wait and                *)
(* fullCond.waitWithTimeout; "timedOut": the ticker won, listGuard not yet *)
(* taken again; "emptyWait": blocked in emptyCond.wait; the others: about  *)
(* to do the signal or broadcast they are named after.                     *)
PCs == {"idle", "fullWait", "timedWait", "timedOut", "emptyWait",
        "signalEmpty", "broadcastFull", "closeEmpty", "closeFull"}

Results == {"none", "nil", "ErrQueueClosed", "ErrQueueFull", "ErrAddTimeout"}

Goto(t, l) == pc' = [pc EXCEPT ![t] = l]

Returns(t, r) == ret' = [ret EXCEPT ![t] = r]

Init ==
  /\ list = <<>>
  /\ fullSize = InitialSize
  /\ closed = FALSE
  /\ emptyWaited = 0
  /\ fullWaited = 0
  /\ waiters = [c \in Conds |-> {}]
  /\ pc = [t \in Threads |-> "idle"]
  /\ ret = [t \in Threads |-> "none"]

-----------------------------------------------------------------------------
(* needSignal: whether the counter read under listGuard asks for a wake-up *)
(* after the unlock.                                                       *)

NeedSignalEmptyOffByOne == emptyWaited > 1

NeedSignalEmpty == emptyWaited > 0

NeedBroadcastFull == fullWaited > 0

(* The tail of Add and AddWithTimeout.                                     *)
AppendItem(t) ==
  /\ list' = Append(list, t)
  /\ Returns(t, "nil")
  /\ Goto(t, IF NeedSignalEmpty THEN "signalEmpty" ELSE "idle")

Add(t) ==
  /\ pc[t] = "idle"
  /\ \/ /\ closed
        /\ Returns(t, "ErrQueueClosed")
        /\ UNCHANGED <<list, pc>>
     \/ /\ ~closed
        /\ Len(list) >= fullSize
        /\ Returns(t, "ErrQueueFull")
        /\ UNCHANGED <<list, pc>>
     \/ /\ ~closed
        /\ Len(list) < fullSize
        /\ AppendItem(t)
  /\ UNCHANGED <<fullSize, closed, emptyWaited, fullWaited, waiters>>

(* The test of AddWithTimeout's loop, with `others' goroutines counted in  *)
(* fullWaited besides t.                                                   *)
AddLoop(t, wait, others) ==
  \/ /\ Len(list) >= fullSize
     /\ fullWaited' = others + 1
     /\ C!Enqueue("full", t)
     /\ Goto(t, wait)
     /\ UNCHANGED <<list, ret>>
  \/ /\ Len(list) < fullSize
     /\ fullWaited' = others
     /\ AppendItem(t)
     /\ UNCHANGED waiters

AddWithTimeout(t, wait) ==
  /\ pc[t] = "idle"
  /\ \/ /\ closed
        /\ Returns(t, "ErrQueueClosed")
        /\ UNCHANGED <<list, pc, fullWaited, waiters>>
     \/ ~closed /\ AddLoop(t, wait, fullWaited)
  /\ UNCHANGED <<fullSize, closed, emptyWaited>>

(* Mutants of AddResume: the loop is an `if'; closed is not looked at.     *)
AddResumeNoRecheck(t) ==
  /\ pc[t] \in {"fullWait", "timedWait"}
  /\ t \notin waiters["full"]
  /\ fullWaited' = fullWaited - 1
  /\ \/ /\ closed
        /\ Returns(t, "ErrQueueClosed")
        /\ Goto(t, "idle")
        /\ UNCHANGED list
     \/ ~closed /\ AppendItem(t)
  /\ UNCHANGED <<fullSize, closed, emptyWaited, waiters>>

AddResumeIgnoresClosed(t) ==
  /\ pc[t] \in {"fullWait", "timedWait"}
  /\ t \notin waiters["full"]
  /\ AddLoop(t, pc[t], fullWaited - 1)
  /\ UNCHANGED <<fullSize, closed, emptyWaited>>

(* Mutant: a closed queue is tested for in the loop, which does not end.   *)
AddResumePolls(t) ==
  /\ pc[t] \in {"fullWait", "timedWait"}
  /\ t \notin waiters["full"]
  /\ \/ closed /\ UNCHANGED <<list, waiters, fullWaited, pc, ret>>
     \/ ~closed /\ AddLoop(t, pc[t], fullWaited - 1)
  /\ UNCHANGED <<fullSize, closed, emptyWaited>>

(* The wait returned true: listGuard is held again.                        *)
AddResume(t) ==
  /\ pc[t] \in {"fullWait", "timedWait"}
  /\ t \notin waiters["full"]
  /\ \/ /\ closed
        /\ fullWaited' = fullWaited - 1
        /\ Returns(t, "ErrQueueClosed")
        /\ Goto(t, "idle")
        /\ UNCHANGED <<list, waiters>>
     \/ ~closed /\ AddLoop(t, pc[t], fullWaited - 1)
  /\ UNCHANGED <<fullSize, closed, emptyWaited>>

(* The ticker is chosen by the select, perhaps although the channel is     *)
(* closed too; the goroutine takes itself off the wait list.               *)
AddExpire(t) ==
  /\ pc[t] = "timedWait"
  /\ C!Withdraw("full", t)
  /\ Goto(t, "timedOut")
  /\ UNCHANGED <<list, fullSize, closed, emptyWaited, fullWaited, ret>>

(* Mutant: the counter is left alone.                                      *)
AddTimedOutNotCounted(t) ==
  /\ pc[t] = "timedOut"
  /\ Returns(t, IF closed THEN "ErrQueueClosed" ELSE "ErrAddTimeout")
  /\ Goto(t, "idle")
  /\ UNCHANGED <<list, fullSize, closed, emptyWaited, fullWaited, waiters>>

(* The wait returned false: listGuard is held again.                       *)
AddTimedOut(t) ==
  /\ pc[t] = "timedOut"
  /\ fullWaited' = fullWaited - 1
  /\ Returns(t, IF closed THEN "ErrQueueClosed" ELSE "ErrAddTimeout")
  /\ Goto(t, "idle")
  /\ UNCHANGED <<list, fullSize, closed, emptyWaited, waiters>>

(* Get's loop and the swap of the list, with `others' goroutines counted   *)
(* in emptyWaited besides t.                                               *)
GetLoop(t, others) ==
  \/ /\ ~closed
     /\ list = <<>>
     /\ emptyWaited' = others + 1
     /\ C!Enqueue("empty", t)
     /\ Goto(t, "emptyWait")
     /\ UNCHANGED list
  \/ /\ closed \/ list # <<>>
     /\ emptyWaited' = others
     /\ list' = <<>>
     /\ Goto(t, IF NeedBroadcastFull THEN "broadcastFull" ELSE "idle")
     /\ UNCHANGED waiters

Get(t) ==
  /\ pc[t] = "idle"
  /\ GetLoop(t, emptyWaited)
  /\ UNCHANGED <<fullSize, closed, fullWaited, ret>>

GetResume(t) ==
  /\ pc[t] = "emptyWait"
  /\ t \notin waiters["empty"]
  /\ GetLoop(t, emptyWaited - 1)
  /\ UNCHANGED <<fullSize, closed, fullWaited, ret>>

(* A second Close changes nothing.                                         *)
Close(t) ==
  /\ pc[t] = "idle"
  /\ ~closed
  /\ closed' = TRUE
  /\ Goto(t, "closeEmpty")
  /\ UNCHANGED <<list, fullSize, emptyWaited, fullWaited, waiters, ret>>

SetFullSize(t, newSize) ==
  /\ pc[t] = "idle"
  /\ fullSize' = newSize
  /\ Goto(t, IF fullSize < newSize /\ NeedBroadcastFull THEN "broadcastFull" ELSE "idle")
  /\ UNCHANGED <<list, closed, emptyWaited, fullWaited, waiters, ret>>

-----------------------------------------------------------------------------
(* The wake-ups, after listGuard was released.                             *)

SignalEmpty(t) ==
  /\ pc[t] = "signalEmpty"
  /\ C!WakeOne("empty")
  /\ Goto(t, "idle")
  /\ UNCHANGED <<list, fullSize, closed, emptyWaited, fullWaited, ret>>

BroadcastFull(t) ==
  /\ pc[t] \in {"broadcastFull", "closeFull"}
  /\ C!WakeAll("full")
  /\ Goto(t, "idle")
  /\ UNCHANGED <<list, fullSize, closed, emptyWaited, fullWaited, ret>>

BroadcastEmpty(t) ==
  /\ pc[t] = "closeEmpty"
  /\ C!WakeAll("empty")
  /\ Goto(t, "closeFull")
  /\ UNCHANGED <<list, fullSize, closed, emptyWaited, fullWaited, ret>>

-----------------------------------------------------------------------------
(* The rest of a call once it has been made and is not waiting.            *)
Continue(t) ==
  \/ AddResume(t)
  \/ AddTimedOut(t)
  \/ GetResume(t)
  \/ SignalEmpty(t)
  \/ BroadcastFull(t)
  \/ BroadcastEmpty(t)

Next ==
  \/ \E t \in Producers : Add(t) \/ AddWithTimeout(t, "fullWait") \/ AddWithTimeout(t, "timedWait")
  \/ \E t \in Producers : AddExpire(t)
  \/ \E t \in Consumers : Get(t)
  \/ \E t \in Controllers : Close(t)
  \/ \E t \in Controllers, n \in Sizes : SetFullSize(t, n)
  \/ \E t \in Threads : Continue(t)

(* Goroutines are scheduled: one that can run its call further does.       *)
(* Nobody is obliged to make a call.                                       *)
Fairness == \A t \in Threads : WF_vars(Continue(t))

Spec == Init /\ [][Next]_vars /\ Fairness

-----------------------------------------------------------------------------
(* Properties.                                                             *)

TypeOK ==
  /\ list \in Seq(Threads)
  /\ fullSize \in Sizes
  /\ closed \in BOOLEAN
  /\ emptyWaited \in Nat
  /\ fullWaited \in Nat
  /\ waiters \in [Conds -> SUBSET Threads]
  /\ pc \in [Threads -> PCs]
  /\ ret \in [Threads -> Results]

FullWaiting == {t \in Threads : pc[t] \in {"fullWait", "timedWait"}}

FullBlocked == {t \in Threads : pc[t] \in {"fullWait", "timedWait", "timedOut"}}

EmptyBlocked == {t \in Threads : pc[t] = "emptyWait"}

(* fullWaited and emptyWaited, which decide whether anybody is woken at    *)
(* all, count exactly the goroutines between their increment and their     *)
(* decrement, and only goroutines that wait are on a list.                 *)
WaitersCounted ==
  /\ fullWaited = Cardinality(FullBlocked)
  /\ emptyWaited = Cardinality(EmptyBlocked)
  /\ waiters["full"] \subseteq FullWaiting
  /\ waiters["empty"] \subseteq EmptyBlocked

(* No wake-up of a sender is lost: while one waits although the queue has  *)
(* room or is closed, some goroutine is still going to broadcast fullCond. *)
ProducerWakeup ==
  (waiters["full"] # {} /\ (closed \/ Len(list) < fullSize))
    => \E u \in Threads : pc[u] \in {"broadcastFull", "closeEmpty", "closeFull"}

(* No wake-up of a reader is lost: while one waits although the queue has  *)
(* items, some goroutine is still going to signal emptyCond or another     *)
(* reader has been woken and will take the items; while one waits although *)
(* the queue is closed, Close is still going to broadcast.                 *)
ConsumerWakeup ==
  waiters["empty"] # {} =>
    /\ list # <<>> => \/ \E u \in Threads : pc[u] \in {"signalEmpty", "closeEmpty"}
                      \/ EmptyBlocked \ waiters["empty"] # {}
    /\ closed => \E u \in Threads : pc[u] = "closeEmpty"

(* No wake-up is lost: a sender or a reader that waits although it could   *)
(* go on is going to be woken.                                             *)
NoLostWakeup == ProducerWakeup /\ ConsumerWakeup

(* However many senders one broadcast wakes, and whoever comes in between, *)
(* the queue never holds more than the largest size it was ever given.     *)
CapacityBound == \E n \in Sizes : Len(list) <= n

(* Once the queue is closed no call, waiting or new, adds an item, and     *)
(* what a call then returns is ErrQueueClosed.                             *)
ClosedRefusesItems ==
  [][closed => /\ Len(list') <= Len(list)
               /\ \A t \in Threads : ret'[t] # ret[t] => ret'[t] = "ErrQueueClosed"]_vars

(* After Close every call in progress returns, and there comes a time when *)
(* none is in progress.                                                    *)
CloseReleasesAll == closed ~> (\A t \in Threads : pc[t] = "idle")

(* While a goroutine waits in Get, items that are added are taken: the     *)
(* signal is not lost between the counter and the wait.                    *)
ItemsTaken ==
  (list # <<>> /\ \E t \in Consumers : pc[t] = "emptyWait") ~> (list = <<>>)

(* Calls of the queue make progress: after Close all of them return, and   *)
(* with a reader waiting items are taken.  For calls with a timeout this   *)
(* rests on Cond, where a wait that times out leaves the others waiting;   *)
(* removeWait of util/cond.go does not always keep to that (CondImpl).     *)
Progress == CloseReleasesAll /\ ItemsTaken
=============================================================================
