------------------------------- MODULE GoPool -------------------------------
(***************************************************************************)
(* The goroutine pool of gopool/gopool.go: Go, Close, and the routines     *)
(* that run tasks and come back to the pool through putRoutine.            *)
(*                                                                         *)
(* What happens under p.Lock is one action.  taskCh is unbuffered, so the  *)
(* end of Go that hands a task to a routine is a step of both.  A name in  *)
(* Routines stands for a routine object with its channel; it is used again *)
(* after the routine has returned.                                         *)
(***************************************************************************)
EXTENDS Integers, Sequences, FiniteSets

CONSTANTS
  Callers,   \* goroutines that call Go and Close
  Routines,
  Tasks,     \* each is given to Go at most once
  Options,   \* the values of Option
  Nil

ASSUME GoPoolAssumption ==
  /\ Options \subseteq [max : Int, reserve : Int, queue : Int]
  /\ Nil \notin Tasks \cup Routines

VARIABLES
  o,             \* MaxRoutineCount, ReserveRoutineCount, MaxQueueSize
  die,
  routineCount,
  freeRoutines,
  taskQueue,
  chClosed,      \* the routines whose taskCh is closed
  rpc,           \* "none", "recv" (in range taskCh), "run" or "put" (before putRoutine)
  rtask,         \* the task a routine runs
  hand,          \* the task and the routine a caller is sending to
  plain,         \* tasks started with go task()
  runs           \* history: how often each task has run

poolVars == <<o, die, routineCount, freeRoutines, taskQueue, chClosed, rpc, rtask, hand, plain, runs>>

Idle == [task |-> Nil, to |-> Nil]

PoolInit ==
  /\ o \in Options
  /\ die = FALSE
  /\ routineCount = 0
  /\ freeRoutines = <<>>
  /\ taskQueue = <<>>
  /\ chClosed = {}
  /\ rpc = [r \in Routines |-> "none"]
  /\ rtask = [r \in Routines |-> Nil]
  /\ hand = [c \in Callers |-> Idle]
  /\ plain = {}
  /\ runs = [t \in Tasks |-> 0]

Members(s) == {s[i] : i \in 1..Len(s)}

(* The tasks Go has accepted, by where they are now.                       *)
InHand == {hand[c].task : c \in Callers} \ {Nil}
Running == {rtask[r] : r \in Routines} \ {Nil}
Accepted ==
  Members(taskQueue) \cup InHand \cup Running \cup plain \cup {t \in Tasks : runs[t] > 0}

Fresh(c, t) == ~die /\ hand[c] = Idle /\ t \notin Accepted

-----------------------------------------------------------------------------
(* Go, by its four outcomes.  A call that returns an error changes         *)
(* nothing.                                                                *)

(* Mutant: getRoutine leaves the routine in the list.                      *)
GoFreeKeeps(c, t) ==
  /\ Fresh(c, t)
  /\ freeRoutines # <<>>
  /\ hand' = [hand EXCEPT ![c] = [task |-> t, to |-> Head(freeRoutines)]]
  /\ UNCHANGED <<o, die, routineCount, freeRoutines, taskQueue, chClosed, rpc, rtask, plain, runs>>

(* getRoutine, then the send on taskCh begins.                             *)
GoFree(c, t) ==
  /\ Fresh(c, t)
  /\ freeRoutines # <<>>
  /\ hand' = [hand EXCEPT ![c] = [task |-> t, to |-> Head(freeRoutines)]]
  /\ freeRoutines' = Tail(freeRoutines)
  /\ UNCHANGED <<o, die, routineCount, taskQueue, chClosed, rpc, rtask, plain, runs>>

(* Mutant: the limit is off by one.                                        *)
AtMaxOffByOne == o.max > 0 /\ routineCount > o.max

AtMax == o.max > 0 /\ routineCount = o.max

QueueFull == o.queue >= 0 /\ Len(taskQueue) >= o.queue

GoQueue(c, t) ==
  /\ Fresh(c, t)
  /\ freeRoutines = <<>>
  /\ AtMax
  /\ ~QueueFull
  /\ taskQueue' = Append(taskQueue, t)
  /\ UNCHANGED <<o, die, routineCount, freeRoutines, chClosed, rpc, rtask, hand, plain, runs>>

Unpooled == o.max <= 0 /\ routineCount >= o.reserve

GoPlain(c, t) ==
  /\ Fresh(c, t)
  /\ freeRoutines = <<>>
  /\ ~AtMax
  /\ Unpooled
  /\ plain' = plain \cup {t}
  /\ UNCHANGED <<o, die, routineCount, freeRoutines, taskQueue, chClosed, rpc, rtask, hand, runs>>

GoNew(c, t) ==
  /\ Fresh(c, t)
  /\ freeRoutines = <<>>
  /\ ~AtMax
  /\ ~Unpooled
  /\ routineCount' = routineCount + 1
  /\ \E r \in Routines :
       /\ rpc[r] = "none"
       /\ rpc' = [rpc EXCEPT ![r] = "recv"]
       /\ chClosed' = chClosed \ {r}
       /\ hand' = [hand EXCEPT ![c] = [task |-> t, to |-> r]]
  /\ UNCHANGED <<o, die, freeRoutines, taskQueue, rtask, plain, runs>>

(* taskCh <- task meets range taskCh.                                      *)
Handoff(c) ==
  LET r == hand[c].to
  IN  /\ r \in Routines
      /\ rpc[r] = "recv"
      /\ r \notin chClosed
      /\ rpc' = [rpc EXCEPT ![r] = "run"]
      /\ rtask' = [rtask EXCEPT ![r] = hand[c].task]
      /\ hand' = [hand EXCEPT ![c] = Idle]
      /\ UNCHANGED <<o, die, routineCount, freeRoutines, taskQueue, chClosed, plain, runs>>

(* Mutant: Close takes the routines from the list without closing taskCh.  *)
CloseLeavesOpen(c) ==
  /\ hand[c] = Idle
  /\ ~die
  /\ die' = TRUE
  /\ freeRoutines' = <<>>
  /\ UNCHANGED <<o, routineCount, taskQueue, chClosed, rpc, rtask, hand, plain, runs>>

Close(c) ==
  /\ hand[c] = Idle
  /\ ~die
  /\ die' = TRUE
  /\ chClosed' = chClosed \cup Members(freeRoutines)
  /\ freeRoutines' = <<>>
  /\ UNCHANGED <<o, routineCount, taskQueue, rpc, rtask, hand, plain, runs>>

-----------------------------------------------------------------------------
(* run and putRoutine.                                                     *)

Ran(t) == runs' = [runs EXCEPT ![t] = @ + 1]

RunTask(r) ==
  /\ rpc[r] = "run"
  /\ Ran(rtask[r])
  /\ rtask' = [rtask EXCEPT ![r] = Nil]
  /\ rpc' = [rpc EXCEPT ![r] = "put"]
  /\ UNCHANGED <<o, die, routineCount, freeRoutines, taskQueue, chClosed, hand, plain>>

RunPlain(t) ==
  /\ t \in plain
  /\ plain' = plain \ {t}
  /\ Ran(t)
  /\ UNCHANGED <<o, die, routineCount, freeRoutines, taskQueue, chClosed, rpc, rtask, hand>>

PutDie(r) ==
  /\ rpc[r] = "put"
  /\ die
  /\ rpc' = [rpc EXCEPT ![r] = "none"]
  /\ UNCHANGED <<o, die, routineCount, freeRoutines, taskQueue, chClosed, rtask, hand, plain, runs>>

PutNext(r) ==
  /\ rpc[r] = "put"
  /\ ~die
  /\ taskQueue # <<>>
  /\ rtask' = [rtask EXCEPT ![r] = Head(taskQueue)]
  /\ taskQueue' = Tail(taskQueue)
  /\ rpc' = [rpc EXCEPT ![r] = "run"]
  /\ UNCHANGED <<o, die, routineCount, freeRoutines, chClosed, hand, plain, runs>>

PutSurplus(r) ==
  /\ rpc[r] = "put"
  /\ ~die
  /\ taskQueue = <<>>
  /\ routineCount > o.reserve
  /\ routineCount' = routineCount - 1
  /\ rpc' = [rpc EXCEPT ![r] = "none"]
  /\ UNCHANGED <<o, die, freeRoutines, taskQueue, chClosed, rtask, hand, plain, runs>>

(* Mutant: the queue is not looked at before going idle.                   *)
PutFreeEarly(r) ==
  /\ rpc[r] = "put"
  /\ ~die
  /\ routineCount <= o.reserve
  /\ freeRoutines' = Append(freeRoutines, r)
  /\ rpc' = [rpc EXCEPT ![r] = "recv"]
  /\ UNCHANGED <<o, die, routineCount, taskQueue, chClosed, rtask, hand, plain, runs>>

PutFree(r) ==
  /\ rpc[r] = "put"
  /\ ~die
  /\ taskQueue = <<>>
  /\ routineCount <= o.reserve
  /\ freeRoutines' = Append(freeRoutines, r)
  /\ rpc' = [rpc EXCEPT ![r] = "recv"]
  /\ UNCHANGED <<o, die, routineCount, taskQueue, chClosed, rtask, hand, plain, runs>>

(* range ends on a closed channel.                                         *)
RangeEnds(r) ==
  /\ rpc[r] = "recv"
  /\ r \in chClosed
  /\ rpc' = [rpc EXCEPT ![r] = "none"]
  /\ UNCHANGED <<o, die, routineCount, freeRoutines, taskQueue, chClosed, rtask, hand, plain, runs>>

-----------------------------------------------------------------------------
Go(c, t) == GoFree(c, t) \/ GoQueue(c, t) \/ GoPlain(c, t) \/ GoNew(c, t)

putRoutine(r) == PutDie(r) \/ PutNext(r) \/ PutSurplus(r) \/ PutFree(r)

run(r) == RunTask(r) \/ putRoutine(r) \/ RangeEnds(r)

PoolNext ==
  \/ \E c \in Callers : (\E t \in Tasks : Go(c, t)) \/ Handoff(c) \/ Close(c)
  \/ \E r \in Routines : run(r)
  \/ \E t \in Tasks : RunPlain(t)

(* Goroutines that can run do; tasks return.                               *)
PoolFairness ==
  /\ \A c \in Callers : WF_poolVars(Handoff(c))
  /\ \A r \in Routines : WF_poolVars(run(r))
  /\ \A t \in Tasks : WF_poolVars(RunPlain(t))

PoolSpec == PoolInit /\ [][PoolNext]_poolVars

PoolFairSpec == PoolSpec /\ PoolFairness

-----------------------------------------------------------------------------
(* Every variable has its type; a routine has a task exactly when it is    *)
(* running one, so run never calls a nil task.                             *)
PoolTypeOK ==
  /\ o \in Options
  /\ die \in BOOLEAN
  /\ routineCount \in Nat
  /\ freeRoutines \in Seq(Routines)
  /\ taskQueue \in Seq(Tasks)
  /\ chClosed \subseteq Routines
  /\ rpc \in [Routines -> {"none", "recv", "run", "put"}]
  /\ rtask \in [Routines -> Tasks \cup {Nil}]
  /\ \A r \in Routines : rtask[r] # Nil <=> rpc[r] = "run"
  /\ hand \in [Callers -> [task : Tasks, to : Routines] \cup {Idle}]
  /\ plain \subseteq Tasks
  /\ runs \in [Tasks -> Nat]

Live == {r \in Routines : rpc[r] # "none"}

(* MaxRoutineCount bounds the routines that exist at the same time, and    *)
(* ReserveRoutineCount the idle ones, while routines leave, new ones are   *)
(* made and the pool is closed.  No routine is idle while a task waits:    *)
(* there is a backlog only when no routine is free and MaxRoutineCount of  *)
(* them exist.  A task is never left in the queue with nobody who will     *)
(* come for it.                                                            *)
RoutinesUsed ==
  /\ PoolTypeOK
  /\ o.max > 0 => Cardinality(Live) <= o.max
  /\ freeRoutines # <<>> => Len(freeRoutines) <= o.reserve
  /\ ~die /\ taskQueue # <<>> => freeRoutines = <<>> /\ o.max > 0 /\ Cardinality(Live) = o.max

(* A routine that Go is sending to is waiting in its range: it is not in   *)
(* the free list, no other call has it, and Close has not closed and will  *)
(* not close its channel, so that the send neither blocks for good nor     *)
(* panics.                                                                 *)
HandoffSafe ==
  \A c \in Callers : hand[c] # Idle =>
    /\ rpc[hand[c].to] = "recv"
    /\ hand[c].to \notin chClosed \cup Members(freeRoutines)
    /\ \A d \in Callers : hand[d].to = hand[c].to => d = c

(* A task is in one place at a time and runs at most once; in particular a *)
(* task that is being handed over is safe.                                 *)
TaskOnce ==
  /\ HandoffSafe
  /\ \A t \in Tasks :
       Cardinality({i \in 1..Len(taskQueue) : taskQueue[i] = t})
         + Cardinality({c \in Callers : hand[c].task = t})
         + Cardinality({r \in Routines : rtask[r] = t})
         + Cardinality(plain \cap {t}) + runs[t] <= 1

(* A task that Go has accepted runs, unless the pool is closed while the   *)
(* task is still queued.                                                   *)
TaskRuns(t) == (t \in Accepted) ~> (runs[t] = 1 \/ (die /\ t \in Members(taskQueue)))

(* After Close every routine returns.                                      *)
CloseEnds == die ~> (Live = {})
=============================================================================
