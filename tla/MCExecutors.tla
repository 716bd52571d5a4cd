---------------------------- MODULE MCExecutors -----------------------------
(* The parts that run functions of the application, for TLC: a goroutine   *)
(* pool and a timer.  They share nothing: a behaviour is one of the part   *)
(* it begins with, and the other stays as it is.                           *)
EXTENDS GoPool, Timer

CONSTANT Parts   \* "pool", "timer"

VARIABLE part

mcVars == <<part, vars, poolVars>>

Opt(m, r, size) == [max |-> m, reserve |-> r, queue |-> size]

(* MaxRoutineCount above, at and below ReserveRoutineCount, or not set;    *)
(* queues that are unlimited, bounded and absent.                          *)
MCOptions ==
  {Opt(3, 1, -1), Opt(3, 2, 1), Opt(2, 1, -1), Opt(2, 2, 1), Opt(1, 2, 1), Opt(1, 0, 0),
   Opt(0, 2, 0), Opt(0, 1, 0), Opt(0, 0, -1)}

(* The state of a part that does not run is fixed, and the time.Timers     *)
(* differ in nothing, so one of them stands for the first.                 *)
MCInit ==
  /\ part \in Parts
  /\ PoolInit /\ (part # "pool" => o = CHOOSE op \in Options : TRUE)
  /\ Init /\ first = (CHOOSE x \in GoTimers : TRUE) /\ (part # "timer" => repeat)

InPool(A) == part = "pool" /\ A /\ UNCHANGED <<part, vars>>

InTimer(A) == part = "timer" /\ A /\ UNCHANGED <<part, poolVars>>

MCNext == InPool(PoolNext) \/ InTimer(Next)

(* The fairness of GoPool and Timer.                                       *)
MCFairness ==
  /\ \A c \in Callers : WF_mcVars(InPool(Handoff(c)))
  /\ \A r \in Routines : WF_mcVars(InPool(run(r)))
  /\ \A k \in Tasks : WF_mcVars(InPool(RunPlain(k)))
  /\ WF_mcVars(InTimer(newTimer))
  /\ \A x \in GoTimers : WF_mcVars(InTimer(Restart(x) \/ \E c \in Calls : Expire(x, c)))
  /\ \A c \in Calls : WF_mcVars(InTimer(call(c)))
  /\ \A u \in Users : WF_mcVars(InTimer(UserStep(u)))

MCSpec == MCInit /\ [][MCNext]_mcVars /\ MCFairness

-----------------------------------------------------------------------------
(* GoPool: a task that Go has accepted runs, unless the pool is closed     *)
(* while the task is queued, and Close ends every routine.  The tasks      *)
(* differ in nothing, so one of them stands for all.                       *)
PoolProgress == part = "pool" => TaskRuns(CHOOSE k \in Tasks : TRUE) /\ CloseEnds

(* Timer: a timer that waits calls back, or is cancelled or reset.         *)
TimerFires == part = "timer" => Fires
=============================================================================
