-------------------------------- MODULE Cond --------------------------------
(***************************************************************************)
(* What the condition variable of socket/sendqueue.go promises: a set of   *)
(* waiting goroutines per condition, from which signal takes one,          *)
(* broadcast takes all, and an expired waitWithTimeout takes itself.       *)
(*                                                                         *)
(* SendQueue uses the four operations on wait sets.  CondImpl, which has   *)
(* the pooled list nodes of the code, is checked to implement Spec as long *)
(* as nobody uses waitWithTimeout.                                         *)
(***************************************************************************)
EXTENDS Naturals

CONSTANTS
  Conds,     \* the condition variables
  Threads    \* the goroutines that use them

VARIABLES
  waiters,   \* waiters[c]: the goroutines a signal of c can still wake
  blocked    \* blocked[c]: the goroutines inside c.wait or c.waitWithTimeout

condVars == <<waiters, blocked>>

-----------------------------------------------------------------------------
(* The operations on wait sets.                                            *)

Enqueue(c, t) == waiters' = [waiters EXCEPT ![c] = @ \cup {t}]

Withdraw(c, t) == waiters' = [waiters EXCEPT ![c] = @ \ {t}]

WakeOne(c) ==
  \/ /\ waiters[c] = {}
     /\ UNCHANGED waiters
  \/ \E u \in waiters[c] : Withdraw(c, u)

WakeAll(c) == waiters' = [waiters EXCEPT ![c] = {}]

-----------------------------------------------------------------------------
(* Goroutines that use the conditions in any order.                        *)

Init ==
  /\ waiters = [c \in Conds |-> {}]
  /\ blocked = [c \in Conds |-> {}]

Wait(c, t) ==
  /\ \A d \in Conds : t \notin blocked[d]
  /\ Enqueue(c, t)
  /\ blocked' = [blocked EXCEPT ![c] = @ \cup {t}]

(* A goroutine that has been woken returns TRUE.                           *)
Return(c, t) ==
  /\ t \in blocked[c] \ waiters[c]
  /\ blocked' = [blocked EXCEPT ![c] = @ \ {t}]
  /\ UNCHANGED waiters

(* A timed goroutine gives up, whether or not it has been woken.           *)
Expire(c, t) ==
  /\ t \in blocked[c]
  /\ Withdraw(c, t)
  /\ blocked' = [blocked EXCEPT ![c] = @ \ {t}]

Signal(c) == WakeOne(c) /\ UNCHANGED blocked

Broadcast(c) == WakeAll(c) /\ UNCHANGED blocked

Next ==
  \E c \in Conds :
    \/ Signal(c)
    \/ Broadcast(c)
    \/ \E t \in Threads : Wait(c, t) \/ Return(c, t) \/ Expire(c, t)

Fairness == \A c \in Conds, t \in Threads : WF_condVars(Return(c, t))

Safety == Init /\ [][Next]_condVars

Spec == Safety /\ Fairness
=============================================================================
