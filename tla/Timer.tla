------------------------------- MODULE Timer --------------------------------
(***************************************************************************)
(* One Timer of timer/timer.go: the goroutine that makes a once or a       *)
(* repeat timer, those that run call, and those that call Cancel and       *)
(* ResetFireTime.                                                          *)
(*                                                                         *)
(* A time.Timer made by AfterFunc is pending until it expires, which       *)
(* starts a goroutine in call, or until Stop; Reset makes it pending       *)
(* again.  Every atomic operation is one action, but that t is loaded with *)
(* the Stop or Reset that follows: what Stop gets decides only which       *)
(* time.Timers expire once the status is "removed", and t of a once timer, *)
(* the only one to be Reset, does not change when it is stored.  Calls of  *)
(* Cancel and ResetFireTime made in the callback are calls of some         *)
(* goroutine in Users while the callback runs.                             *)
(***************************************************************************)
EXTENDS Naturals, FiniteSets

CONSTANTS
  Users,    \* goroutines that call Cancel and ResetFireTime
  Calls,    \* goroutines that time.Timer starts, reused when they have ended
  GoTimers, \* time.Timer objects, reused when nothing refers to them
  Repeats,  \* the kinds of timer tried: a set of Booleans
  None

ASSUME NoneAssumption == None \notin GoTimers

VARIABLES
  repeat,
  status,
  t,         \* the time.Timer stored in t, or None
  npc,       \* where newTimer is
  first,     \* the time.Timer that newTimer makes
  pending,   \* the time.Timers that will expire
  cpc,       \* where each goroutine in call is
  made,      \* the time.Timer a goroutine in call has made and not stored
  upc,       \* where each user is
  fires,     \* history: callbacks begun, counted up to 2
  cancelled  \* history: what the calls of Cancel that returned have returned

vars == <<repeat, status, t, npc, first, pending, cpc, made, upc, fires, cancelled>>

(* newTimer has made the Timer.                                            *)
Init ==
  /\ repeat \in Repeats
  /\ status = "waitting"
  /\ t = None
  /\ npc = "afterFunc"
  /\ first \in GoTimers
  /\ pending = {}
  /\ cpc = [c \in Calls |-> "none"]
  /\ made = [c \in Calls |-> None]
  /\ upc = [u \in Users |-> "idle"]
  /\ fires = 0
  /\ cancelled = {}

Goto(c, l) == cpc' = [cpc EXCEPT ![c] = l]

UserGoto(u, l) == upc' = [upc EXCEPT ![u] = l]

-----------------------------------------------------------------------------
(* newTimer: the callback may run before t is stored.                      *)

NewAfterFunc ==
  /\ npc = "afterFunc"
  /\ pending' = pending \cup {first}
  /\ npc' = "store"
  /\ UNCHANGED <<repeat, status, t, first, cpc, made, upc, fires, cancelled>>

NewStore ==
  /\ npc = "store"
  /\ t' = first
  /\ npc' = "returned"
  /\ UNCHANGED <<repeat, status, first, pending, cpc, made, upc, fires, cancelled>>

newTimer == NewAfterFunc \/ NewStore

(* Others have the Timer: newTimer has returned it, or a callback, which   *)
(* is given it, has passed it on.                                          *)
Known == npc = "returned" \/ fires > 0

(* x expires and the goroutine c begins call.                              *)
Expire(x, c) ==
  /\ x \in pending
  /\ cpc[c] = "none"
  /\ pending' = pending \ {x}
  /\ Goto(c, "begin")
  /\ UNCHANGED <<repeat, status, t, npc, first, made, upc, fires, cancelled>>

-----------------------------------------------------------------------------
(* call.                                                                   *)

(* Mutant: the status is not tested.                                       *)
CallBeginAlways(c) ==
  /\ cpc[c] = "begin"
  /\ status' = "firing"
  /\ fires' = IF fires < 2 THEN fires + 1 ELSE fires
  /\ Goto(c, "callback")
  /\ UNCHANGED <<repeat, t, npc, first, pending, made, upc, cancelled>>

CallBegin(c) ==
  /\ cpc[c] = "begin"
  /\ IF status = "waitting"
     THEN /\ status' = "firing"
          /\ fires' = IF fires < 2 THEN fires + 1 ELSE fires
          /\ Goto(c, "callback")
     ELSE Goto(c, "none") /\ UNCHANGED <<status, fires>>
  /\ UNCHANGED <<repeat, t, npc, first, pending, made, upc, cancelled>>

CallbackReturns(c) ==
  /\ cpc[c] = "callback"
  /\ Goto(c, IF repeat THEN "again" ELSE "end")
  /\ UNCHANGED <<repeat, status, t, npc, first, pending, made, upc, fires, cancelled>>

CallEnd(c) ==
  /\ cpc[c] = "end"
  /\ status' = "removed"
  /\ Goto(c, "none")
  /\ UNCHANGED <<repeat, t, npc, first, pending, made, upc, fires, cancelled>>

(* Mutant: the status is set, not compared.                                *)
CallAgainStores(c) ==
  /\ cpc[c] = "again"
  /\ status' = "waitting"
  /\ Goto(c, "afterFunc")
  /\ UNCHANGED <<repeat, t, npc, first, pending, made, upc, fires, cancelled>>

CallAgain(c) ==
  /\ cpc[c] = "again"
  /\ IF status = "firing"
     THEN status' = "waitting" /\ Goto(c, "afterFunc")
     ELSE Goto(c, "none") /\ UNCHANGED status
  /\ UNCHANGED <<repeat, t, npc, first, pending, made, upc, fires, cancelled>>

InUse ==
  pending \cup {t} \cup {made[c] : c \in Calls} \cup (IF npc = "returned" THEN {} ELSE {first})

CallAfterFunc(c) ==
  /\ cpc[c] = "afterFunc"
  /\ \E x \in GoTimers \ InUse :
       /\ pending' = pending \cup {x}
       /\ made' = [made EXCEPT ![c] = x]
  /\ Goto(c, "store")
  /\ UNCHANGED <<repeat, status, t, npc, first, upc, fires, cancelled>>

CallStore(c) ==
  /\ cpc[c] = "store"
  /\ t' = made[c]
  /\ made' = [made EXCEPT ![c] = None]
  /\ Goto(c, "load")
  /\ UNCHANGED <<repeat, status, npc, first, pending, upc, fires, cancelled>>

(* Mutant: the test for removed is inverted.                               *)
CallLoadInverted(c) ==
  /\ cpc[c] = "load"
  /\ Goto(c, IF status = "removed" THEN "none" ELSE "stop")
  /\ UNCHANGED <<repeat, status, t, npc, first, pending, made, upc, fires, cancelled>>

CallLoad(c) ==
  /\ cpc[c] = "load"
  /\ Goto(c, IF status = "removed" THEN "stop" ELSE "none")
  /\ UNCHANGED <<repeat, status, t, npc, first, pending, made, upc, fires, cancelled>>

CallStop(c) ==
  /\ cpc[c] = "stop"
  /\ pending' = pending \ {t}
  /\ Goto(c, "none")
  /\ UNCHANGED <<repeat, status, t, npc, first, made, upc, fires, cancelled>>

call(c) ==
  \/ CallBegin(c) \/ CallbackReturns(c) \/ CallEnd(c)
  \/ CallAgain(c) \/ CallAfterFunc(c) \/ CallStore(c) \/ CallLoad(c) \/ CallStop(c)

-----------------------------------------------------------------------------
(* Cancel.                                                                 *)

Cancel(u) ==
  /\ upc[u] = "idle"
  /\ Known
  /\ IF status = "waitting"
     THEN status' = "removed" /\ UserGoto(u, "stop")
     ELSE UserGoto(u, "remove") /\ UNCHANGED status
  /\ UNCHANGED <<repeat, t, npc, first, pending, cpc, made, fires, cancelled>>

(* Without a time.Timer in t the type assertion fails.                     *)
CancelPanic(u) ==
  /\ upc[u] = "stop"
  /\ t = None
  /\ UserGoto(u, "panicked")
  /\ UNCHANGED <<repeat, status, t, npc, first, pending, cpc, made, fires, cancelled>>

CancelStop(u) ==
  /\ upc[u] = "stop"
  /\ t # None
  /\ pending' = pending \ {t}
  /\ cancelled' = cancelled \cup {TRUE}
  /\ UserGoto(u, "idle")
  /\ UNCHANGED <<repeat, status, t, npc, first, cpc, made, fires>>

CancelRemove(u) ==
  /\ upc[u] = "remove"
  /\ status' = "removed"
  /\ cancelled' = cancelled \cup {FALSE}
  /\ UserGoto(u, "idle")
  /\ UNCHANGED <<repeat, t, npc, first, pending, cpc, made, fires>>

(* Mutant: a repeat timer is reset, too.                                   *)
ResetFireTimeAny(u) ==
  /\ upc[u] = "idle"
  /\ Known
  /\ status = "waitting"
  /\ UserGoto(u, "reset")
  /\ UNCHANGED <<repeat, status, t, npc, first, pending, cpc, made, fires, cancelled>>

(* ResetFireTime: the test, then Reset, which makes the time.Timer pending *)
(* whether it has expired or not.                                          *)
ResetFireTime(u) ==
  /\ upc[u] = "idle"
  /\ Known
  /\ ~repeat
  /\ status = "waitting"
  /\ UserGoto(u, "reset")
  /\ UNCHANGED <<repeat, status, t, npc, first, pending, cpc, made, fires, cancelled>>

Reset(u) ==
  /\ upc[u] = "reset"
  /\ pending' = pending \cup {t}
  /\ UserGoto(u, "idle")
  /\ UNCHANGED <<repeat, status, t, npc, first, cpc, made, fires, cancelled>>

UserStep(u) == CancelPanic(u) \/ CancelStop(u) \/ CancelRemove(u) \/ Reset(u)

-----------------------------------------------------------------------------
Next ==
  \/ newTimer
  \/ \E x \in GoTimers, c \in Calls : Expire(x, c)
  \/ \E c \in Calls : call(c)
  \/ \E u \in Users : Cancel(u) \/ ResetFireTime(u) \/ UserStep(u)

(* Reset of x begins its time anew.                                        *)
Restart(x) == \E u \in Users : t = x /\ Reset(u)

(* A time.Timer that is pending expires, unless it is reset before, which  *)
(* may happen for ever; and goroutines that can run do.                    *)
Fairness ==
  /\ WF_vars(newTimer)
  /\ \A x \in GoTimers : WF_vars(Restart(x) \/ \E c \in Calls : Expire(x, c))
  /\ \A c \in Calls : WF_vars(call(c))
  /\ \A u \in Users : WF_vars(UserStep(u))

Spec == Init /\ [][Next]_vars

FairSpec == Spec /\ Fairness

-----------------------------------------------------------------------------
(* Every variable has its type.                                            *)
TypeOK ==
  /\ repeat \in Repeats
  /\ status \in {"waitting", "firing", "removed"}
  /\ t \in GoTimers \cup {None}
  /\ npc \in {"afterFunc", "store", "returned"}
  /\ first \in GoTimers
  /\ pending \subseteq GoTimers
  /\ cpc \in [Calls -> {"none", "begin", "callback", "end", "again", "afterFunc", "store", "load",
                        "stop"}]
  /\ made \in [Calls -> GoTimers \cup {None}]
  /\ upc \in [Users -> {"idle", "stop", "remove", "reset", "panicked"}]
  /\ fires \in 0..2
  /\ cancelled \subseteq BOOLEAN

InCallback == {c \in Calls : cpc[c] = "callback"}

(* There is a time.Timer in t when it is to be stopped or reset, with one  *)
(* exception: a repeat timer that calls back, and waits again, before      *)
(* newTimer has stored its first one.  Then Cancel panics.                 *)
LoadsTimer ==
  /\ \A c \in Calls : cpc[c] = "stop" => t # None
  /\ \A u \in Users : upc[u] = "reset" => t # None
  /\ \A u \in Users : upc[u] = "stop" /\ t = None => repeat /\ npc # "returned"
  /\ \A u \in Users : upc[u] = "panicked" => repeat

(* Callbacks of one timer do not overlap, even when a repeat timer expires *)
(* again before the goroutine of the last callback, or newTimer, has       *)
(* stored it, or when Reset revives an expired timer; a once timer calls   *)
(* back at most once, however often it is reset; when a Cancel has         *)
(* returned true, no callback is running; and there is a time.Timer to     *)
(* stop or reset where LoadsTimer says so.                                 *)
CallbacksExclusive ==
  /\ TypeOK
  /\ Cardinality(InCallback) <= 1
  /\ ~repeat => fires <= 1
  /\ TRUE \in cancelled => InCallback = {}
  /\ LoadsTimer

(* When a Cancel has returned, no callback begins any more.                *)
CancelStops == [][cancelled # {} => InCallback' \subseteq InCallback]_vars

(* A timer that waits calls back, again and again if it repeats, unless it *)
(* is cancelled, or reset: then its time begins anew, and a timer that is  *)
(* reset for ever need not call back.                                      *)
Fires ==
  (status = "waitting") ~> (InCallback # {} \/ status = "removed" \/ \E u \in Users : upc[u] = "reset")
=============================================================================
