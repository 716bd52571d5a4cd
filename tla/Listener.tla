------------------------------ MODULE Listener ------------------------------
(***************************************************************************)
(* A listener: Serve and Close of socket/listener/tcp, which socket/       *)
(* listener/aio repeats word for word, and of socket/listener/websocket,   *)
(* where http.Serve has the loop.  Goroutines call Serve and Close, each   *)
(* of them once.                                                           *)
(***************************************************************************)
EXTENDS Integers, FiniteSets

CONSTANTS
  Callers,      \* goroutines
  MaxClients    \* bound: connections that arrive

VARIABLES
  http,           \* the listener of websocket
  started, lclosed, \* the flags started and closed
  open,           \* the net.Listener has not been closed
  clients,        \* calls of onNewClient
  lpc,            \* where each goroutine is
  lerr            \* the last error of Accept, then what Serve has returned

listenerVars == <<http, started, lclosed, open, clients, lpc, lerr>>

ListenerInit ==
  /\ http \in BOOLEAN
  /\ started = FALSE
  /\ lclosed = FALSE
  /\ open = TRUE
  /\ clients = 0
  /\ lpc = [c \in Callers |-> "idle"]
  /\ lerr = [c \in Callers |-> "nil"]

Step(c, from, to) == lpc[c] = from /\ lpc' = [lpc EXCEPT ![c] = to]

Return(c, e) == lerr' = [lerr EXCEPT ![c] = e]

-----------------------------------------------------------------------------
(* Mutant: the flag is not set.                                            *)
CloseUnmarked(c) ==
  /\ ~http
  /\ Step(c, "idle", IF lclosed THEN "end" ELSE "closing")
  /\ UNCHANGED <<http, started, lclosed, open, clients, lerr>>

(* Close: the winner of the compare-and-swap closes the net.Listener.      *)
ListenerClose(c) ==
  /\ ~http
  /\ Step(c, "idle", IF lclosed THEN "end" ELSE "closing")
  /\ lclosed' = TRUE
  /\ UNCHANGED <<http, started, open, clients, lerr>>

CloseNetListener(c) ==
  /\ Step(c, "closing", "end")
  /\ open' = FALSE
  /\ UNCHANGED <<http, started, lclosed, clients, lerr>>

(* Close of websocket sets nothing.                                        *)
HttpClose(c) ==
  /\ http
  /\ Step(c, "idle", "closing")
  /\ UNCHANGED <<http, started, lclosed, open, clients, lerr>>

-----------------------------------------------------------------------------
(* Serve without a callback is refused, and may be called again.           *)
ServeNil(c) ==
  /\ Step(c, "idle", "end")
  /\ Return(c, "callback")
  /\ UNCHANGED <<http, started, lclosed, open, clients>>

(* Serve of all three up to the loop.                                      *)
Serve(c) ==
  /\ Step(c, "idle", IF started THEN "end" ELSE "accept")
  /\ Return(c, IF started THEN "started" ELSE "nil")
  /\ started' = TRUE
  /\ UNCHANGED <<http, lclosed, open, clients>>

(* Accept and onNewClient.  The connections of http.Serve are upgraded in  *)
(* goroutines of their own; an upgrade that fails is no client.            *)
AcceptClient(c) ==
  /\ Step(c, "accept", "accept")
  /\ open
  /\ clients < MaxClients
  /\ clients' = clients + 1
  /\ UNCHANGED <<http, started, lclosed, open, lerr>>

(* Accept fails: for a moment, for good, or as the listener is closed.     *)
AcceptErr(c, e) ==
  /\ Step(c, "accept", "failed")
  /\ open <=> e # "closed"
  /\ Return(c, e)
  /\ UNCHANGED <<http, started, lclosed, open, clients>>

ServeErr(c) ==
  /\ ~http
  /\ Step(c, "failed", IF ~lclosed /\ lerr[c] = "temporary" THEN "accept" ELSE "end")
  /\ Return(c, IF lclosed \/ lerr[c] = "temporary" THEN "nil" ELSE lerr[c])
  /\ UNCHANGED <<http, started, lclosed, open, clients>>

(* Serve of websocket returns the error, and closes the net.Listener.      *)
HttpServeErr(c) ==
  /\ http
  /\ Step(c, "failed", IF lerr[c] = "temporary" THEN "accept" ELSE "end")
  /\ Return(c, IF lerr[c] = "temporary" THEN "nil" ELSE lerr[c])
  /\ open' = (open /\ lerr[c] = "temporary")
  /\ UNCHANGED <<http, started, lclosed, clients>>

ListenerNext ==
  \E c \in Callers :
    \/ ListenerClose(c) \/ HttpClose(c) \/ CloseNetListener(c)
    \/ ServeNil(c) \/ Serve(c) \/ AcceptClient(c) \/ ServeErr(c) \/ HttpServeErr(c)
    \/ \E e \in {"temporary", "fatal", "closed"} : AcceptErr(c, e)

ListenerSpec == ListenerInit /\ [][ListenerNext]_listenerVars

-----------------------------------------------------------------------------
(* Serve of tcp and aio returns nil, and not the error of a closed         *)
(* listener, when Close ends it, however the two interleave; and however   *)
(* many goroutines call Serve, one at most is in the loop.                 *)
ServeEndsQuietly ==
  /\ \A c \in Callers : ~http /\ lpc[c] = "end" => lerr[c] # "closed"
  /\ Cardinality({c \in Callers : lpc[c] \in {"accept", "failed"}}) <= 1
=============================================================================
