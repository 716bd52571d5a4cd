----------------------------- MODULE RPCServer ------------------------------
(***************************************************************************)
(* The server side, rpc/server.go: a request is dispatched to a method     *)
(* whose handler gets a replyer.  The handler may reply, drop the          *)
(* response, panic, or keep the replyer for any goroutine to use later,    *)
(* and nothing stops it from doing several of these.  Every atomic         *)
(* operation of the code is one action.                                    *)
(***************************************************************************)
EXTENDS RPCChannel

CONSTANT Workers  \* goroutines that dispatch requests and use replyers

VARIABLES
  registered,   \* the method of the requests is in methods
  replyer,      \* "none", "open" (fired is 0) or "fired", for each request
  needResp,     \* the requests that arrived with NeedResp
  pendingCount,
  wpc, wreq,    \* where each worker is, and with which request
  inMethod,     \* the workers inside callMethod
  replies       \* history: responses sent for each request

workerVars == <<wpc, wreq, inMethod>>
serverVars == <<registered, replyer, needResp, pendingCount, workerVars, replies>>

(* NewRPCServer.                                                           *)
ServerInit ==
  /\ registered = FALSE
  /\ replyer = [r \in Calls |-> "none"]
  /\ needResp = {}
  /\ pendingCount = 0
  /\ wpc = [w \in Workers |-> "idle"]
  /\ wreq = [w \in Workers |-> None]
  /\ inMethod = {}
  /\ replies = [r \in Calls |-> 0]

WGoto(w, l) == wpc' = [wpc EXCEPT ![w] = l]

(* Where a worker goes on when Reply or DropResponse returns.              *)
WReturn(w) ==
  IF w \in inMethod
  THEN WGoto(w, "handler") /\ UNCHANGED wreq
  ELSE WGoto(w, "idle") /\ wreq' = [wreq EXCEPT ![w] = None]

(* RegisterMethod and UnRegisterMethod.                                    *)
SetMethod ==
  /\ registered' = ~registered
  /\ UNCHANGED <<channelVars, replyer, needResp, pendingCount, workerVars, replies>>

(* OnRPCMessage: a request arrives and its method is looked up.            *)
OnRequest(w) ==
  /\ wpc[w] = "idle"
  /\ \E m \in requests :
       /\ requests' = requests \ {m}
       /\ wreq' = [wreq EXCEPT ![w] = m.seq]
       /\ needResp' = IF m.needResp THEN needResp \cup {m.seq} ELSE needResp
  /\ WGoto(w, IF registered THEN "found" ELSE "missing")
  /\ UNCHANGED <<responses, registered, replyer, pendingCount, inMethod, replies>>

(* Mutant: a request for a missing method is not counted.                  *)
CountFound(w) ==
  /\ wpc[w] \in {"found", "missing"}
  /\ replyer' = [replyer EXCEPT ![wreq[w]] = "open"]
  /\ pendingCount' = IF wpc[w] = "found" THEN pendingCount + 1 ELSE pendingCount
  /\ inMethod' = IF wpc[w] = "found" THEN inMethod \cup {w} ELSE inMethod
  /\ WGoto(w, IF wpc[w] = "found" THEN "handler" ELSE "reply")
  /\ UNCHANGED <<channelVars, registered, needResp, wreq, replies>>

(* OnRPCMessage: the replyer is made and counted.  A missing method is     *)
(* answered at once, a registered one is called.                           *)
Count(w) ==
  /\ wpc[w] \in {"found", "missing"}
  /\ replyer' = [replyer EXCEPT ![wreq[w]] = "open"]
  /\ pendingCount' = pendingCount + 1
  /\ inMethod' = IF wpc[w] = "found" THEN inMethod \cup {w} ELSE inMethod
  /\ WGoto(w, IF wpc[w] = "found" THEN "handler" ELSE "reply")
  /\ UNCHANGED <<channelVars, registered, needResp, wreq, replies>>

(* The handler calls Reply or DropResponse and goes on afterwards.         *)
HandlerCalls(w) ==
  /\ wpc[w] = "handler"
  /\ \E l \in {"reply", "drop"} : WGoto(w, l)
  /\ UNCHANGED <<channelVars, registered, replyer, needResp, pendingCount,
                 wreq, inMethod, replies>>

(* callMethod ends: the handler returns, or panics and the deferred        *)
(* function replies.                                                       *)
HandlerEnds(w) ==
  /\ wpc[w] = "handler"
  /\ inMethod' = inMethod \ {w}
  /\ \/ WGoto(w, "idle") /\ wreq' = [wreq EXCEPT ![w] = None]
     \/ WGoto(w, "reply") /\ UNCHANGED wreq
  /\ UNCHANGED <<channelVars, registered, replyer, needResp, pendingCount, replies>>

(* A goroutine the handler has given its replyer to replies or drops.      *)
Later(w) ==
  /\ wpc[w] = "idle"
  /\ \E r \in Calls :
       /\ replyer[r] # "none"
       /\ wreq' = [wreq EXCEPT ![w] = r]
  /\ \E l \in {"reply", "drop"} : WGoto(w, l)
  /\ UNCHANGED <<channelVars, registered, replyer, needResp, pendingCount, inMethod, replies>>

(* Reply: the compare-and-swap of fired.                                   *)
Reply(w) ==
  /\ wpc[w] = "reply"
  /\ IF replyer[wreq[w]] = "open"
     THEN /\ replyer' = [replyer EXCEPT ![wreq[w]] = "fired"]
          /\ WGoto(w, IF wreq[w] \in needResp THEN "send" ELSE "uncount")
          /\ UNCHANGED wreq
     ELSE /\ WReturn(w)
          /\ UNCHANGED replyer
  /\ UNCHANGED <<channelVars, registered, needResp, pendingCount, inMethod, replies>>

(* DropResponse: the compare-and-swap of fired.                            *)
DropResponse(w) ==
  /\ wpc[w] = "drop"
  /\ IF replyer[wreq[w]] = "open"
     THEN /\ replyer' = [replyer EXCEPT ![wreq[w]] = "fired"]
          /\ WGoto(w, "uncount")
          /\ UNCHANGED wreq
     ELSE /\ WReturn(w)
          /\ UNCHANGED replyer
  /\ UNCHANGED <<channelVars, registered, needResp, pendingCount, inMethod, replies>>

(* reply: the response is encoded and sent; if either fails it is lost.    *)
SendResponse(w) ==
  /\ wpc[w] = "send"
  /\ \/ /\ responses' = responses \cup {wreq[w]}
        /\ replies' = [replies EXCEPT ![wreq[w]] = @ + 1]
     \/ UNCHANGED <<responses, replies>>
  /\ WGoto(w, "uncount")
  /\ UNCHANGED <<requests, registered, replyer, needResp, pendingCount, wreq, inMethod>>

(* Mutant: the request is uncounted by Reply and by its caller.            *)
UncountTwice(w) ==
  /\ wpc[w] = "uncount"
  /\ pendingCount' = pendingCount - 2
  /\ WReturn(w)
  /\ UNCHANGED <<channelVars, registered, replyer, needResp, inMethod, replies>>

(* Reply and DropResponse: the request is no longer pending.               *)
Uncount(w) ==
  /\ wpc[w] = "uncount"
  /\ pendingCount' = pendingCount - 1
  /\ WReturn(w)
  /\ UNCHANGED <<channelVars, registered, replyer, needResp, inMethod, replies>>

(* OnServiceStop: the request is answered without a replyer, whether a     *)
(* response was asked for or not.                                          *)
OnServiceStop ==
  /\ \E m \in requests :
       /\ requests' = requests \ {m}
       /\ \/ /\ responses' = responses \cup {m.seq}
             /\ replies' = [replies EXCEPT ![m.seq] = @ + 1]
          \/ UNCHANGED <<responses, replies>>
  /\ UNCHANGED <<registered, replyer, needResp, pendingCount, workerVars>>

WorkerStep(w) ==
  \/ OnRequest(w) \/ Count(w) \/ HandlerCalls(w) \/ HandlerEnds(w) \/ Later(w)
  \/ Reply(w) \/ DropResponse(w) \/ SendResponse(w) \/ Uncount(w)

ServerNext == SetMethod \/ OnServiceStop \/ \E w \in Workers : WorkerStep(w)

ServerTypeOK ==
  /\ registered \in BOOLEAN
  /\ replyer \in [Calls -> {"none", "open", "fired"}]
  /\ needResp \subseteq Calls
  /\ pendingCount \in Nat
  /\ wpc \in [Workers -> {"idle", "found", "missing", "handler", "reply", "drop",
                          "send", "uncount"}]
  /\ wreq \in [Workers -> Calls \cup {None}]
  /\ inMethod \subseteq Workers
  /\ replies \in [Calls -> Nat]

(* At most one response leaves for a request, however often and from       *)
(* however many goroutines its replyer is used (the fired flag of          *)
(* RPCReplyer, "防止重复Reply").  PendingCount is the number of requests    *)
(* whose replyer has not been used, plus those a goroutine is just         *)
(* completing: it returns to 0 and is never negative, whatever the         *)
(* handlers do.                                                            *)
RepliesCounted ==
  /\ \A r \in Calls : replies[r] <= 1
  /\ pendingCount = Cardinality({r \in Calls : replyer[r] = "open"})
                    + Cardinality({w \in Workers : wpc[w] \in {"send", "uncount"}})
=============================================================================
