----------------------------- MODULE MCSessions -----------------------------
(* The two kinds of session over socketBase.go, for TLC: a behaviour is    *)
(* one of StreamSocket or one of WebSocket.                                *)
EXTENDS WebSocket

VARIABLE ws

mcVars == <<wsVars, ws>>

Opt(methods) == [errorCallback |-> TRUE, sendTimeout |-> TRUE, recvTimeout |-> TRUE, ops |-> methods]

Timeouts == {Opt({"Send", "DirectSend", "BeginRecv", "CloseDelay"}),
             Opt({"Send", "BeginRecv", "ShutdownRead", "ShutdownWrite"})}

MCInit == WsInit /\ ws \in BOOLEAN

MCNext ==
  /\ \/ ws /\ WsNext
     \/ ~ws /\ Next /\ UNCHANGED readErr
  /\ UNCHANGED ws

Stream(A) == ~ws /\ A /\ UNCHANGED <<readErr, ws>>

Web(A) == ws /\ A /\ UNCHANGED <<readErr, ws>>

(* The fairness of StreamSocket, for either kind of session.  gorilla      *)
(* returns an error that it keeps at once.                                 *)
MCFairness ==
  /\ \A u \in Users : WF_mcVars(Stream(UserStep(u)) \/ Web(WsUserStep(u)))
  /\ \A t \in Threads : WF_mcVars(CloseStep(t) /\ UNCHANGED <<readErr, ws>>)
  /\ \A t \in {"send", "recv"} : WF_mcVars(IoStep(t) /\ UNCHANGED <<readErr, ws>>)
  /\ WF_mcVars(Stream(SendStep) \/ Web(WsSendStep))
  /\ WF_mcVars(RecvStep /\ UNCHANGED <<readErr, ws>>)
  /\ WF_mcVars(Stream(~Open /\ Write) \/ Web((~Open \/ err # "nil") /\ WsWriteStep))
  /\ WF_mcVars(Stream(conn \cap {"close", "closeRead"} # {} /\ Read))
  /\ WF_mcVars(ws /\ (conn \cap {"close", "closeRead"} # {} \/ readErr # "nil") /\ WsRead /\ UNCHANGED ws)
  /\ WF_mcVars(Waiter("expired") /\ UNCHANGED <<readErr, ws>>)

MCSpec == MCInit /\ [][MCNext]_mcVars /\ MCFairness
=============================================================================
