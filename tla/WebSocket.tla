----------------------------- MODULE WebSocket ------------------------------
(***************************************************************************)
(* A session of socket/websocket.go.  It shares socketBase.go with         *)
(* StreamSocket, so Send, BeginRecv, Close and ioDone are the actions of   *)
(* that module; its own are the loops of the two goroutines and            *)
(* DirectSend.  A message is a frame, written by a call of its own, and an *)
(* error of EnCode or of a write is the error of that frame alone.         *)
(*                                                                         *)
(* gorilla's connection keeps its first write error and its first read     *)
(* error, and returns them from every later call.  The write error is err, *)
(* which survives the frame it belongs to only there.                      *)
(*                                                                         *)
(* StreamSession.go asks not to mix DirectSend and Send, and gorilla       *)
(* allows one writer at a time: a session here uses one or the other.      *)
(***************************************************************************)
EXTENDS StreamSocket

(* []byte, or a WSMessage whose data EnCode accepts or not.  Send lets     *)
(* other types into the queue, too: sendThreadFunc panics on them, which   *)
(* ends the program.                                                       *)
CONSTANT WsKinds

ASSUME WebSocketAssumption == WsKinds \subseteq {"bytes", "obj", "bad"}

VARIABLE readErr   \* the connection's read error

wsVars == <<vars, readErr>>

WsInit == Init /\ readErr = "nil"

-----------------------------------------------------------------------------
(* sendThreadFunc.  "loop" is the test of the loop over localList.         *)

WsGet == SendGet

(* Mutant: a message is left out without b.Reset.                          *)
WsEncodeKeeps(m) == IF m.kind = "bytes" THEN b \o UnitsOf(m.id) ELSE UnitsOf(m.id)

(* What the buffer holds after the message: a []byte is appended to it, a  *)
(* WSMessage goes to a new one, which is reset if EnCode fails.            *)
WsEncode(m) ==
  CASE m.kind = "bytes" -> b \o UnitsOf(m.id)
    [] m.kind = "obj"   -> UnitsOf(m.id)
    [] m.kind = "bad"   -> <<>>

WsLoop ==
  /\ At("send", "loop")
  /\ IF batch = <<>>
     THEN /\ Goto("send", "get")
          /\ b' = <<>>
          /\ UNCHANGED batch
     ELSE /\ b' = WsEncode(Head(batch))
          /\ batch' = Tail(batch)
          /\ Goto("send", IF Head(batch).kind = "bad" THEN "loop" ELSE "write")
  /\ UNCHANGED <<opt, sessionVars, cpc, err, wire, netErr, got, sent, closeVars, cbVars>>

WsWrite ==
  /\ At("send", "write")
  /\ err = "nil"
  /\ WriteAll(b)
  /\ b' = <<>>
  /\ Goto("send", "loop")
  /\ UNCHANGED <<opt, sessionVars, cpc, batch, err, netErr, got, sent, closeVars, cbVars>>

(* A new error after a part of the frame, or the error of an earlier one.  *)
WsWriteErr(e, n) ==
  /\ At("send", "write")
  /\ e = "timeout" => opt.sendTimeout
  /\ err # "nil" => e = err /\ n = 0
  /\ WriteSome(b, n)
  /\ b' = <<>>
  /\ err' = e
  /\ netErr' = (netErr \/ Open)
  /\ Goto("send", "failed")
  /\ UNCHANGED <<opt, sessionVars, cpc, batch, got, sent, closeVars, cbVars>>

(* On a session that is closed the error is passed over.                   *)
WsFailed ==
  /\ At("send", "failed")
  /\ IF "fclosed" \in flag
     THEN Goto("send", "loop") /\ NoCall
     ELSE /\ Goto("send", IF opt.errorCallback THEN "callback" ELSE "failedTest")
          /\ IF err = "timeout" THEN NoCall ELSE CloseCall("send", FALSE)
  /\ UNCHANGED <<opt, flag, ioCount, que, queClosed, conn, sendCloseChan, closeReason,
                 sendVars, got, sent, waiter, cbVars>>

WsCallback == SendCallback

WsFailedTest ==
  /\ At("send", "failedTest")
  /\ IF "fclosed" \in flag
     THEN batch' = <<>> /\ Goto("send", "closeChan")
     ELSE UNCHANGED batch /\ Goto("send", "loop")
  /\ UNCHANGED <<opt, sessionVars, cpc, b, err, wire, netErr, got, sent, closeVars, cbVars>>

WsCloseWrite == SendCloseWrite

WsCloseChan == SendCloseChan

-----------------------------------------------------------------------------
(* recvThreadFunc.  One read stands for the loop over Unpack, ReadMessage  *)
(* and OnData.  A close frame of the peer makes ReadMessage call the close *)
(* handler, which closes the connection, and return an error.              *)

WsRecvTest == RecvTest

WsRecvRead(what) ==
  /\ readErr # "nil" => what = readErr
  /\ RecvRead(what)
  /\ readErr' = IF what \in {"timeout", "io"} THEN what ELSE readErr

CloseHandler ==
  /\ At("recv", "read")
  /\ readErr = "nil"
  /\ readErr' = "io"
  /\ got' = "io"
  /\ conn' = conn \cup {"close"}
  /\ Goto("recv", "check")
  /\ UNCHANGED <<opt, flag, once, ioCount, que, queClosed, sendCloseChan, closeReason,
                 cpc, sendVars, sent, closeVars, cbVars>>

WsRecvCheck == RecvCheck

WsRecvCallback == RecvCallback

-----------------------------------------------------------------------------
(* DirectSend has not been used, successfully or not.                      *)
Unmixed ==
  \/ sent # <<>>
  \/ err = "nil" /\ DirectUnits = 0 /\ \A u \in Users : pc[u] # "direct"

WsSend(u, k) == Unmixed /\ Send(u, k)

WsDirectSend(u) == sent = <<>> /\ DirectSend(u)

WsDirectWrite(u) ==
  /\ At(u, "direct")
  /\ \/ err = "nil" /\ WriteAll(UnitsOf(0)) /\ UNCHANGED err
     \/ \E n \in 0..Units - 1 :
          /\ err # "nil" => n = 0
          /\ WriteSome(UnitsOf(0), n)
          /\ err' = IF err = "nil" THEN "io" ELSE err
  /\ Goto(u, "idle")
  /\ UNCHANGED <<opt, sessionVars, cpc, batch, b, netErr, got, sent, closeVars, cbVars>>

-----------------------------------------------------------------------------
WsUserCall(u) ==
  \/ \E k \in WsKinds : WsSend(u, k)
  \/ BeginRecv(u) \/ ShutdownRead(u) \/ ShutdownWrite(u) \/ WsDirectSend(u)
  \/ \E d \in BOOLEAN : Close(u, d)

WsUserStep(u) ==
  \/ SendOnce(u) \/ StartSend(u) \/ BeginTest(u) \/ StartRecv(u) \/ ShutdownConn(u)
  \/ WsDirectWrite(u)

WsSendStep ==
  \/ WsGet \/ WsCloseWrite \/ WsLoop \/ WsFailed \/ WsCallback \/ WsFailedTest \/ WsCloseChan

WsRecvStep == WsRecvTest \/ WsRecvCheck \/ WsRecvCallback

WsWriteStep ==
  \/ WsWrite
  \/ \E e \in {"timeout", "io"}, n \in 0..Len(b) - 1 : WsWriteErr(e, n)

WsRead == CloseHandler \/ \E what \in {"msg", "unpack", "timeout", "io"} : WsRecvRead(what)

WsNext ==
  \/ WsRead
  \/ /\ \/ \E u \in Users : WsUserCall(u) \/ WsUserStep(u)
        \/ \E t \in Threads : CloseStep(t)
        \/ \E t \in {"send", "recv"} : IoStep(t)
        \/ WsSendStep \/ WsWriteStep \/ WsRecvStep
        \/ \E how \in {"sent", "expired"} : Waiter(how)
     /\ UNCHANGED readErr
=============================================================================
