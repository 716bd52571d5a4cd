---------------------------- MODULE StreamSocket ----------------------------
(***************************************************************************)
(* A session of socket/streamSocket.go on top of socket/socketBase.go: the *)
(* goroutines of the application, the send goroutine, the receive          *)
(* goroutine and the goroutine that finishes a delayed Close.              *)
(*                                                                         *)
(* Each atomic operation, each operation of the send queue and each call   *)
(* on the connection is one action.  The send queue is what SendQueue      *)
(* shows it to be, an atomic bounded FIFO; Add and AddWithTimeout differ   *)
(* in what they do when it is full, which here is to wait or not to call.  *)
(*                                                                         *)
(* A message is its number and its kind: "bytes" goes to the buffer as it  *)
(* is, "obj" through EnCode, and EnCode fails on "bad".  On the wire a     *)
(* message is Units units, so that a write can stop inside it.             *)
(***************************************************************************)
EXTENDS Integers, Sequences, FiniteSets

CONSTANTS
  Users,      \* goroutines of the application
  Kinds,      \* the kinds of messages they send
  MaxMsgs,    \* how many messages they send through the queue
  MaxDirect,  \* how many of their direct sends may reach the wire
  QueueSize,  \* fullSize of the send queue
  Units,      \* units of a message on the wire
  Options     \* the settings of the session, callback and timeouts, and the
              \* methods its users call (ops)

AllOps == {"Send", "DirectSend", "BeginRecv", "Close", "CloseDelay", "ShutdownRead", "ShutdownWrite"}

ASSUME StreamSocketAssumption ==
  /\ Kinds \subseteq {"bytes", "obj", "bad"}
  /\ MaxMsgs \in Nat
  /\ MaxDirect \in Nat
  /\ QueueSize \in Nat \ {0}
  /\ Units \in Nat \ {0}
  /\ Options \subseteq [errorCallback : BOOLEAN, sendTimeout : BOOLEAN, recvTimeout : BOOLEAN,
                        ops : SUBSET AllOps]
  /\ {"send", "recv"} \cap Users = {}

Threads == Users \cup {"send", "recv"}

VARIABLES
  opt,            \* the settings, made before the session is used
  flag,           \* the bits of flag that are set
  once,           \* the ...Once words that are 1
  ioCount,
  que, queClosed, \* sendQue
  conn,           \* which of Close, CloseRead, CloseWrite the connection has seen
  sendCloseChan,  \* sendCloseChan is closed
  closeReason,    \* the goroutine whose reason is stored, or "none"
  pc,             \* where each goroutine is, outside Close
  cpc,            \* where each goroutine is inside Close
  waiter,         \* the goroutine a delayed Close starts
  batch, b, err,  \* localList, b and err of the send goroutine
  got             \* what the receive goroutine has read

(* History: what Send has accepted, what Write has put on the wire, the    *)
(* goroutine and the argument of the Close that counts (delay > 0), the    *)
(* calls of closeCallBack and their argument, and whether the network      *)
(* failed a write on a connection this side had not closed.                *)
VARIABLES sent, wire, closer, delay, cbCount, cbReason, netErr

sessionVars == <<flag, once, ioCount, que, queClosed, conn, sendCloseChan, closeReason>>
sendVars == <<batch, b, err, wire, netErr>>
cbVars == <<cbCount, cbReason>>
closeVars == <<closer, delay, waiter>>
vars == <<opt, sessionVars, pc, cpc, sendVars, got, sent, closeVars, cbVars>>

Init ==
  /\ opt \in Options
  /\ flag = {}
  /\ once = {}
  /\ ioCount = 0
  /\ que = <<>>
  /\ queClosed = FALSE
  /\ conn = {}
  /\ sendCloseChan = FALSE
  /\ closeReason = "none"
  /\ pc = [t \in Threads |-> IF t \in Users THEN "idle" ELSE "off"]
  /\ cpc = [t \in Threads |-> "none"]
  /\ waiter = "off"
  /\ batch = <<>>
  /\ b = <<>>
  /\ err = "nil"
  /\ got = "none"
  /\ sent = <<>>
  /\ wire = <<>>
  /\ closer = "none"
  /\ delay = FALSE
  /\ cbCount = 0
  /\ cbReason = "none"
  /\ netErr = FALSE

Goto(t, l) == pc' = [pc EXCEPT ![t] = l]

GotoClose(t, l) == cpc' = [cpc EXCEPT ![t] = l]

(* t is at l and not inside a call of Close.                               *)
At(t, l) == pc[t] = l /\ cpc[t] = "none"

(* closeCallBack is called, by whoever wins doCloseOnce.                   *)
DoClose(reason) ==
  \/ /\ "doClose" \in once
     /\ UNCHANGED <<once, cbVars>>
  \/ /\ "doClose" \notin once
     /\ once' = once \cup {"doClose"}
     /\ cbCount' = cbCount + 1
     /\ cbReason' = reason

-----------------------------------------------------------------------------
(* Send and SendWithTimeout.                                               *)

Send(u, k) ==
  /\ At(u, "idle")
  /\ "Send" \in opt.ops
  /\ Len(sent) < MaxMsgs
  /\ ~queClosed
  /\ Len(que) < QueueSize
  /\ LET m == [id |-> Len(sent) + 1, kind |-> k]
     IN que' = Append(que, m) /\ sent' = Append(sent, m)
  /\ Goto(u, "sendOnce")
  /\ UNCHANGED <<opt, flag, once, ioCount, queClosed, conn, sendCloseChan, closeReason,
                 cpc, sendVars, got, closeVars, cbVars>>

(* The winner of sendOnce starts the send goroutine.                       *)
SendOnce(u) ==
  /\ At(u, "sendOnce")
  /\ Goto(u, IF "send" \in once THEN "idle" ELSE "startSend")
  /\ once' = once \cup {"send"}
  /\ UNCHANGED <<opt, flag, ioCount, que, queClosed, conn, sendCloseChan, closeReason,
                 cpc, sendVars, got, sent, closeVars, cbVars>>

(* Mutant: the goroutine is started without addIO.                         *)
StartSendUncounted(u) ==
  /\ At(u, "startSend")
  /\ pc' = [pc EXCEPT ![u] = "idle", !["send"] = "get"]
  /\ UNCHANGED <<opt, sessionVars, cpc, sendVars, got, sent, closeVars, cbVars>>

StartSend(u) ==
  /\ At(u, "startSend")
  /\ ioCount' = ioCount + 1
  /\ pc' = [pc EXCEPT ![u] = "idle", !["send"] = "get"]
  /\ UNCHANGED <<opt, flag, once, que, queClosed, conn, sendCloseChan, closeReason,
                 cpc, sendVars, got, sent, closeVars, cbVars>>

-----------------------------------------------------------------------------
(* BeginRecv.                                                              *)

BeginRecv(u) ==
  /\ At(u, "idle")
  /\ "BeginRecv" \in opt.ops
  /\ "begin" \notin once
  /\ once' = once \cup {"begin"}
  /\ Goto(u, "beginTest")
  /\ UNCHANGED <<opt, flag, ioCount, que, queClosed, conn, sendCloseChan, closeReason,
                 cpc, sendVars, got, sent, closeVars, cbVars>>

Closing == {"fclosed", "frclosed"}

BeginTest(u) ==
  /\ At(u, "beginTest")
  /\ Goto(u, IF flag \cap Closing # {} THEN "idle" ELSE "startRecv")
  /\ UNCHANGED <<opt, sessionVars, cpc, sendVars, got, sent, closeVars, cbVars>>

StartRecv(u) ==
  /\ At(u, "startRecv")
  /\ ioCount' = ioCount + 1
  /\ pc' = [pc EXCEPT ![u] = "idle", !["recv"] = "test"]
  /\ UNCHANGED <<opt, flag, once, que, queClosed, conn, sendCloseChan, closeReason,
                 cpc, sendVars, got, sent, closeVars, cbVars>>

-----------------------------------------------------------------------------
(* Close.  CloseCall is the call and its compare-and-swap of closeOnce; it *)
(* is part of the action that makes the call.                              *)

CloseCall(t, d) ==
  \/ /\ "close" \in once
     /\ UNCHANGED <<once, closer, delay, cpc>>
  \/ /\ "close" \notin once
     /\ once' = once \cup {"close"}
     /\ closer' = t
     /\ delay' = d
     /\ GotoClose(t, "setClosed")

NoCall == UNCHANGED <<once, closer, delay, cpc>>

Close(u, d) ==
  /\ At(u, "idle")
  /\ (IF d THEN "CloseDelay" ELSE "Close") \in opt.ops
  /\ "close" \notin once
  /\ CloseCall(u, d)
  /\ UNCHANGED <<opt, flag, ioCount, que, queClosed, conn, sendCloseChan, closeReason,
                 pc, sendVars, got, sent, waiter, cbVars>>

CloseSetClosed(t) ==
  /\ cpc[t] = "setClosed"
  /\ flag' = flag \cup {"fclosed"}
  /\ GotoClose(t, "closeQueue")
  /\ UNCHANGED <<opt, once, ioCount, que, queClosed, conn, sendCloseChan, closeReason,
                 pc, sendVars, got, sent, closeVars, cbVars>>

(* remain is the length of the queue; what the send goroutine has taken    *)
(* out of it is not counted.                                               *)
CloseQueue(t) ==
  /\ cpc[t] = "closeQueue"
  /\ queClosed' = TRUE
  /\ GotoClose(t, IF Len(que) > 0 /\ delay THEN "setRClosed" ELSE "netClose")
  /\ UNCHANGED <<opt, flag, once, ioCount, que, conn, sendCloseChan, closeReason,
                 pc, sendVars, got, sent, closeVars, cbVars>>

CloseSetRClosed(t) ==
  /\ cpc[t] = "setRClosed"
  /\ flag' = flag \cup {"frclosed"}
  /\ GotoClose(t, "closeRead")
  /\ UNCHANGED <<opt, once, ioCount, que, queClosed, conn, sendCloseChan, closeReason,
                 pc, sendVars, got, sent, closeVars, cbVars>>

CloseRead(t) ==
  /\ cpc[t] = "closeRead"
  /\ conn' = conn \cup {"closeRead"}
  /\ waiter' = "wait"
  /\ GotoClose(t, "setReason")
  /\ UNCHANGED <<opt, flag, once, ioCount, que, queClosed, sendCloseChan, closeReason,
                 pc, sendVars, got, sent, closer, delay, cbVars>>

CloseConn(t) ==
  /\ cpc[t] = "netClose"
  /\ conn' = conn \cup {"close"}
  /\ GotoClose(t, "setReason")
  /\ UNCHANGED <<opt, flag, once, ioCount, que, queClosed, sendCloseChan, closeReason,
                 pc, sendVars, got, sent, closeVars, cbVars>>

CloseSetReason(t) ==
  /\ cpc[t] = "setReason"
  /\ closeReason' = t
  /\ GotoClose(t, "setDoClose")
  /\ UNCHANGED <<opt, flag, once, ioCount, que, queClosed, conn, sendCloseChan,
                 pc, sendVars, got, sent, closeVars, cbVars>>

CloseSetDoClose(t) ==
  /\ cpc[t] = "setDoClose"
  /\ flag' = flag \cup {"fdoclose"}
  /\ GotoClose(t, "loadIO")
  /\ UNCHANGED <<opt, once, ioCount, que, queClosed, conn, sendCloseChan, closeReason,
                 pc, sendVars, got, sent, closeVars, cbVars>>

(* Mutant: Close leaves closeCallBack to ioDone in every case.             *)
CloseLoadIOLeaves(t) ==
  /\ cpc[t] = "loadIO"
  /\ GotoClose(t, "none")
  /\ UNCHANGED <<opt, sessionVars, pc, sendVars, got, sent, closeVars, cbVars>>

(* Mutant: Close does not wait for the goroutine that calls it.            *)
CloseLoadIOOffByOne(t) ==
  /\ cpc[t] = "loadIO"
  /\ GotoClose(t, IF ioCount <= 1 THEN "doClose" ELSE "none")
  /\ UNCHANGED <<opt, sessionVars, pc, sendVars, got, sent, closeVars, cbVars>>

CloseLoadIO(t) ==
  /\ cpc[t] = "loadIO"
  /\ GotoClose(t, IF ioCount = 0 THEN "doClose" ELSE "none")
  /\ UNCHANGED <<opt, sessionVars, pc, sendVars, got, sent, closeVars, cbVars>>

CloseDoClose(t) ==
  /\ cpc[t] = "doClose"
  /\ DoClose(t)
  /\ GotoClose(t, "none")
  /\ UNCHANGED <<opt, flag, ioCount, que, queClosed, conn, sendCloseChan, closeReason,
                 pc, sendVars, got, sent, closeVars>>

(* Mutant: the goroutine waits for the send goroutine only.                *)
WaiterNoTicker(how) ==
  /\ waiter = "wait"
  /\ sendCloseChan
  /\ waiter' = how
  /\ conn' = conn \cup {"close"}
  /\ UNCHANGED <<opt, flag, once, ioCount, que, queClosed, sendCloseChan, closeReason,
                 pc, cpc, sendVars, got, sent, closer, delay, cbVars>>

(* The goroutine of a delayed Close: the send goroutine has ended or the   *)
(* ticker has fired, and the connection is closed.                         *)
Waiter(how) ==
  /\ waiter = "wait"
  /\ how = "sent" => sendCloseChan
  /\ waiter' = how
  /\ conn' = conn \cup {"close"}
  /\ UNCHANGED <<opt, flag, once, ioCount, que, queClosed, sendCloseChan, closeReason,
                 pc, cpc, sendVars, got, sent, closer, delay, cbVars>>

-----------------------------------------------------------------------------
(* ShutdownRead and ShutdownWrite called by the application.               *)

ShutdownRead(u) ==
  /\ At(u, "idle")
  /\ "ShutdownRead" \in opt.ops
  /\ flag' = flag \cup {"frclosed"}
  /\ Goto(u, "closeRead")
  /\ UNCHANGED <<opt, once, ioCount, que, queClosed, conn, sendCloseChan, closeReason,
                 cpc, sendVars, got, sent, closeVars, cbVars>>

ShutdownWrite(u) ==
  /\ At(u, "idle")
  /\ "ShutdownWrite" \in opt.ops
  /\ ~queClosed
  /\ queClosed' = TRUE
  /\ Goto(u, IF Len(que) = 0 THEN "closeWrite" ELSE "idle")
  /\ UNCHANGED <<opt, flag, once, ioCount, que, conn, sendCloseChan, closeReason,
                 cpc, sendVars, got, sent, closeVars, cbVars>>

ShutdownConn(u) ==
  /\ \E half \in {"closeRead", "closeWrite"} :
       At(u, half) /\ conn' = conn \cup {half}
  /\ Goto(u, "idle")
  /\ UNCHANGED <<opt, flag, once, ioCount, que, queClosed, sendCloseChan, closeReason,
                 cpc, sendVars, got, sent, closeVars, cbVars>>

-----------------------------------------------------------------------------
(* The connection.  A Write puts a prefix of what it is given on the wire. *)
(* A unit is the number of its message and its place in it; the messages   *)
(* of DirectSend have number 0.                                            *)

UnitsOf(id) == [k \in 1..Units |-> <<id, k>>]

(* What Write(bytes) may return: all of it, or an error after n units.  It *)
(* succeeds only on a connection that is open for writing; the network may *)
(* fail it at any time, and a Write that Close interrupts may have sent a  *)
(* part.                                                                   *)
Open == conn \cap {"close", "closeWrite"} = {}

WriteAll(bytes) ==
  /\ Open
  /\ wire' = wire \o bytes

WriteSome(bytes, n) ==
  wire' = wire \o SubSeq(bytes, 1, n)

(* DirectSend.                                                             *)
DirectUnits == Len(SelectSeq(wire, LAMBDA x : x[1] = 0))

DirectSend(u) ==
  /\ At(u, "idle")
  /\ "DirectSend" \in opt.ops
  /\ DirectUnits < MaxDirect * Units
  /\ flag \cap Closing = {}
  /\ Goto(u, "direct")
  /\ UNCHANGED <<opt, sessionVars, cpc, sendVars, got, sent, closeVars, cbVars>>

DirectWrite(u) ==
  /\ At(u, "direct")
  /\ \/ WriteAll(UnitsOf(0))
     \/ \E n \in 0..Units - 1 : WriteSome(UnitsOf(0), n)
  /\ Goto(u, "idle")
  /\ UNCHANGED <<opt, sessionVars, cpc, batch, b, err, netErr, got, sent, closeVars, cbVars>>

-----------------------------------------------------------------------------
(* sendThreadFunc.                                                         *)

(* Mutant: the send goroutine ends as soon as the queue is closed.         *)
SendGetClosed ==
  /\ At("send", "get")
  /\ que # <<>> \/ queClosed
  /\ batch' = que
  /\ que' = <<>>
  /\ Goto("send", IF queClosed THEN "closeWrite" ELSE "loop")
  /\ UNCHANGED <<opt, flag, once, ioCount, queClosed, conn, sendCloseChan, closeReason,
                 cpc, b, err, wire, netErr, got, sent, closeVars, cbVars>>

SendGet ==
  /\ At("send", "get")
  /\ que # <<>> \/ queClosed
  /\ batch' = que
  /\ que' = <<>>
  /\ Goto("send", IF que = <<>> THEN "closeWrite" ELSE "loop")
  /\ UNCHANGED <<opt, flag, once, ioCount, queClosed, conn, sendCloseChan, closeReason,
                 cpc, b, err, wire, netErr, got, sent, closeVars, cbVars>>

SendCloseWrite ==
  /\ At("send", "closeWrite")
  /\ conn' = conn \cup {"closeWrite"}
  /\ Goto("send", "closeChan")
  /\ UNCHANGED <<opt, flag, once, ioCount, que, queClosed, sendCloseChan, closeReason,
                 cpc, sendVars, got, sent, closeVars, cbVars>>

(* Mutant: SetLen is missing after an error of EnCode.                     *)
EncodeOneKeeps(acc, m) ==
  LET e == IF m.kind = "bad" THEN "encode" ELSE IF m.kind = "obj" THEN "nil" ELSE acc.err
  IN  [b |-> acc.b \o UnitsOf(m.id), err |-> e]

(* Mutant: EnCode succeeds and err keeps an earlier error.                 *)
EncodeOneSticky(acc, m) ==
  LET e == IF m.kind = "bad" THEN "encode" ELSE acc.err
  IN  [b |-> IF e = "nil" THEN acc.b \o UnitsOf(m.id) ELSE acc.b, err |-> e]

(* One iteration of the encoding loop.  A []byte message is appended and   *)
(* err keeps its value; EnCode assigns it.  With err set, what this        *)
(* message put in b is dropped.                                            *)
EncodeOne(acc, m) ==
  LET e == IF m.kind = "bytes" THEN acc.err ELSE IF m.kind = "obj" THEN "nil" ELSE "encode"
  IN  [b   |-> IF e = "nil" THEN acc.b \o UnitsOf(m.id) ELSE acc.b,
       err |-> e]

Encode(ms, e) ==
  LET enc[i \in 0..Len(ms)] ==
        IF i = 0 THEN [b |-> <<>>, err |-> e] ELSE EncodeOne(enc[i - 1], ms[i])
  IN  enc[Len(ms)]

(* The test of the loop on i, which counts the messages encoded: all of    *)
(* them in the first iteration, after which the loop ends.                 *)
SendLoop ==
  /\ At("send", "loop")
  /\ IF batch = <<>>
     THEN /\ b' = <<>>
          /\ Goto("send", "get")
          /\ UNCHANGED <<batch, err>>
     ELSE LET enc == Encode(batch, err)
          IN /\ b' = enc.b
             /\ err' = enc.err
             /\ batch' = <<>>
             /\ Goto("send", IF enc.b = <<>> THEN "get" ELSE "write")
  /\ UNCHANGED <<opt, sessionVars, cpc, wire, netErr, got, sent, closeVars, cbVars>>

SendWrite ==
  /\ At("send", "write")
  /\ WriteAll(b)
  /\ b' = <<>>
  /\ err' = "nil"
  /\ Goto("send", "loop")
  /\ UNCHANGED <<opt, sessionVars, cpc, batch, netErr, got, sent, closeVars, cbVars>>

(* An error of Write.  The units it sent are dropped from b here rather    *)
(* than after the callback, which does not see b.                          *)
SendWriteErr(e, n) ==
  /\ At("send", "write")
  /\ e = "timeout" => opt.sendTimeout
  /\ WriteSome(b, n)
  /\ b' = SubSeq(b, n + 1, Len(b))
  /\ err' = e
  /\ netErr' = (netErr \/ Open)
  /\ Goto("send", "failed")
  /\ UNCHANGED <<opt, sessionVars, cpc, batch, got, sent, closeVars, cbVars>>

SendFailed ==
  /\ At("send", "failed")
  /\ IF "fclosed" \in flag
     THEN /\ Goto("send", "get")
          /\ b' = <<>>
          /\ NoCall
     ELSE /\ Goto("send", IF opt.errorCallback THEN "callback" ELSE "failedTest")
          /\ IF err = "timeout" THEN NoCall ELSE CloseCall("send", FALSE)
          /\ UNCHANGED b
  /\ UNCHANGED <<opt, flag, ioCount, que, queClosed, conn, sendCloseChan, closeReason,
                 batch, err, wire, netErr, got, sent, waiter, cbVars>>

(* A callback of the application returns, or closes the session first.     *)
CallbackReturns(t) ==
  \/ NoCall
  \/ "Close" \in opt.ops /\ CloseCall(t, FALSE)
  \/ "CloseDelay" \in opt.ops /\ CloseCall(t, TRUE)

SendCallback ==
  /\ At("send", "callback")
  /\ CallbackReturns("send")
  /\ Goto("send", "failedTest")
  /\ UNCHANGED <<opt, flag, ioCount, que, queClosed, conn, sendCloseChan, closeReason,
                 sendVars, got, sent, waiter, cbVars>>

SendFailedTest ==
  /\ At("send", "failedTest")
  /\ IF "fclosed" \in flag
     THEN b' = <<>> /\ Goto("send", "get")
     ELSE UNCHANGED b /\ Goto("send", "loop")
  /\ UNCHANGED <<opt, sessionVars, cpc, batch, err, wire, netErr, got, sent, closeVars, cbVars>>

SendCloseChan ==
  /\ At("send", "closeChan")
  /\ sendCloseChan' = TRUE
  /\ Goto("send", "ioDone")
  /\ UNCHANGED <<opt, flag, once, ioCount, que, queClosed, conn, closeReason,
                 cpc, sendVars, got, sent, closeVars, cbVars>>

-----------------------------------------------------------------------------
(* recvThreadFunc.  One read stands for the loop over Unpack and Read: it  *)
(* yields a message, an error of Unpack, a timeout or an error of Read.    *)

RecvTest ==
  /\ At("recv", "test")
  /\ Goto("recv", IF flag \cap Closing # {} THEN "ioDone" ELSE "read")
  /\ UNCHANGED <<opt, sessionVars, cpc, sendVars, got, sent, closeVars, cbVars>>

RecvRead(what) ==
  /\ At("recv", "read")
  /\ what = "timeout" => opt.recvTimeout
  /\ got' = what
  /\ Goto("recv", "check")
  /\ UNCHANGED <<opt, sessionVars, cpc, sendVars, sent, closeVars, cbVars>>

(* The second test of the flags, and the branch on what was read up to the *)
(* callback.                                                               *)
RecvCheck ==
  /\ At("recv", "check")
  /\ got' = "none"
  /\ IF flag \cap Closing # {}
     THEN Goto("recv", "ioDone") /\ NoCall /\ UNCHANGED flag
     ELSE /\ Goto("recv", IF got = "msg" \/ opt.errorCallback THEN "callback" ELSE "test")
          /\ IF got = "unpack" \/ (got # "msg" /\ ~opt.errorCallback)
             THEN CloseCall("recv", FALSE) ELSE NoCall
          /\ flag' = IF got = "io" /\ opt.errorCallback
                     THEN flag \cup {"frclosed"} ELSE flag
  /\ UNCHANGED <<opt, ioCount, que, queClosed, conn, sendCloseChan, closeReason,
                 sendVars, sent, waiter, cbVars>>

(* inboundCallBack or errorCallback.                                       *)
RecvCallback ==
  /\ At("recv", "callback")
  /\ CallbackReturns("recv")
  /\ Goto("recv", "test")
  /\ UNCHANGED <<opt, flag, ioCount, que, queClosed, conn, sendCloseChan, closeReason,
                 sendVars, got, sent, waiter, cbVars>>

-----------------------------------------------------------------------------
(* ioDone, at the end of either goroutine.                                 *)

IoDone(t) ==
  /\ At(t, "ioDone")
  /\ ioCount' = ioCount - 1
  /\ Goto(t, IF ioCount' = 0 THEN "ioTest" ELSE "end")
  /\ UNCHANGED <<opt, flag, once, que, queClosed, conn, sendCloseChan, closeReason,
                 cpc, sendVars, got, sent, closeVars, cbVars>>

IoTest(t) ==
  /\ At(t, "ioTest")
  /\ Goto(t, IF "fdoclose" \in flag THEN "ioDoClose" ELSE "end")
  /\ UNCHANGED <<opt, sessionVars, cpc, sendVars, got, sent, closeVars, cbVars>>

IoDoClose(t) ==
  /\ At(t, "ioDoClose")
  /\ DoClose(closeReason)
  /\ Goto(t, "end")
  /\ UNCHANGED <<opt, flag, ioCount, que, queClosed, conn, sendCloseChan, closeReason,
                 cpc, sendVars, got, sent, closeVars>>

-----------------------------------------------------------------------------
CloseStep(t) ==
  \/ CloseSetClosed(t) \/ CloseQueue(t) \/ CloseSetRClosed(t) \/ CloseRead(t) \/ CloseConn(t)
  \/ CloseSetReason(t) \/ CloseSetDoClose(t) \/ CloseLoadIO(t) \/ CloseDoClose(t)

(* A call of the application starts, or goes on.                           *)
UserCall(u) ==
  \/ \E k \in Kinds : Send(u, k)
  \/ BeginRecv(u) \/ ShutdownRead(u) \/ ShutdownWrite(u) \/ DirectSend(u)
  \/ \E d \in BOOLEAN : Close(u, d)

UserStep(u) ==
  \/ SendOnce(u) \/ StartSend(u) \/ BeginTest(u) \/ StartRecv(u) \/ ShutdownConn(u)
  \/ DirectWrite(u)

SendStep ==
  \/ SendGet \/ SendCloseWrite \/ SendLoop \/ SendFailed \/ SendCallback \/ SendFailedTest
  \/ SendCloseChan

RecvStep == RecvTest \/ RecvCheck \/ RecvCallback

IoStep(t) == IoDone(t) \/ IoTest(t) \/ IoDoClose(t)

Write ==
  \/ SendWrite
  \/ \E e \in {"timeout", "io"}, n \in 0..Len(b) - 1 : SendWriteErr(e, n)

Read == \E what \in {"msg", "unpack", "timeout", "io"} : RecvRead(what)

Next ==
  \/ \E u \in Users : UserCall(u) \/ UserStep(u)
  \/ \E t \in Threads : CloseStep(t)
  \/ \E t \in {"send", "recv"} : IoStep(t)
  \/ SendStep \/ Write
  \/ RecvStep \/ Read
  \/ \E how \in {"sent", "expired"} : Waiter(how)

(* Every goroutine that can run runs.  Write and Read may block for ever   *)
(* on a connection that is open, and return once it is closed; the         *)
(* callbacks return, and the ticker of a delayed Close fires.              *)
Fairness ==
  /\ \A u \in Users : WF_vars(UserStep(u))
  /\ \A t \in Threads : WF_vars(CloseStep(t))
  /\ \A t \in {"send", "recv"} : WF_vars(IoStep(t))
  /\ WF_vars(SendStep)
  /\ WF_vars(RecvStep)
  /\ WF_vars(~Open /\ Write)
  /\ WF_vars(conn \cap {"close", "closeRead"} # {} /\ Read)
  /\ WF_vars(Waiter("expired"))

Spec == Init /\ [][Next]_vars

FairSpec == Spec /\ Fairness

-----------------------------------------------------------------------------
UserPCs == {"idle", "sendOnce", "startSend", "beginTest", "startRecv", "closeRead", "closeWrite",
            "direct"}
EndPCs == {"off", "ioDone", "ioTest", "ioDoClose", "end"}
SendPCs == {"get", "loop", "write", "failed", "callback", "failedTest", "closeWrite", "closeChan"}
RecvPCs == {"test", "read", "check", "callback"}
ClosePCs == {"none", "setClosed", "closeQueue", "setRClosed", "closeRead", "netClose", "setReason",
             "setDoClose", "loadIO", "doClose"}

Msgs == [id : 1..MaxMsgs, kind : Kinds]

(* Every variable has its type; in particular ioCount is never negative    *)
(* and never counts more than the two goroutines of the session.           *)
TypeOK ==
  /\ opt \in Options
  /\ flag \subseteq Closing \cup {"fdoclose"}
  /\ once \subseteq {"close", "begin", "send", "doClose"}
  /\ ioCount \in 0..2
  /\ que \in Seq(Msgs)
  /\ queClosed \in BOOLEAN
  /\ conn \subseteq {"close", "closeRead", "closeWrite"}
  /\ sendCloseChan \in BOOLEAN
  /\ closeReason \in Threads \cup {"none"}
  /\ \A u \in Users : pc[u] \in UserPCs
  /\ pc["send"] \in SendPCs \cup EndPCs
  /\ pc["recv"] \in RecvPCs \cup EndPCs
  /\ cpc \in [Threads -> ClosePCs]
  /\ waiter \in {"off", "wait", "sent", "expired"}
  /\ batch \in Seq(Msgs)
  /\ b \in Seq((1..MaxMsgs) \X (1..Units))
  /\ err \in {"nil", "encode", "timeout", "io"}
  /\ got \in {"none", "msg", "unpack", "timeout", "io"}
  /\ sent \in Seq(Msgs)
  /\ wire \in Seq((0..MaxMsgs) \X (1..Units))
  /\ closer \in Threads \cup {"none"}
  /\ delay \in BOOLEAN
  /\ cbCount \in Nat
  /\ cbReason \in Threads \cup {"none"}
  /\ netErr \in BOOLEAN

(* Once Close has set fdoclose, closeCallBack has been called or someone   *)
(* is still going to: a goroutine that has yet to call ioDone, or one past *)
(* the decrement or the load that saw ioCount at 0.  Neither Close nor the *)
(* last ioDone can each leave it to the other.                             *)
Responsible(t) ==
  \/ cpc[t] \in {"loadIO", "doClose"}
  \/ pc[t] \in {"ioTest", "ioDoClose"}

NoLostClose ==
  ("fdoclose" \in flag /\ cbCount = 0) => (ioCount > 0 \/ \E t \in Threads : Responsible(t))

(* closeCallBack is called at most once, and with the reason given to the  *)
(* Close that won closeOnce, whichever goroutine ends up calling it and    *)
(* whatever other calls of Close it raced with.  It waits for the other    *)
(* callbacks of the session: while either goroutine is in inboundCallBack  *)
(* or errorCallback it has not been called, with one exception.  ioDone    *)
(* tests fdoclose after its decrement, so a goroutine whose ioDone saw 0   *)
(* before the other one was started may call closeCallBack in spite of it; *)
(* that goroutine has ended.                                               *)
Other(t) == IF t = "send" THEN "recv" ELSE "send"

CloseCallbackOnce ==
  /\ cbCount <= 1
  /\ cbCount = 1 => cbReason = closer
  /\ cbCount > 0 => \A t \in {"send", "recv"} : pc[t] = "callback" => pc[Other(t)] = "end"

(* What Send accepted goes out in order and at most once: the units of     *)
(* queued messages on the wire are strictly increasing, and none comes     *)
(* from a message EnCode rejected, whatever part of it a write or a        *)
(* timeout dropped.                                                        *)
Before(x, y) == x[1] < y[1] \/ (x[1] = y[1] /\ x[2] < y[2])

WireInOrder ==
  LET queued == {i \in DOMAIN wire : wire[i][1] # 0}
  IN  /\ \A i, j \in queued : i < j => Before(wire[i], wire[j])
      /\ \A i \in queued : sent[wire[i][1]].kind # "bad"

(* The messages among the first n that EnCode accepts are whole on the     *)
(* wire.                                                                   *)
OnWire(n) ==
  \A i \in 1..n : sent[i].kind # "bad" =>
    \A k \in 1..Units : \E j \in 1..Len(wire) : wire[j] = <<i, k>>

(* When a delayed Close ends because the send goroutine has, and the       *)
(* network failed no write, everything Send accepted is on the wire.  The  *)
(* variables have their types throughout.                                  *)
DelayedCloseDrains ==
  /\ TypeOK
  /\ (waiter = "sent" /\ ~netErr) => OnWire(Len(sent))

(* Only a message that EnCode rejects is dropped: when the send goroutine  *)
(* comes back for more, on a session that is open and whose network failed *)
(* no write, what it has taken is on the wire.                             *)
DropsOnlyRejected ==
  (pc["send"] = "get" /\ "close" \notin once /\ conn = {} /\ ~netErr)
    => OnWire(Len(sent) - Len(que))

(* A Close with delay > 0 closes the connection when what was accepted has *)
(* been sent, or the delay is over.                                        *)
DelayedCloseSendsAll ==
  ("close" \in conn /\ delay /\ waiter # "expired" /\ ~netErr) => OnWire(Len(sent))

(* Close leads to closeCallBack, even if the peer never reads and never    *)
(* answers.                                                                *)
CloseCompletes == ("close" \in once) ~> (cbCount = 1)
=============================================================================
