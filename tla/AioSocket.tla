----------------------------- MODULE AioSocket ------------------------------
(***************************************************************************)
(* A session of socket/aio/aiosocket.go.  It has no goroutine of its own:  *)
(* the application's goroutines (Users) call its methods, a task of the    *)
(* routine pool (Tasks) takes what is queued and hands it to the           *)
(* connection, and the completions of sends and receives run as tasks too. *)
(* sendLock says that some task is responsible for the queue.              *)
(*                                                                         *)
(* Each atomic operation, each operation of the send queue and each call   *)
(* on the connection is one action, except that an operation nobody can    *)
(* see the effect of on its own is part of the next one.  The send queue   *)
(* is the atomic bounded FIFO of SendQueue, the pool runs what it is given *)
(* (GoPool), and the connection of goaio is external: it completes each    *)
(* request once, and refuses requests after its Close.                     *)
(*                                                                         *)
(* A message is its number, in the order of Add, and one unit on the wire; *)
(* a write that times out or fails has written a proper prefix.            *)
(***************************************************************************)
EXTENDS Integers, Sequences, FiniteSets

CONSTANTS
  Users,      \* goroutines of the application
  Tasks,      \* pool routines that send
  OpSets,     \* the sets of methods an application may use
  MaxMsgs,    \* bound: messages accepted by the queue
  MaxDirect,  \* bound: direct sends that reach the wire
  QueueSize   \* fullSize of the send queue

AllOps == {"Send", "DirectSend", "BeginRecv", "ShutdownRead", "ShutdownWrite", "Close",
           "CloseDelay"}

ASSUME AioSocketAssumption ==
  /\ OpSets \subseteq SUBSET AllOps
  /\ MaxMsgs \in Nat
  /\ MaxDirect \in Nat
  /\ QueueSize \in Nat \ {0}
  /\ "recv" \notin Users \cup Tasks
  /\ Users \cap Tasks = {}

Threads == Users \cup Tasks \cup {"recv"}

VARIABLES
  ops,             \* the methods the application calls
  errorCallback,   \* SetErrorCallBack was called, before the session is used
  flag,            \* the bits of flag that are set
  once,            \* the ...Once words that are 1
  ioCount,
  sendLock,
  que, queClosed,  \* sendQueue
  conn,            \* which of Close, CloseRead, CloseWrite the connection has seen
  sendOverChan,    \* sendOverChan is closed
  panicked,        \* sendOverChan was closed twice: the program has ended
  pc,              \* where each goroutine is, outside Close
  cpc,             \* where each goroutine is inside Close
  delay,           \* the Close that counts has delay > 0
  waiter,          \* the goroutine a delayed Close starts
  b, res,          \* the buffer of each task and the result it is given
  got              \* the result of the receive

(* History: how many messages Send has accepted, what is on the wire, and  *)
(* the calls of closeCallBack.                                             *)
VARIABLES sent, wire, cbCount

queVars == <<que, queClosed, sent>>
netVars == <<conn, wire>>
overVars == <<sendOverChan, panicked>>
closeVars == <<once, cpc, delay>>
taskVars == <<b, res>>
envVars == <<ops, errorCallback>>
vars == <<envVars, flag, ioCount, sendLock, queVars, netVars, overVars, pc, closeVars,
          waiter, taskVars, got, cbCount>>

(* NewSocket.                                                              *)
Init ==
  /\ ops \in OpSets
  /\ errorCallback \in BOOLEAN
  /\ flag = {}
  /\ once = {}
  /\ ioCount = 0
  /\ sendLock = 0
  /\ que = <<>>
  /\ queClosed = FALSE
  /\ conn = {}
  /\ sendOverChan = FALSE
  /\ panicked = FALSE
  /\ pc = [t \in Threads |-> "idle"]
  /\ cpc = [t \in Threads |-> "none"]
  /\ delay = FALSE
  /\ waiter = "off"
  /\ b = [t \in Tasks |-> <<>>]
  /\ res = [t \in Tasks |-> "nil"]
  /\ got = "none"
  /\ sent = 0
  /\ wire = <<>>
  /\ cbCount = 0

Goto(t, l) == pc' = [pc EXCEPT ![t] = l]

GotoClose(t, l) == cpc' = [cpc EXCEPT ![t] = l]

(* t is at l and not inside a call of Close.                               *)
At(t, l) == pc[t] = l /\ cpc[t] = "none"

Closing == flag \cap {"fclosed", "frclosed"} # {}

(* close(sendOverChan), which panics the second time.                      *)
CloseOver ==
  /\ sendOverChan' = TRUE
  /\ panicked' = sendOverChan

-----------------------------------------------------------------------------
(* Close.  CloseCall is the call and its compare-and-swap of closeOnce; it *)
(* is part of the action that makes the call.                              *)

CloseCall(t, d) ==
  \/ "close" \in once /\ UNCHANGED closeVars
  \/ /\ "close" \notin once
     /\ once' = once \cup {"close"}
     /\ delay' = d
     /\ GotoClose(t, "setClosed")

(* A callback of the application: it may call Close.                       *)
CallBack(t) ==
  \/ UNCHANGED closeVars
  \/ "Close" \in ops /\ CloseCall(t, FALSE)
  \/ "CloseDelay" \in ops /\ CloseCall(t, TRUE)

Close(u, d) ==
  /\ At(u, "idle")
  /\ (IF d THEN "CloseDelay" ELSE "Close") \in ops
  /\ "close" \notin once
  /\ CloseCall(u, d)
  /\ UNCHANGED <<envVars, flag, ioCount, sendLock, queVars, netVars, overVars, pc, waiter,
                 taskVars, got, cbCount>>

(* fclosed, and ShutdownRead, which sets a flag that is not tested alone.  *)
CloseSetClosed(t) ==
  /\ cpc[t] = "setClosed"
  /\ flag' = flag \cup {"fclosed", "frclosed"}
  /\ conn' = conn \cup {"closeRead"}
  /\ GotoClose(t, "closeQueue")
  /\ UNCHANGED <<envVars, ioCount, sendLock, queVars, wire, overVars, pc, once, delay, waiter,
                 taskVars, got, cbCount>>

(* The queue is closed; the write side now, or by the goroutine of a       *)
(* delayed Close when something is left in the queue.                      *)
CloseQueue(t) ==
  /\ cpc[t] = "closeQueue"
  /\ queClosed' = TRUE
  /\ IF que # <<>> /\ delay
     THEN waiter' = "wait" /\ UNCHANGED conn
     ELSE conn' = conn \cup {"closeWrite"} /\ UNCHANGED waiter
  /\ GotoClose(t, "setDoClose")
  /\ UNCHANGED <<envVars, flag, ioCount, sendLock, que, sent, wire, overVars, pc, once, delay,
                 taskVars, got, cbCount>>

CloseSetDoClose(t) ==
  /\ cpc[t] = "setDoClose"
  /\ flag' = flag \cup {"fdoclose"}
  /\ GotoClose(t, "loadIO")
  /\ UNCHANGED <<envVars, ioCount, sendLock, queVars, netVars, overVars, pc, once, delay,
                 waiter, taskVars, got, cbCount>>

CloseLoadIO(t) ==
  /\ cpc[t] = "loadIO"
  /\ GotoClose(t, IF ioCount = 0 THEN "doClose" ELSE "none")
  /\ UNCHANGED <<envVars, flag, ioCount, sendLock, queVars, netVars, overVars, pc, once, delay,
                 waiter, taskVars, got, cbCount>>

(* Mutant: doCloseOnce is not consulted.                                   *)
DoCloseUnguarded ==
  /\ once' = once \cup {"doClose"}
  /\ conn' = conn \cup {"close"}
  /\ cbCount' = cbCount + 1

(* The winner of doCloseOnce closes the connection, calls closeCallBack.*)
DoClose ==
  \/ "doClose" \in once /\ UNCHANGED <<once, conn, cbCount>>
  \/ /\ "doClose" \notin once
     /\ once' = once \cup {"doClose"}
     /\ conn' = conn \cup {"close"}
     /\ cbCount' = cbCount + 1

CloseDoClose(t) ==
  /\ cpc[t] = "doClose"
  /\ DoClose
  /\ GotoClose(t, "none")
  /\ UNCHANGED <<envVars, flag, ioCount, sendLock, queVars, wire, overVars, pc, delay, waiter,
                 taskVars, got>>

(* The goroutine of a delayed Close: the sends are over or the ticker has  *)
(* fired.                                                                  *)
Waiter(how) ==
  /\ waiter = "wait"
  /\ how = "over" => sendOverChan
  /\ waiter' = how
  /\ conn' = conn \cup {"closeWrite"}
  /\ UNCHANGED <<envVars, flag, ioCount, sendLock, queVars, wire, overVars, pc, closeVars,
                 taskVars, got, cbCount>>

-----------------------------------------------------------------------------
(* ioDone: the count is decremented, fdoclose is tested, doCloseOnce is    *)
(* tried.  The goroutine is then done with what it was doing.              *)

IoDone(t) ==
  /\ At(t, "ioDone")
  /\ ioCount' = ioCount - 1
  /\ Goto(t, IF ioCount = 1 THEN "ioTest" ELSE "idle")
  /\ UNCHANGED <<envVars, flag, sendLock, queVars, netVars, overVars, closeVars, waiter,
                 taskVars, got, cbCount>>

IoTest(t) ==
  /\ At(t, "ioTest")
  /\ Goto(t, IF "fdoclose" \in flag THEN "ioClose" ELSE "idle")
  /\ UNCHANGED <<envVars, flag, ioCount, sendLock, queVars, netVars, overVars, closeVars,
                 waiter, taskVars, got, cbCount>>

IoClose(t) ==
  /\ At(t, "ioClose")
  /\ DoClose
  /\ Goto(t, "idle")
  /\ UNCHANGED <<envVars, flag, ioCount, sendLock, queVars, wire, overVars, cpc, delay, waiter,
                 taskVars, got>>

-----------------------------------------------------------------------------
(* Send and SendWithTimeout.                                               *)

Send(u) ==
  /\ At(u, "idle")
  /\ "Send" \in ops
  /\ sent < MaxMsgs
  /\ ~queClosed
  /\ Len(que) < QueueSize
  /\ sent' = sent + 1
  /\ que' = Append(que, sent')
  /\ Goto(u, "casSend")
  /\ UNCHANGED <<envVars, flag, ioCount, sendLock, queClosed, netVars, overVars, closeVars,
                 waiter, taskVars, got, cbCount>>

(* Mutant: the task is started without the compare-and-swap.               *)
CasSendAlways(u) ==
  /\ At(u, "casSend")
  /\ sendLock' = 1
  /\ Goto(u, "startSend")
  /\ UNCHANGED <<envVars, flag, ioCount, queVars, netVars, overVars, closeVars, waiter,
                 taskVars, got, cbCount>>

CasSend(u) ==
  /\ At(u, "casSend")
  /\ sendLock' = 1
  /\ Goto(u, IF sendLock = 0 THEN "startSend" ELSE "idle")
  /\ UNCHANGED <<envVars, flag, ioCount, queVars, netVars, overVars, closeVars, waiter,
                 taskVars, got, cbCount>>

(* Mutant: addIO is forgotten.                                             *)
StartSendUncounted(u) ==
  /\ At(u, "startSend")
  /\ \E t \in Tasks :
       At(t, "idle") /\ pc' = [pc EXCEPT ![u] = "idle", ![t] = "get"]
  /\ UNCHANGED <<envVars, flag, ioCount, sendLock, queVars, netVars, overVars, closeVars,
                 waiter, taskVars, got, cbCount>>

(* addIO and routinePool.Go(s.task).                                       *)
StartSend(u) ==
  /\ At(u, "startSend")
  /\ ioCount' = ioCount + 1
  /\ \E t \in Tasks :
       At(t, "idle") /\ pc' = [pc EXCEPT ![u] = "idle", ![t] = "get"]
  /\ UNCHANGED <<envVars, flag, sendLock, queVars, netVars, overVars, closeVars, waiter,
                 taskVars, got, cbCount>>

(* DirectSend waits for the completion; message 0 is its bytes.            *)
DirectSend(u) ==
  /\ At(u, "idle")
  /\ "DirectSend" \in ops
  /\ "close" \notin conn
  /\ Goto(u, "direct")
  /\ UNCHANGED <<envVars, flag, ioCount, sendLock, queVars, netVars, overVars, closeVars,
                 waiter, taskVars, got, cbCount>>

DirectDone(u) ==
  /\ At(u, "direct")
  /\ \/ UNCHANGED wire
     \/ /\ conn \cap {"closeWrite", "close"} = {}
        /\ Len(SelectSeq(wire, LAMBDA m : m = 0)) < MaxDirect
        /\ wire' = Append(wire, 0)
  /\ Goto(u, "idle")
  /\ UNCHANGED <<envVars, flag, ioCount, sendLock, queVars, conn, overVars, closeVars,
                 waiter, taskVars, got, cbCount>>

-----------------------------------------------------------------------------
(* doSend.                                                                 *)

Increasing(s) == \A i, j \in DOMAIN s : i < j => s[i] < s[j]

(* Get waits until there is something or the queue is closed.  A message   *)
(* that EnCode fails on is left out of the buffer: at[k] is the place of   *)
(* the k-th message that is kept.                                          *)
Get(t) ==
  /\ At(t, "get")
  /\ que # <<>> \/ queClosed
  /\ \E n \in 0..Len(que) : \E at \in [1..n -> 1..Len(que)] :
       Increasing(at) /\ b' = [b EXCEPT ![t] = [k \in 1..n |-> que[at[k]]]]
  /\ que' = <<>>
  /\ Goto(t, "send")
  /\ UNCHANGED <<envVars, flag, ioCount, sendLock, queClosed, sent, netVars, overVars,
                 closeVars, waiter, res, got, cbCount>>

(* Nothing to send counts as sent; Send1 is refused after Close of conn.   *)
Send1(t) ==
  /\ At(t, "send")
  /\ IF b[t] # <<>> /\ "close" \notin conn
     THEN Goto(t, "inFlight") /\ UNCHANGED res
     ELSE /\ res' = [res EXCEPT ![t] = IF b[t] = <<>> THEN "nil" ELSE "err"]
          /\ Goto(t, "complete")
  /\ UNCHANGED <<envVars, flag, ioCount, sendLock, queVars, netVars, overVars, closeVars,
                 waiter, b, got, cbCount>>

(* The completion of Send1, which goes through completeRoutine to the pool. *)
(* DropFirstNBytes, later, leaves what was not written.                    *)
Sent(t, r) ==
  /\ At(t, "inFlight")
  /\ r # "err" => conn \cap {"closeWrite", "close"} = {}
  /\ \E n \in 0..Len(b[t]) :
       /\ (n = Len(b[t])) <=> (r = "nil")
       /\ wire' = wire \o SubSeq(b[t], 1, n)
       /\ b' = [b EXCEPT ![t] = SubSeq(@, n + 1, Len(@))]
  /\ res' = [res EXCEPT ![t] = r]
  /\ Goto(t, "complete")
  /\ UNCHANGED <<envVars, flag, ioCount, sendLock, queVars, conn, overVars, closeVars,
                 waiter, got, cbCount>>

-----------------------------------------------------------------------------
(* onSendComplete.                                                         *)

SendOK(t) ==
  /\ At(t, "complete")
  /\ res[t] = "nil"
  /\ Goto(t, IF que = <<>> THEN "unlock" ELSE "get")
  /\ UNCHANGED <<envVars, flag, ioCount, sendLock, queVars, netVars, overVars, closeVars,
                 waiter, taskVars, got, cbCount>>

(* Mutant: the queue is not looked at again after the lock is released.    *)
UnlockLeaves(t) ==
  /\ At(t, "unlock")
  /\ sendLock' = 0
  /\ Goto(t, "over")
  /\ UNCHANGED <<envVars, flag, ioCount, queVars, netVars, overVars, closeVars, waiter,
                 taskVars, got, cbCount>>

(* onSendComplete:1.                                                       *)
Unlock(t) ==
  /\ At(t, "unlock")
  /\ sendLock' = 0
  /\ Goto(t, "recheck")
  /\ UNCHANGED <<envVars, flag, ioCount, queVars, netVars, overVars, closeVars, waiter,
                 taskVars, got, cbCount>>

(* onSendComplete:2.                                                       *)
Recheck(t) ==
  /\ At(t, "recheck")
  /\ Goto(t, IF que = <<>> THEN "over" ELSE "recas")
  /\ UNCHANGED <<envVars, flag, ioCount, sendLock, queVars, netVars, overVars, closeVars,
                 waiter, taskVars, got, cbCount>>

Recas(t) ==
  /\ At(t, "recas")
  /\ sendLock' = 1
  /\ Goto(t, IF sendLock = 0 THEN "get" ELSE "over")
  /\ UNCHANGED <<envVars, flag, ioCount, queVars, netVars, overVars, closeVars, waiter,
                 taskVars, got, cbCount>>

(* onSendComplete:3.                                                       *)
Over(t) ==
  /\ At(t, "over")
  /\ IF queClosed
     THEN conn' = conn \cup {"closeWrite"} /\ CloseOver
     ELSE UNCHANGED <<conn, overVars>>
  /\ Goto(t, "ioDone")
  /\ UNCHANGED <<envVars, flag, ioCount, sendLock, queVars, wire, closeVars, waiter,
                 taskVars, got, cbCount>>

(* A failed send does not release the lock.                                *)
SendFailed(t) ==
  /\ At(t, "complete")
  /\ res[t] # "nil"
  /\ Goto(t, IF "fclosed" \in flag THEN "ioDone" ELSE "fail")
  /\ UNCHANGED <<envVars, flag, ioCount, sendLock, queVars, netVars, overVars, closeVars,
                 waiter, taskVars, got, cbCount>>

(* The session is closed.                                                  *)
Fail(t) ==
  /\ At(t, "fail")
  /\ ~(errorCallback /\ res[t] = "timeout")
  /\ CloseOver
  /\ CloseCall(t, FALSE)
  /\ Goto(t, "ioDone")
  /\ UNCHANGED <<envVars, flag, ioCount, sendLock, queVars, netVars, waiter, taskVars, got,
                 cbCount>>

(* A timeout is reported to errorCallback.                                 *)
FailTimeout(t) ==
  /\ At(t, "fail")
  /\ errorCallback /\ res[t] = "timeout"
  /\ CallBack(t)
  /\ Goto(t, "failTest")
  /\ UNCHANGED <<envVars, flag, ioCount, sendLock, queVars, netVars, overVars, waiter,
                 taskVars, got, cbCount>>

(* Mutant: after a timeout the whole buffer is sent again.                 *)
FailTestResends(t) ==
  /\ At(t, "failTest")
  /\ IF "fclosed" \in flag
     THEN CloseOver /\ Goto(t, "ioDone") /\ UNCHANGED b
     ELSE /\ Goto(t, "send")
          /\ b' = [b EXCEPT ![t] = SelectSeq(wire, LAMBDA m : m > 0) \o @]
          /\ UNCHANGED overVars
  /\ UNCHANGED <<envVars, flag, ioCount, sendLock, queVars, netVars, closeVars, waiter,
                 res, got, cbCount>>

(* What is left of the buffer is sent, unless the callback closed.         *)
FailTest(t) ==
  /\ At(t, "failTest")
  /\ IF "fclosed" \in flag
     THEN CloseOver /\ Goto(t, "ioDone")
     ELSE Goto(t, "send") /\ UNCHANGED overVars
  /\ UNCHANGED <<envVars, flag, ioCount, sendLock, queVars, netVars, closeVars, waiter,
                 taskVars, got, cbCount>>

-----------------------------------------------------------------------------
(* ShutdownRead and ShutdownWrite called by the application.               *)

ShutdownRead(u) ==
  /\ At(u, "idle")
  /\ "ShutdownRead" \in ops
  /\ flag' = flag \cup {"frclosed"}
  /\ conn' = conn \cup {"closeRead"}
  /\ UNCHANGED <<envVars, ioCount, sendLock, queVars, wire, overVars, pc, closeVars, waiter,
                 taskVars, got, cbCount>>

ShutdownWrite(u) ==
  /\ At(u, "idle")
  /\ "ShutdownWrite" \in ops
  /\ ~queClosed
  /\ queClosed' = TRUE
  /\ Goto(u, IF que = <<>> THEN "loadLock" ELSE "idle")
  /\ UNCHANGED <<envVars, flag, ioCount, sendLock, que, sent, netVars, overVars, closeVars,
                 waiter, taskVars, got, cbCount>>

(* Mutant: the write side is left to the task, if there is none too.       *)
ShutdownLeaves(u) ==
  /\ At(u, "loadLock")
  /\ Goto(u, "idle")
  /\ UNCHANGED <<envVars, flag, ioCount, sendLock, queVars, netVars, overVars, closeVars,
                 waiter, taskVars, got, cbCount>>

(* The write side is left to the task that has the lock.                   *)
ShutdownConn(u) ==
  /\ At(u, "loadLock")
  /\ conn' = IF sendLock = 0 THEN conn \cup {"closeWrite"} ELSE conn
  /\ Goto(u, "idle")
  /\ UNCHANGED <<envVars, flag, ioCount, sendLock, queVars, wire, overVars, closeVars, waiter,
                 taskVars, got, cbCount>>

-----------------------------------------------------------------------------
(* BeginRecv and onRecvComplete.                                           *)

BeginRecv(u) ==
  /\ At(u, "idle")
  /\ "BeginRecv" \in ops
  /\ "begin" \notin once
  /\ once' = once \cup {"begin"}
  /\ Goto(u, IF Closing THEN "idle" ELSE "startRecv")
  /\ UNCHANGED <<envVars, flag, ioCount, sendLock, queVars, netVars, overVars, cpc, delay,
                 waiter, taskVars, got, cbCount>>

StartRecv(u) ==
  /\ At(u, "startRecv")
  /\ ioCount' = ioCount + 1
  /\ Goto(u, "recv")
  /\ UNCHANGED <<envVars, flag, sendLock, queVars, netVars, overVars, closeVars, waiter,
                 taskVars, got, cbCount>>

Recv(u) ==
  /\ At(u, "recv")
  /\ pc' = IF "close" \in conn THEN [pc EXCEPT ![u] = "ioDone"]
           ELSE [pc EXCEPT ![u] = "idle", !["recv"] = "inFlight"]
  /\ UNCHANGED <<envVars, flag, ioCount, sendLock, queVars, netVars, overVars, closeVars,
                 waiter, taskVars, got, cbCount>>

(* The completion of Recv.                                                 *)
Received(r) ==
  /\ At("recv", "inFlight")
  /\ got' = r
  /\ Goto("recv", "complete")
  /\ UNCHANGED <<envVars, flag, ioCount, sendLock, queVars, netVars, overVars, closeVars,
                 waiter, taskVars, cbCount>>

RecvComplete ==
  /\ At("recv", "complete")
  /\ Goto("recv", IF Closing THEN "ioDone" ELSE IF got = "data" THEN "unpack" ELSE "report")
  /\ flag' = IF ~Closing /\ got = "err" THEN flag \cup {"frclosed"} ELSE flag
  /\ got' = IF Closing THEN "none" ELSE got
  /\ UNCHANGED <<envVars, ioCount, sendLock, queVars, netVars, overVars, closeVars, waiter,
                 taskVars, cbCount>>

(* An error is reported, or closes the session; a timeout may go on.       *)
RecvReport ==
  /\ At("recv", "report")
  /\ IF errorCallback THEN CallBack("recv") ELSE CloseCall("recv", FALSE)
  /\ Goto("recv", IF got = "timeout" THEN "again" ELSE "ioDone")
  /\ got' = "none"
  /\ UNCHANGED <<envVars, flag, ioCount, sendLock, queVars, netVars, overVars, waiter,
                 taskVars, cbCount>>

(* One round of the loop: Unpack fails, returns a message, or nothing.     *)
Unpack ==
  /\ At("recv", "unpack")
  /\ \/ Closing /\ Goto("recv", "ioDone") /\ UNCHANGED closeVars
     \/ ~Closing /\ CloseCall("recv", FALSE) /\ Goto("recv", "ioDone")
     \/ ~Closing /\ CallBack("recv") /\ UNCHANGED pc
     \/ ~Closing /\ Goto("recv", "again") /\ UNCHANGED closeVars
  /\ got' = IF pc' = pc THEN got ELSE "none"
  /\ UNCHANGED <<envVars, flag, ioCount, sendLock, queVars, netVars, overVars, waiter,
                 taskVars, cbCount>>

(* Recv1, unless the session or its read side is closed.                   *)
RecvAgain ==
  /\ At("recv", "again")
  /\ Goto("recv", IF Closing \/ "close" \in conn THEN "ioDone" ELSE "inFlight")
  /\ UNCHANGED <<envVars, flag, ioCount, sendLock, queVars, netVars, overVars, closeVars,
                 waiter, taskVars, got, cbCount>>

-----------------------------------------------------------------------------

UserStep(u) ==
  \/ \E d \in BOOLEAN : Close(u, d)
  \/ Send(u) \/ CasSend(u) \/ StartSend(u)
  \/ DirectSend(u) \/ DirectDone(u)
  \/ ShutdownRead(u) \/ ShutdownWrite(u) \/ ShutdownConn(u)
  \/ BeginRecv(u) \/ StartRecv(u) \/ Recv(u)

TaskStep(t) ==
  \/ Get(t) \/ Send1(t)
  \/ \E r \in {"nil", "timeout", "err"} : Sent(t, r)
  \/ SendOK(t) \/ Unlock(t) \/ Recheck(t) \/ Recas(t) \/ Over(t)
  \/ SendFailed(t) \/ Fail(t) \/ FailTimeout(t) \/ FailTest(t)

RecvStep ==
  \/ \E r \in {"data", "timeout", "err"} : Received(r)
  \/ RecvComplete \/ RecvReport \/ Unpack \/ RecvAgain

ThreadStep(t) ==
  \/ CloseSetClosed(t) \/ CloseQueue(t) \/ CloseSetDoClose(t) \/ CloseLoadIO(t) \/ CloseDoClose(t)
  \/ IoDone(t) \/ IoTest(t) \/ IoClose(t)

Next ==
  /\ ~panicked
  /\ \/ \E u \in Users : UserStep(u)
     \/ \E t \in Tasks : TaskStep(t)
     \/ \E t \in Threads : ThreadStep(t)
     \/ \E how \in {"over", "tick"} : Waiter(how)
     \/ RecvStep

Spec == Init /\ [][Next]_vars

-----------------------------------------------------------------------------

TypeOK ==
  /\ ops \in OpSets
  /\ errorCallback \in BOOLEAN
  /\ flag \subseteq {"fclosed", "frclosed", "fdoclose"}
  /\ once \subseteq {"begin", "close", "doClose"}
  /\ ioCount \in Nat
  /\ sendLock \in {0, 1}
  /\ que \in Seq(1..MaxMsgs) /\ Len(que) <= QueueSize
  /\ queClosed \in BOOLEAN
  /\ conn \subseteq {"closeRead", "closeWrite", "close"}
  /\ sendOverChan \in BOOLEAN
  /\ panicked \in BOOLEAN
  /\ waiter \in {"off", "wait", "over", "tick"}
  /\ b \in [Tasks -> Seq(1..MaxMsgs)]
  /\ res \in [Tasks -> {"nil", "timeout", "err"}]
  /\ got \in {"none", "data", "timeout", "err"}
  /\ sent \in 0..MaxMsgs
  /\ wire \in Seq(0..MaxMsgs)
  /\ cbCount \in 0..1

(* The goroutines that have sendLock: from the compare-and-swap that took  *)
(* it to the store that releases it.                                       *)
Holders ==
  {u \in Users : pc[u] = "startSend"} \cup
  {t \in Tasks : pc[t] \in {"get", "send", "inFlight", "complete", "unlock", "fail", "failTest"}}

(* sendLock is exclusive although it is released and taken again by        *)
(* different goroutines: at most one uses the shared send context, only    *)
(* with the lock; and the lock is left behind only by a failed send, which *)
(* has closed the session.                                                 *)
SingleSender ==
  /\ Cardinality(Holders) <= 1
  /\ Holders # {} => sendLock = 1
  /\ sendLock = 1 /\ Holders = {} => "close" \in once

(* The argument of the comment in onSendComplete: whatever the order of    *)
(* send:1, send:2 and onSendComplete:1, onSendComplete:2, when the queue   *)
(* has messages and the lock is free somebody is about to try to take it.  *)
NoStrandedMessage ==
  que # <<>> /\ sendLock = 0 =>
    \/ \E u \in Users : pc[u] = "casSend"
    \/ \E t \in Tasks : pc[t] \in {"recheck", "recas"}

(* One task at a time sends, with sendLock, and no message is left behind  *)
(* when it stops.                                                          *)
SendersSound == SingleSender /\ NoStrandedMessage

(* The messages that reach the wire do so in the order of Send, each once, *)
(* also when writes time out half way and are continued.                   *)
WireInOrder ==
  \A i, j \in {k \in DOMAIN wire : wire[k] > 0} : i < j => wire[i] < wire[j]

(* ioCount is the number of operations in progress, so that whoever finds  *)
(* it 0 is the last one.                                                   *)
IoCountExact ==
  ioCount = Cardinality({u \in Users : pc[u] \in {"recv", "ioDone"}})
            + Cardinality({t \in Tasks \cup {"recv"} : pc[t] \notin {"idle", "ioTest", "ioClose"}})

Quiet ==
  /\ ~panicked
  /\ waiter # "wait"
  /\ \A t \in Threads : pc[t] = "idle" /\ cpc[t] = "none"

(* When every call has returned and no operation is in progress, nothing   *)
(* was forgotten: after Close, closeCallBack was called; after Close or    *)
(* ShutdownWrite, the write side is closed; and otherwise the queue is     *)
(* empty.                                                                  *)
QuietMeansDone ==
  Quiet =>
    /\ "close" \in once => cbCount = 1
    /\ queClosed => "closeWrite" \in conn
    /\ "close" \notin once => que = <<>>

(* The variables have their types, ioCount counts the operations in        *)
(* progress, and when there are none nothing was forgotten: neither        *)
(* closeCallBack, nor the end of the write side, nor a message.            *)
IoAccounted == TypeOK /\ IoCountExact /\ QuietMeansDone
=============================================================================
