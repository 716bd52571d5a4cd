-------------------------- MODULE AioSocketProofs ---------------------------
(***************************************************************************)
(* Proofs about AioSocket for any number of goroutines, tasks and          *)
(* messages.                                                               *)
(*                                                                         *)
(* First: sendLock is exclusive although one goroutine takes it for        *)
(* another, and no message is stranded when it is released.  That the lock *)
(* is left behind only in a session that was closed needs what fclosed,    *)
(* which a failed send goes by, says about closeOnce.                      *)
(*                                                                         *)
(* Then, from it: ioCount is the number of goroutines in an operation,     *)
(* whoever closes the session or its queue leaves somebody who will call   *)
(* closeCallBack and shut the write side, and the wire, the buffer of the  *)
(* task that has the lock and the queue are in the order of Send.          *)
(***************************************************************************)
EXTENDS AioSocket, SequenceTheorems, FiniteSetTheorems, TLAPS

(* Steps of logic and sets are for Zenon; those that need arithmetic,      *)
(* sequences or updates of functions cite SMT.                             *)
USE Zenon

(* t has the lock when it is at l.                                         *)
Holds(t, l) ==
  \/ t \in Users /\ l = "startSend"
  \/ t \in Tasks /\ l \in {"get", "send", "inFlight", "complete", "unlock", "fail", "failTest"}

(* t is about to try to take the lock when it is at l.                     *)
Tries(t, l) ==
  \/ t \in Users /\ l = "casSend"
  \/ t \in Tasks /\ l \in {"recheck", "recas"}

Types ==
  /\ DOMAIN pc = Threads
  /\ DOMAIN cpc = Threads
  /\ sendLock \in {0, 1}

Locked ==
  /\ \A s, t \in Threads : Holds(s, pc[s]) /\ Holds(t, pc[t]) => s = t
  /\ \A t \in Threads : Holds(t, pc[t]) => sendLock = 1
  /\ sendLock = 1 => "close" \in once \/ \E t \in Threads : Holds(t, pc[t])

Attended == que # <<>> /\ sendLock = 0 => \E t \in Threads : Tries(t, pc[t])

Closed ==
  /\ "fclosed" \in flag => "close" \in once
  /\ \A t \in Threads : cpc[t] # "none" => "close" \in once

IInv == Types /\ Locked /\ Attended /\ Closed

-----------------------------------------------------------------------------
(* Nobody holds the lock of a new session.                                 *)
LEMMA InitIInv == Init => IInv
<1> SUFFICES ASSUME Init
             PROVE  IInv
  OBVIOUS
<1> USE DEF Init
<1>1. Types
  BY DEF Types
<1>2. \A t \in Threads : ~Holds(t, pc[t])
  BY DEF Holds
<1>3. Locked
  BY SMT, <1>2 DEF Locked
<1>4. Attended /\ Closed
  BY DEF Attended, Closed
<1> QED
  BY <1>1, <1>3, <1>4 DEF IInv

(* A step that moves t to l or nobody, and takes or releases no lock.  It  *)
(* may empty the queue and may call Close.                                 *)
Moves(t, l) ==
  /\ pc' \in {pc, [pc EXCEPT ![t] = l]}
  /\ Holds(t, l) <=> Holds(t, pc[t])
  /\ Tries(t, pc[t]) => Tries(t, l)
  /\ sendLock' = sendLock
  /\ que' \in {que, <<>>}

(* What a step may do to the flags and to the goroutines in Close.         *)
Closes ==
  /\ DOMAIN cpc' = Threads
  /\ "close" \in once => "close" \in once'
  /\ Closed'

(* Such a step keeps the invariant: the same goroutine has the lock.       *)
LEMMA MoveStep ==
  ASSUME IInv, NEW t \in Threads, NEW l, Moves(t, l), Closes
  PROVE  IInv'
<1> USE DEF Moves, Closes, IInv
<1>1. Types'
  BY DEF Types
<1>m. /\ \A s \in Threads : Holds(s, pc'[s]) <=> Holds(s, pc[s])
      /\ \A s \in Threads : Tries(s, pc[s]) => Tries(s, pc'[s])
  BY DEF Types
<1> HIDE DEF Moves
<1>q. sendLock' = sendLock /\ que' \in {que, <<>>}
  BY DEF Moves
<1>2. Locked'
  <2>1. \A s \in Threads : Holds(s, pc[s])' <=> Holds(s, pc'[s])
    BY DEF Holds
  <2> QED
    BY <1>m, <1>q, <2>1 DEF Locked
<1>3. Attended'
  <2>1. \A s \in Threads : Tries(s, pc[s])' <=> Tries(s, pc'[s])
    BY DEF Tries
  <2> QED
    BY <1>m, <1>q, <2>1 DEF Attended
<1> QED
  BY <1>1, <1>2, <1>3

(* closeOnce is set before anything else of Close, and never reset.        *)
LEMMA ClosesStep ==
  ASSUME IInv, Next
  PROVE  Closes
<1>t. /\ DOMAIN cpc = Threads /\ Users \subseteq Threads /\ Tasks \subseteq Threads
      /\ "recv" \in Threads
  BY DEF IInv, Types, Threads
<1>c. Closed
  BY DEF IInv
<1>0. ASSUME UNCHANGED <<once, cpc>>, "fclosed" \in flag' => "fclosed" \in flag
      PROVE  Closes
  BY <1>t, <1>c, <1>0 DEF Closes, Closed
<1>1. ASSUME NEW t \in Threads, NEW d, CloseCall(t, d), flag' = flag
      PROVE  Closes
  BY <1>t, <1>c, <1>1 DEF Closes, Closed, CloseCall, GotoClose, closeVars
<1>2. ASSUME NEW t \in Threads, CallBack(t), flag' = flag
      PROVE  Closes
  <2>1. UNCHANGED <<once, cpc>> \/ \E d \in BOOLEAN : CloseCall(t, d)
    BY <1>2 DEF CallBack, closeVars
  <2> QED
    BY <1>0, <1>1, <1>2, <2>1
<1>3. ASSUME NEW u \in Users, UserStep(u)
      PROVE  Closes
  <2>1. CASE \E d \in BOOLEAN : Close(u, d)
    BY <1>t, <1>1, <2>1 DEF Close
  <2>2. CASE BeginRecv(u)
    BY <1>t, <1>c, <2>2 DEF BeginRecv, Closes, Closed
  <2>3. CASE ShutdownRead(u)
    BY <1>0, <2>3 DEF ShutdownRead, closeVars
  <2>4. CASE \/ Send(u) \/ CasSend(u) \/ StartSend(u) \/ DirectSend(u) \/ DirectDone(u)
             \/ ShutdownWrite(u) \/ ShutdownConn(u) \/ StartRecv(u) \/ Recv(u)
    BY <1>0, <2>4 DEF Send, CasSend, StartSend, DirectSend, DirectDone, ShutdownWrite,
       ShutdownConn, StartRecv,
       Recv, closeVars
  <2> QED
    BY <1>3, <2>1, <2>2, <2>3, <2>4 DEF UserStep
<1>4. ASSUME NEW t \in Tasks, TaskStep(t)
      PROVE  Closes
  <2>1. CASE Fail(t)
    BY <1>t, <1>1, <2>1 DEF Fail
  <2>2. CASE FailTimeout(t)
    BY <1>t, <1>2, <2>2 DEF FailTimeout
  <2>3. CASE ~(Fail(t) \/ FailTimeout(t))
    <3>1. UNCHANGED <<once, cpc, flag>>
      BY <1>4, <2>3 DEF TaskStep, Get, Send1, Sent, SendOK, Unlock, Recheck, Recas, Over,
         SendFailed, FailTest,
         closeVars
    <3> QED
      BY <1>0, <3>1
  <2> QED
    BY <2>1, <2>2, <2>3
<1>5. ASSUME NEW t \in Threads, ThreadStep(t)
      PROVE  Closes
  <2>1. CASE \/ CloseSetClosed(t) \/ CloseQueue(t) \/ CloseSetDoClose(t) \/ CloseLoadIO(t)
             \/ CloseDoClose(t)
    <3>1. cpc[t] # "none" /\ once \subseteq once'
      BY <2>1 DEF CloseSetClosed, CloseQueue, CloseSetDoClose, CloseLoadIO, CloseDoClose, DoClose
    <3>2. "close" \in once'
      BY <1>c, <3>1 DEF Closed
    <3>3. PICK l : cpc' = [cpc EXCEPT ![t] = l]
      BY <2>1 DEF CloseSetClosed, CloseQueue, CloseSetDoClose, CloseLoadIO, CloseDoClose, GotoClose
    <3> QED
      BY <1>t, <3>2, <3>3 DEF Closes, Closed
  <2>2. CASE IoDone(t) \/ IoTest(t)
    BY <1>0, <2>2 DEF IoDone, IoTest, closeVars
  <2>3. CASE IoClose(t)
    BY <1>t, <1>c, <2>3 DEF IoClose, DoClose, Closes, Closed
  <2> QED
    BY <1>5, <2>1, <2>2, <2>3 DEF ThreadStep
<1>6. ASSUME NEW how, Waiter(how)
      PROVE  Closes
  BY <1>0, <1>6 DEF Waiter, closeVars
<1>7. ASSUME RecvStep
      PROVE  Closes
  <2>1. CASE \E r \in {"data", "timeout", "err"} : Received(r)
    BY <1>0, <2>1 DEF Received, closeVars
  <2>2. CASE RecvComplete
    <3>1. "fclosed" \in flag' => "fclosed" \in flag
      BY <2>2 DEF RecvComplete
    <3> QED
      BY <1>0, <2>2, <3>1 DEF RecvComplete, closeVars
  <2>3. CASE RecvReport
    BY <1>t, <1>1, <1>2, <2>3 DEF RecvReport
  <2>4. CASE Unpack
    BY <1>t, <1>0, <1>1, <1>2, <2>4 DEF Unpack, closeVars
  <2>5. CASE RecvAgain
    BY <1>0, <2>5 DEF RecvAgain, closeVars
  <2> QED
    BY <1>7, <2>1, <2>2, <2>3, <2>4, <2>5 DEF RecvStep
<1> QED
  BY <1>3, <1>4, <1>5, <1>6, <1>7 DEF Next

-----------------------------------------------------------------------------
(* Sending: Send and CasSend, and StartSend, which passes the lock on.     *)
LEMMA SendStep ==
  ASSUME IInv, Closes, NEW u \in Users, Send(u) \/ CasSend(u) \/ StartSend(u)
  PROVE  IInv'
<1>t. u \in Threads /\ u \notin Tasks /\ DOMAIN pc = Threads /\ sendLock \in {0, 1}
  BY AioSocketAssumption DEF IInv, Types, Threads
<1>c. Closed' /\ DOMAIN cpc' = Threads /\ ("close" \in once => "close" \in once')
  BY DEF Closes
<1>i. Locked /\ Attended
  BY DEF IInv
<1>h. \A s \in Threads : /\ Holds(s, pc[s])' <=> Holds(s, pc'[s])
                         /\ Tries(s, pc[s])' <=> Tries(s, pc'[s])
  BY DEF Holds, Tries
<1>1. CASE Send(u)
  <2>1. pc' = [pc EXCEPT ![u] = "casSend"] /\ sendLock' = sendLock /\ pc[u] = "idle"
    BY <1>1 DEF Send, At, Goto
  <2>2. \A s \in Threads : Holds(s, pc'[s]) <=> Holds(s, pc[s])
    BY <1>t, <2>1 DEF Holds
  <2>3. Tries(u, pc'[u])
    BY <1>t, <2>1 DEF Tries
  <2>4. Locked'
    BY <1>c, <1>i, <1>h, <2>1, <2>2 DEF Locked
  <2>5. Attended'
    BY <1>t, <1>h, <2>3 DEF Attended
  <2> QED
    BY <1>t, <1>c, <2>1, <2>4, <2>5 DEF IInv, Types
<1>2. CASE CasSend(u)
  <2>1. /\ pc' = [pc EXCEPT ![u] = IF sendLock = 0 THEN "startSend" ELSE "idle"] /\ sendLock' = 1
        /\ pc[u] = "casSend"
    BY <1>2 DEF CasSend, At, Goto
  <2>2. ~Holds(u, pc[u]) /\ (Holds(u, pc'[u]) <=> sendLock = 0)
    BY <1>t, <2>1 DEF Holds
  <2>3. \A s \in Threads \ {u} : pc'[s] = pc[s]
    BY <1>t, <2>1
  <2>4. Locked'
    BY SMT, <1>t, <1>c, <1>i, <1>h, <2>1, <2>2, <2>3 DEF Locked
  <2>5. Attended'
    BY SMT, <2>1 DEF Attended
  <2> QED
    BY <1>t, <1>c, <2>1, <2>4, <2>5 DEF IInv, Types
<1>3. CASE StartSend(u)
  <2>1. PICK t \in Tasks : pc[t] = "idle" /\ pc' = [pc EXCEPT ![u] = "idle", ![t] = "get"]
    BY <1>3 DEF StartSend, At
  <2>2. sendLock' = sendLock /\ que' = que /\ pc[u] = "startSend"
    BY <1>3 DEF StartSend, At, queVars
  <2>3. t \in Threads /\ t \notin Users /\ t # u
    BY <1>t, AioSocketAssumption DEF Threads
  <2>4. \A s \in Threads \ {u, t} : pc'[s] = pc[s]
    BY <1>t, <2>1
  <2>5. /\ Holds(u, pc[u]) /\ ~Holds(u, pc'[u]) /\ Holds(t, pc'[t])
        /\ ~Tries(u, pc[u]) /\ ~Tries(t, pc[t])
    BY <1>t, <2>1, <2>2, <2>3 DEF Holds, Tries
  <2>6. Locked'
    BY <1>t, <1>c, <1>i, <1>h, <2>2, <2>3, <2>4, <2>5 DEF Locked
  <2>7. Attended'
    BY <1>t, <1>i, <1>h, <2>2, <2>3, <2>4, <2>5 DEF Attended
  <2> QED
    BY <1>t, <1>c, <2>1, <2>2, <2>6, <2>7 DEF IInv, Types
<1> QED
  BY <1>1, <1>2, <1>3

(* Everything else the application does leaves the lock alone.             *)
LEMMA UserMoves ==
  ASSUME IInv, Closes, NEW u \in Users, UserStep(u), ~(Send(u) \/ CasSend(u) \/ StartSend(u))
  PROVE  IInv'
<1>t. u \in Threads /\ u \notin Tasks /\ DOMAIN pc = Threads
  BY AioSocketAssumption DEF IInv, Types, Threads
<1>1. CASE (\E d \in BOOLEAN : Close(u, d)) \/ ShutdownRead(u)
  <2>1. Moves(u, pc[u])
    BY <1>1 DEF Close, ShutdownRead, Moves, queVars
  <2> QED
    BY <1>t, <2>1, MoveStep
<1>2. CASE \/ DirectSend(u) \/ DirectDone(u) \/ ShutdownWrite(u) \/ ShutdownConn(u)
           \/ BeginRecv(u) \/ StartRecv(u)
  <2>1. PICK l : /\ pc' = [pc EXCEPT ![u] = l]
                 /\ l \in {"idle", "direct", "loadLock", "startRecv", "recv"}
    BY <1>2 DEF DirectSend, DirectDone, ShutdownWrite, ShutdownConn, BeginRecv, StartRecv, Goto
  <2>2. pc[u] \in {"idle", "direct", "loadLock", "startRecv"} /\ sendLock' = sendLock /\ que' = que
    BY <1>2 DEF DirectSend, DirectDone, ShutdownWrite, ShutdownConn, BeginRecv, StartRecv, At,
       queVars
  <2>3. Moves(u, l)
    BY <1>t, <2>1, <2>2 DEF Moves, Holds, Tries
  <2> QED
    BY <1>t, <2>3, MoveStep
<1>3. CASE Recv(u)
  <2>1. pc[u] = "recv" /\ sendLock' = sendLock /\ que' = que
    BY <1>3 DEF Recv, At, queVars
  <2>2. CASE "close" \in conn
    <3>1. Moves(u, "ioDone")
      BY <1>t, <1>3, <2>1, <2>2 DEF Recv, Moves, Holds, Tries
    <3> QED
      BY <1>t, <3>1, MoveStep
  <2>3. CASE "close" \notin conn
    <3>1. pc' = [pc EXCEPT ![u] = "idle", !["recv"] = "inFlight"]
      BY <1>3, <2>3 DEF Recv
    <3>2. \A s \in Threads : /\ Holds(s, pc[s])' <=> Holds(s, pc[s])
                             /\ Tries(s, pc[s])' <=> Tries(s, pc[s])
      BY <1>t, <2>1, <3>1, AioSocketAssumption DEF Holds, Tries
    <3>3. Locked' /\ Attended'
      BY <2>1, <3>2 DEF Locked, Attended, IInv, Closes
    <3> QED
      BY <1>t, <2>1, <3>1, <3>3 DEF IInv, Types, Closes
  <2> QED
    BY <2>2, <2>3
<1> QED
  BY <1>1, <1>2, <1>3 DEF UserStep

-----------------------------------------------------------------------------
(* A task that stops after a failed send keeps the lock, of a session that *)
(* has been closed.                                                        *)
Leaves(t) ==
  /\ At(t, "complete") \/ At(t, "fail") \/ At(t, "failTest")
  /\ Goto(t, "ioDone")
  /\ "close" \in once'
  /\ UNCHANGED <<sendLock, que>>

(* The invariant allows it.                                                *)
LEMMA LeaveStep ==
  ASSUME IInv, Closes, NEW t \in Tasks, Leaves(t)
  PROVE  IInv'
<1>t. t \in Threads /\ t \notin Users /\ DOMAIN pc = Threads
  BY AioSocketAssumption DEF IInv, Types, Threads
<1>1. pc' = [pc EXCEPT ![t] = "ioDone"] /\ Holds(t, pc[t]) /\ ~Holds(t, "ioDone")
  BY <1>t DEF Leaves, Goto, At, Holds
<1>2. \A s \in Threads : Holds(s, pc[s])' => Holds(s, pc[s])
  BY <1>t, <1>1 DEF Holds
<1>3. Locked'
  BY <1>2 DEF Leaves, Locked, IInv
<1>4. Attended'
  BY SMT, <1>t, <1>1 DEF Leaves, Locked, IInv, Attended
<1> QED
  BY <1>t, <1>1, <1>3, <1>4 DEF IInv, Types, Closes, Leaves

(* The lock is released, and may be taken again.                           *)
LEMMA ReleaseStep ==
  ASSUME IInv, Closes, NEW t \in Tasks, Unlock(t) \/ Recheck(t) \/ Recas(t)
  PROVE  IInv'
<1>t. t \in Threads /\ t \notin Users /\ DOMAIN pc = Threads /\ sendLock \in {0, 1}
  BY AioSocketAssumption DEF IInv, Types, Threads
<1>c. Closed' /\ DOMAIN cpc' = Threads /\ ("close" \in once => "close" \in once')
  BY DEF Closes
<1>i. Locked /\ Attended
  BY DEF IInv
<1>h. \A s \in Threads : /\ Holds(s, pc[s])' <=> Holds(s, pc'[s])
                         /\ Tries(s, pc[s])' <=> Tries(s, pc'[s])
  BY DEF Holds, Tries
<1>1. CASE Unlock(t)
  <2>1. pc' = [pc EXCEPT ![t] = "recheck"] /\ sendLock' = 0 /\ pc[t] = "unlock"
    BY <1>1 DEF Unlock, At, Goto
  <2>2. Holds(t, pc[t]) /\ ~Holds(t, pc'[t]) /\ Tries(t, pc'[t])
    BY <1>t, <2>1 DEF Holds, Tries
  <2>3. \A s \in Threads \ {t} : pc'[s] = pc[s]
    BY <1>t, <2>1
  <2>4. \A s \in Threads : ~Holds(s, pc'[s])
    BY <1>t, <1>i, <2>2, <2>3 DEF Locked
  <2>5. Locked'
    BY SMT, <1>h, <2>1, <2>4 DEF Locked
  <2>6. Attended'
    BY <1>t, <1>h, <2>2 DEF Attended
  <2> QED
    BY <1>t, <1>c, <2>1, <2>5, <2>6 DEF IInv, Types
<1>2. CASE Recheck(t)
  <2>1. /\ pc' = [pc EXCEPT ![t] = IF que = <<>> THEN "over" ELSE "recas"] /\ sendLock' = sendLock
        /\ que' = que /\ pc[t] = "recheck"
    BY <1>2 DEF Recheck, At, Goto, queVars
  <2>2. \A s \in Threads : Holds(s, pc'[s]) <=> Holds(s, pc[s])
    BY <1>t, <2>1 DEF Holds
  <2>3. que # <<>> => Tries(t, pc'[t])
    BY <1>t, <2>1 DEF Tries
  <2>4. Locked'
    BY <1>c, <1>i, <1>h, <2>1, <2>2 DEF Locked
  <2>5. Attended'
    BY <1>t, <1>h, <2>1, <2>3 DEF Attended
  <2> QED
    BY <1>t, <1>c, <2>1, <2>4, <2>5 DEF IInv, Types
<1>3. CASE Recas(t)
  <2>1. /\ pc' = [pc EXCEPT ![t] = IF sendLock = 0 THEN "get" ELSE "over"] /\ sendLock' = 1
        /\ pc[t] = "recas"
    BY <1>3 DEF Recas, At, Goto
  <2>2. ~Holds(t, pc[t]) /\ (Holds(t, pc'[t]) <=> sendLock = 0)
    BY <1>t, <2>1 DEF Holds
  <2>3. \A s \in Threads \ {t} : pc'[s] = pc[s]
    BY <1>t, <2>1
  <2>4. Locked'
    BY SMT, <1>t, <1>c, <1>i, <1>h, <2>1, <2>2, <2>3 DEF Locked
  <2>5. Attended'
    BY SMT, <2>1 DEF Attended
  <2> QED
    BY <1>t, <1>c, <2>1, <2>4, <2>5 DEF IInv, Types
<1> QED
  BY <1>1, <1>2, <1>3

(* The other steps of a task.                                              *)
LEMMA TaskMoves ==
  ASSUME IInv, Closes, NEW t \in Tasks, TaskStep(t), ~(Unlock(t) \/ Recheck(t) \/ Recas(t))
  PROVE  IInv'
<1>t. t \in Threads /\ t \notin Users /\ DOMAIN pc = Threads
  BY AioSocketAssumption DEF IInv, Types, Threads
<1>c. "fclosed" \in flag => "close" \in once
  BY DEF IInv, Closed
<1>1. CASE Get(t) \/ Send1(t) \/ (\E r \in {"nil", "timeout", "err"} : Sent(t, r))
           \/ SendOK(t) \/ FailTimeout(t)
  <2>1. PICK l : /\ pc' = [pc EXCEPT ![t] = l]
                 /\ l \in {"send", "inFlight", "complete", "unlock", "get", "failTest"}
    BY <1>1 DEF Get, Send1, Sent, SendOK, FailTimeout, Goto
  <2>2. /\ pc[t] \in {"get", "send", "inFlight", "complete", "fail"}
        /\ sendLock' = sendLock /\ que' \in {que, <<>>}
    BY <1>1 DEF Get, Send1, Sent, SendOK, FailTimeout, At, queVars
  <2>3. Moves(t, l)
    BY <1>t, <2>1, <2>2 DEF Moves, Holds, Tries
  <2> QED
    BY <1>t, <2>3, MoveStep
<1>2. CASE Over(t)
  <2>1. Moves(t, "ioDone")
    BY <1>t, <1>2 DEF Over, Moves, Goto, At, Holds, Tries, queVars
  <2> QED
    BY <1>t, <2>1, MoveStep
<1>3. CASE SendFailed(t)
  <2>1. CASE "fclosed" \in flag
    <3>1. Leaves(t)
      BY <1>3, <1>c, <2>1 DEF SendFailed, Leaves, queVars, closeVars
    <3> QED
      BY <3>1, LeaveStep
  <2>2. CASE "fclosed" \notin flag
    <3>1. Moves(t, "fail")
      BY <1>t, <1>3, <2>2 DEF SendFailed, Moves, Goto, At, Holds, Tries, queVars
    <3> QED
      BY <1>t, <3>1, MoveStep
  <2> QED
    BY <2>1, <2>2
<1>4. CASE Fail(t)
  <2>1. "close" \in once'
    BY <1>4 DEF Fail, CloseCall, closeVars
  <2>2. Leaves(t)
    BY <1>4, <2>1 DEF Fail, Leaves, queVars
  <2> QED
    BY <2>2, LeaveStep
<1>5. CASE FailTest(t)
  <2>1. CASE "fclosed" \in flag
    <3>1. Leaves(t)
      BY <1>5, <1>c, <2>1 DEF FailTest, Leaves, queVars, closeVars
    <3> QED
      BY <3>1, LeaveStep
  <2>2. CASE "fclosed" \notin flag
    <3>1. Moves(t, "send")
      BY <1>t, <1>5, <2>2 DEF FailTest, Moves, Goto, At, Holds, Tries, queVars
    <3> QED
      BY <1>t, <3>1, MoveStep
  <2> QED
    BY <2>1, <2>2
<1> QED
  BY <1>1, <1>2, <1>3, <1>4, <1>5 DEF TaskStep

(* The goroutines in Close, in ioDone and in the receive.                  *)
LEMMA ThreadMoves ==
  ASSUME IInv, Closes, NEW t \in Threads, ThreadStep(t)
  PROVE  IInv'
<1>t. DOMAIN pc = Threads
  BY DEF IInv, Types
<1>1. CASE \/ CloseSetClosed(t) \/ CloseQueue(t) \/ CloseSetDoClose(t) \/ CloseLoadIO(t)
           \/ CloseDoClose(t)
  <2>1. pc' = pc /\ sendLock' = sendLock /\ que' = que
    BY <1>1 DEF CloseSetClosed, CloseQueue, CloseSetDoClose, CloseLoadIO, CloseDoClose, queVars
  <2>2. Moves(t, pc[t])
    BY <2>1 DEF Moves
  <2> QED
    BY <2>2, MoveStep
<1>2. CASE IoDone(t) \/ IoTest(t) \/ IoClose(t)
  <2>1. PICK l : pc' = [pc EXCEPT ![t] = l] /\ l \in {"ioTest", "ioClose", "idle"}
    BY <1>2 DEF IoDone, IoTest, IoClose, Goto
  <2>2. pc[t] \in {"ioDone", "ioTest", "ioClose"} /\ sendLock' = sendLock /\ que' = que
    BY <1>2 DEF IoDone, IoTest, IoClose, At, queVars
  <2>3. Moves(t, l)
    BY <1>t, <2>1, <2>2 DEF Moves, Holds, Tries
  <2> QED
    BY <2>3, MoveStep
<1> QED
  BY <1>1, <1>2 DEF ThreadStep

(* The receive neither has nor takes the lock.                             *)
LEMMA RecvMoves ==
  ASSUME IInv, Closes, RecvStep
  PROVE  IInv'
<1>t. "recv" \in Threads /\ "recv" \notin Users /\ "recv" \notin Tasks
  BY AioSocketAssumption DEF Threads
<1>1. sendLock' = sendLock /\ que' = que
  BY DEF RecvStep, Received, RecvComplete, RecvReport, Unpack, RecvAgain, queVars
<1>2. pc' = pc \/ \E l : pc' = [pc EXCEPT !["recv"] = l]
  BY DEF RecvStep, Received, RecvComplete, RecvReport, Unpack, RecvAgain, Goto
<1>3. PICK l : pc' \in {pc, [pc EXCEPT !["recv"] = l]}
  BY <1>2
<1>4. Moves("recv", l)
  BY <1>t, <1>1, <1>3 DEF Moves, Holds, Tries
<1> QED
  BY <1>t, <1>4, MoveStep

(* Nor does the goroutine of a delayed Close.                              *)
LEMMA WaiterMoves ==
  ASSUME IInv, Closes, NEW how, Waiter(how)
  PROVE  IInv'
<1>1. Moves("recv", pc["recv"])
  BY DEF Waiter, Moves, queVars
<1> QED
  BY <1>1, MoveStep DEF Threads

-----------------------------------------------------------------------------
(* Every step keeps the invariant.                                         *)
LEMMA NextIInv == IInv /\ [Next]_vars => IInv'
<1> SUFFICES ASSUME IInv, [Next]_vars
             PROVE  IInv'
  OBVIOUS
<1>1. CASE Next
  <2>1. Closes
    BY <1>1, ClosesStep
  <2> QED
    BY <1>1, <2>1, SendStep, UserMoves, ReleaseStep, TaskMoves, ThreadMoves, RecvMoves,
       WaiterMoves DEF Next
<1>2. CASE UNCHANGED vars
  BY <1>2 DEF vars, queVars, closeVars, IInv, Types, Locked, Attended, Closed, Holds, Tries
<1> QED
  BY <1>1, <1>2

(* The lock has at most one holder, a task is about to take it when it is  *)
(* free and messages are queued, and fclosed is set after closeOnce.       *)
THEOREM Invariance == Spec => []IInv
  BY InitIInv, NextIInv, PTL DEF Spec

(* However many goroutines send, one task at a time uses the send context, *)
(* only with sendLock, which stays taken only when the session is closed;  *)
(* and no queued message is forgotten in the window of onSendComplete      *)
(* between the release of the lock and the second look at the queue.       *)
THEOREM OneSender == Spec => []SendersSound
<1>1. IInv => SendersSound
  <2> SUFFICES ASSUME IInv
               PROVE  SendersSound
    OBVIOUS
  <2>1. \A s : s \in Holders <=> s \in Threads /\ Holds(s, pc[s])
    BY DEF Holders, Holds, Threads
  <2>2. Holders = {} \/ \E s : Holders = {s}
    <3>1. \A s, t : s \in Holders /\ t \in Holders => s = t
      BY <2>1 DEF IInv, Locked
    <3> HIDE DEF Holders
    <3>2. ASSUME NEW s \in Holders
          PROVE  Holders = {s}
      BY SMT, <3>1, <3>2
    <3> QED
      BY <3>2
  <2>3. Cardinality(Holders) <= 1
    <3>1. CASE Holders = {}
      <4>1. Cardinality(Holders) = 0
        BY <3>1, FS_EmptySet, Zenon
      <4> QED
        BY SMT, <4>1
    <3>2. ASSUME NEW s, Holders = {s}
          PROVE  Cardinality(Holders) <= 1
      <4>1. Cardinality(Holders) = 1
        BY <3>2, FS_Singleton, Zenon
      <4> QED
        BY SMT, <4>1
    <3> QED
      BY <2>2, <3>1, <3>2
  <2>4. SingleSender
    BY <2>1, <2>3 DEF SingleSender, IInv, Locked
  <2>5. NoStrandedMessage
    BY DEF NoStrandedMessage, IInv, Attended, Tries, Threads
  <2> QED
    BY <2>4, <2>5 DEF SendersSound
<1> QED
  BY <1>1, Invariance, PTL
-----------------------------------------------------------------------------
(* The second invariant: what ioCount counts, who still has to call        *)
(* closeCallBack or to close the write side, and where messages are.       *)

(* Where each kind of goroutine can be.                                    *)
UserPoints == {"idle", "casSend", "startSend", "direct", "loadLock", "startRecv", "recv",
               "ioDone", "ioTest", "ioClose"}
TaskPoints == {"idle", "get", "send", "inFlight", "complete", "unlock", "recheck", "recas",
               "over", "fail", "failTest", "ioDone", "ioTest", "ioClose"}
RecvPoints == {"idle", "inFlight", "complete", "report", "unpack", "again", "ioDone", "ioTest",
               "ioClose"}

(* The types, and that closeCallBack was called if doCloseOnce was taken.  *)
Data ==
  /\ ops \in OpSets /\ errorCallback \in BOOLEAN
  /\ flag \subseteq {"fclosed", "frclosed", "fdoclose"}
  /\ once \subseteq {"begin", "close", "doClose"}
  /\ queClosed \in BOOLEAN
  /\ conn \subseteq {"closeRead", "closeWrite", "close"}
  /\ sendOverChan \in BOOLEAN /\ panicked \in BOOLEAN
  /\ waiter \in {"off", "wait", "over", "tick"}
  /\ res \in [Tasks -> {"nil", "timeout", "err"}]
  /\ got \in {"none", "data", "timeout", "err"}
  /\ cbCount = IF "doClose" \in once THEN 1 ELSE 0

(* Each goroutine is where its kind can be.                                *)
Points ==
  /\ DOMAIN pc = Threads /\ DOMAIN cpc = Threads
  /\ \A u \in Users : pc[u] \in UserPoints
  /\ \A t \in Tasks : pc[t] \in TaskPoints
  /\ pc["recv"] \in RecvPoints

(* BeginRecv starts the receive once.                                      *)
RecvOnce ==
  /\ \A u \in Users : pc[u] \in {"startRecv", "recv"} => "begin" \in once /\ pc["recv"] = "idle"
  /\ \A u, v \in Users : pc[u] \in {"startRecv", "recv"} /\ pc[v] \in {"startRecv", "recv"} => u = v
  /\ pc["recv"] # "idle" => "begin" \in once

(* t counts in ioCount when it is at l.                                    *)
Counted(t, l) == IF t \in Users THEN l \in {"recv", "ioDone"}
                 ELSE l \notin {"idle", "ioTest", "ioClose"}

InIO == {t \in Threads : Counted(t, pc[t])}

(* ioCount is the number of goroutines that count in it.                   *)
CountInv == IsFiniteSet(InIO) /\ ioCount = Cardinality(InIO)

(* A Close that took closeOnce sets fdoclose or is about to; and once it   *)
(* is set, somebody will see it and call closeCallBack.                    *)
ClosePending ==
  /\ "close" \in once =>
       "fdoclose" \in flag \/ \E t \in Threads : cpc[t] \in {"setClosed", "closeQueue", "setDoClose"}
  /\ "fdoclose" \in flag /\ "doClose" \notin once =>
       \/ InIO # {}
       \/ \E t \in Threads : pc[t] \in {"ioTest", "ioClose"} \/ cpc[t] \in {"loadIO", "doClose"}

(* t will look at the closed queue, or is about to shut the write side.    *)
EndsWrite(t, l) == Holds(t, l) \/ Tries(t, l) \/ (t \in Tasks /\ l = "over")

(* After the queue is closed, or the session, the write side is shut or    *)
(* somebody will do it.                                                    *)
WriteEnds ==
  /\ queClosed =>
       \/ "closeWrite" \in conn \/ "close" \in once
       \/ \E t \in Threads : (t \in Users /\ pc[t] = "loadLock") \/ EndsWrite(t, pc[t])
  /\ "close" \in once =>
       \/ "closeWrite" \in conn \/ waiter = "wait"
       \/ \E t \in Threads : cpc[t] \in {"setClosed", "closeQueue"}

(* The buffer of t holds messages that it still has to write.              *)
Buffered(t) == pc[t] \in {"send", "inFlight", "complete", "fail", "failTest"}

(* The types of the lists of messages.                                     *)
Lists ==
  /\ sent \in 0..MaxMsgs
  /\ que \in Seq(1..MaxMsgs) /\ Len(que) <= QueueSize
  /\ b \in [Tasks -> Seq(1..MaxMsgs)]
  /\ wire \in Seq(0..MaxMsgs)

(* Every message of r was sent before every message of s.                  *)
Below(r, s) == \A i \in DOMAIN r, j \in DOMAIN s : r[i] < s[j]

(* The messages of s are among the first n.                                *)
UpTo(n, s) == \A i \in DOMAIN s : s[i] <= n

(* What is on the wire comes before what is in the buffer of the task that *)
(* sends, and that before what is queued.                                  *)
Ordered ==
  /\ WireInOrder /\ UpTo(sent, wire)
  /\ Increasing(que) /\ UpTo(sent, que) /\ Below(wire, que)
  /\ \A t \in Tasks : Buffered(t) =>
       /\ Increasing(b[t]) /\ UpTo(sent, b[t])
       /\ Below(wire, b[t]) /\ Below(b[t], que)

(* The second invariant.                                                   *)
JInv == Data /\ Points /\ RecvOnce /\ CountInv /\ ClosePending /\ WriteEnds /\ Lists /\ Ordered

(* A step that moves t to l, both counted or both not, and neither starts  *)
(* a receive nor ends an operation.                                        *)
Ordinary(t, l) ==
  /\ pc' = [pc EXCEPT ![t] = l]
  /\ ioCount' = ioCount
  /\ pc[t] \notin {"ioTest", "ioClose"}
  /\ l \notin {"ioTest", "ioClose"}
  /\ Counted(t, l) <=> Counted(t, pc[t])
  /\ t \in Users => l \in UserPoints \ {"startRecv", "recv"}
  /\ t \in Tasks => l \in TaskPoints
  /\ t = "recv" => l \in RecvPoints /\ pc["recv"] # "idle"

(* How a step changes where the goroutines are.                            *)
LEMMA PcStep ==
  ASSUME Points, Next
  PROVE  \/ UNCHANGED <<pc, ioCount>>
         \/ \E t \in Threads : \E l : Ordinary(t, l)
         \/ \E u \in Users : StartSend(u) \/ BeginRecv(u) \/ StartRecv(u) \/ Recv(u)
         \/ \E t \in Threads : IoDone(t) \/ IoTest(t) \/ IoClose(t)
<1> DEFINE Goal == \/ UNCHANGED <<pc, ioCount>>
                   \/ \E t \in Threads : \E l : Ordinary(t, l)
                   \/ \E u \in Users : StartSend(u) \/ BeginRecv(u) \/ StartRecv(u) \/ Recv(u)
                   \/ \E t \in Threads : IoDone(t) \/ IoTest(t) \/ IoClose(t)
<1>k. /\ Users \subseteq Threads /\ Tasks \subseteq Threads /\ "recv" \in Threads
      /\ Users \cap Tasks = {} /\ "recv" \notin Users /\ "recv" \notin Tasks
  BY AioSocketAssumption DEF Threads
<1>1. ASSUME NEW u \in Users, UserStep(u)
      PROVE  Goal
  <2>1. CASE (\E d \in BOOLEAN : Close(u, d)) \/ ShutdownRead(u)
    BY <2>1 DEF Close, ShutdownRead
  <2>2. CASE StartSend(u) \/ BeginRecv(u) \/ StartRecv(u) \/ Recv(u)
    BY <2>2
  <2>3. CASE \/ Send(u) \/ CasSend(u) \/ DirectSend(u) \/ DirectDone(u) \/ ShutdownWrite(u)
             \/ ShutdownConn(u)
    <3>1. PICK l \in {"idle", "casSend", "startSend", "direct", "loadLock"} :
            pc' = [pc EXCEPT ![u] = l]
      BY <2>3 DEF Send, CasSend, DirectSend, DirectDone, ShutdownWrite, ShutdownConn, Goto
    <3>2. /\ pc[u] \in {"idle", "casSend", "direct", "loadLock"} /\ ioCount' = ioCount
      BY <2>3 DEF Send, CasSend, DirectSend, DirectDone, ShutdownWrite, ShutdownConn, At
    <3>3. Ordinary(u, l)
      BY <1>k, <3>1, <3>2 DEF Ordinary, Counted, UserPoints
    <3> QED
      BY <1>k, <3>3
  <2> QED
    BY <1>1, <2>1, <2>2, <2>3 DEF UserStep
<1>2. ASSUME NEW t \in Tasks, TaskStep(t)
      PROVE  Goal
  <2>1. PICK l \in TaskPoints \ {"idle", "ioTest", "ioClose"} : pc' = [pc EXCEPT ![t] = l]
    BY <1>2 DEF TaskStep, Get, Send1, Sent, SendOK, Unlock, Recheck, Recas, Over, SendFailed, Fail,
       FailTimeout, FailTest, Goto, TaskPoints
  <2>2. pc[t] \notin {"idle", "ioTest", "ioClose"} /\ ioCount' = ioCount
    BY <1>2 DEF TaskStep, Get, Send1, Sent, SendOK, Unlock, Recheck, Recas, Over, SendFailed, Fail,
       FailTimeout, FailTest, At
  <2>3. Ordinary(t, l)
    BY <1>k, <2>1, <2>2 DEF Ordinary, Counted
  <2> QED
    BY <1>k, <2>3
<1>3. ASSUME NEW t \in Threads, ThreadStep(t)
      PROVE  Goal
  BY <1>3 DEF ThreadStep, CloseSetClosed, CloseQueue, CloseSetDoClose, CloseLoadIO, CloseDoClose
<1>4. ASSUME NEW how, Waiter(how)
      PROVE  Goal
  BY <1>4 DEF Waiter
<1>5. ASSUME RecvStep
      PROVE  Goal
  <2>1. /\ pc["recv"] \in {"inFlight", "complete", "report", "unpack", "again"}
        /\ ioCount' = ioCount
    BY <1>5 DEF RecvStep, Received, RecvComplete, RecvReport, Unpack, RecvAgain, At
  <2>2. \/ pc' = pc
        \/ \E l \in {"inFlight", "complete", "report", "unpack", "again", "ioDone"} :
             pc' = [pc EXCEPT !["recv"] = l]
    BY <1>5 DEF RecvStep, Received, RecvComplete, RecvReport, Unpack, RecvAgain, Goto
  <2>3. ASSUME NEW l \in {"inFlight", "complete", "report", "unpack", "again", "ioDone"},
               pc' = [pc EXCEPT !["recv"] = l]
        PROVE  Ordinary("recv", l)
    BY <1>k, <2>1, <2>3 DEF Ordinary, Counted, RecvPoints
  <2> QED
    BY <1>k, <2>1, <2>2, <2>3
<1> QED
  BY <1>1, <1>2, <1>3, <1>4, <1>5 DEF Next
(* How a step changes where the goroutines are inside Close.               *)
LEMMA CpcStep ==
  ASSUME Points, Next
  PROVE  \/ cpc' = cpc /\ ("close" \in once' => "close" \in once)
         \/ \E t \in Threads : cpc[t] = "none" /\ cpc' = [cpc EXCEPT ![t] = "setClosed"]
         \/ \E t \in Threads : \/ CloseSetClosed(t) \/ CloseQueue(t) \/ CloseSetDoClose(t)
                               \/ CloseLoadIO(t) \/ CloseDoClose(t)
<1> DEFINE Calls == \/ cpc' = cpc /\ ("close" \in once' => "close" \in once)
                    \/ \E t \in Threads : cpc[t] = "none" /\ cpc' = [cpc EXCEPT ![t] = "setClosed"]
<1>k. /\ Users \subseteq Threads /\ Tasks \subseteq Threads /\ "recv" \in Threads
  BY DEF Threads
<1>c. ASSUME NEW t \in Threads, NEW d, cpc[t] = "none", CloseCall(t, d)
      PROVE  Calls
  BY <1>c DEF CloseCall, GotoClose, closeVars
<1>b. ASSUME NEW t \in Threads, cpc[t] = "none", CallBack(t)
      PROVE  Calls
  BY <1>b, <1>c DEF CallBack, closeVars
<1>1. ASSUME NEW u \in Users, UserStep(u)
      PROVE  Calls
  <2>1. CASE \E d \in BOOLEAN : Close(u, d)
    BY <1>k, <1>c, <2>1 DEF Close, At
  <2>2. CASE BeginRecv(u)
    BY <2>2 DEF BeginRecv
  <2>3. CASE \/ Send(u) \/ CasSend(u) \/ StartSend(u) \/ DirectSend(u) \/ DirectDone(u)
             \/ ShutdownRead(u) \/ ShutdownWrite(u) \/ ShutdownConn(u) \/ StartRecv(u) \/ Recv(u)
    BY <2>3 DEF Send, CasSend, StartSend, DirectSend, DirectDone, ShutdownRead, ShutdownWrite,
       ShutdownConn, StartRecv, Recv, closeVars
  <2> QED
    BY <1>1, <2>1, <2>2, <2>3 DEF UserStep
<1>2. ASSUME NEW t \in Tasks, TaskStep(t)
      PROVE  Calls
  <2>1. CASE Fail(t) \/ FailTimeout(t)
    BY <1>k, <1>c, <1>b, <2>1 DEF Fail, FailTimeout, At
  <2>2. CASE ~(Fail(t) \/ FailTimeout(t))
    BY <1>2, <2>2 DEF TaskStep, Get, Send1, Sent, SendOK, Unlock, Recheck, Recas, Over, SendFailed,
       FailTest, closeVars
  <2> QED
    BY <2>1, <2>2
<1>3. ASSUME NEW t \in Threads, IoDone(t) \/ IoTest(t) \/ IoClose(t)
      PROVE  Calls
  BY <1>3 DEF IoDone, IoTest, IoClose, DoClose, closeVars
<1>4. ASSUME NEW how, Waiter(how)
      PROVE  Calls
  BY <1>4 DEF Waiter, closeVars
<1>5. ASSUME RecvStep
      PROVE  Calls
  BY <1>5, <1>k, <1>c, <1>b DEF RecvStep, Received, RecvComplete, RecvReport, Unpack, RecvAgain, At,
     closeVars
<1> QED
  BY <1>1, <1>2, <1>3, <1>4, <1>5 DEF Next, ThreadStep

(* The flags, the once words and what the connection has seen only grow.   *)
LEMMA Grows ==
  ASSUME Next
  PROVE  once \subseteq once' /\ flag \subseteq flag' /\ conn \subseteq conn'
<1>c. ASSUME NEW t, NEW d, CloseCall(t, d)
      PROVE  once \subseteq once'
  BY <1>c DEF CloseCall, closeVars
<1>b. ASSUME NEW t, CallBack(t)
      PROVE  once \subseteq once'
  BY <1>b, <1>c DEF CallBack, closeVars
<1>1. ASSUME NEW u \in Users, UserStep(u)
      PROVE  once \subseteq once' /\ flag \subseteq flag' /\ conn \subseteq conn'
  <2>1. CASE \E d \in BOOLEAN : Close(u, d)
    BY <1>c, <2>1 DEF Close, netVars
  <2>2. CASE ~\E d \in BOOLEAN : Close(u, d)
    <3>1. once \subseteq once'
      BY <1>1, <2>2 DEF UserStep, Send, CasSend, StartSend, DirectSend, DirectDone, ShutdownRead,
         ShutdownWrite, ShutdownConn, BeginRecv, StartRecv, Recv, closeVars
    <3>2. flag \subseteq flag'
      BY <1>1, <2>2 DEF UserStep, Send, CasSend, StartSend, DirectSend, DirectDone, ShutdownRead,
         ShutdownWrite, ShutdownConn, BeginRecv, StartRecv, Recv
    <3>3. conn \subseteq conn'
      BY <1>1, <2>2 DEF UserStep, Send, CasSend, StartSend, DirectSend, DirectDone, ShutdownRead,
         ShutdownWrite, ShutdownConn, BeginRecv, StartRecv, Recv, netVars
    <3> QED
      BY <3>1, <3>2, <3>3
  <2> QED
    BY <2>1, <2>2
<1>2. ASSUME NEW t \in Tasks, TaskStep(t)
      PROVE  once \subseteq once' /\ flag \subseteq flag' /\ conn \subseteq conn'
  <2>1. flag' = flag
    BY <1>2 DEF TaskStep, Get, Send1, Sent, SendOK, Unlock, Recheck, Recas, Over, SendFailed, Fail,
       FailTimeout, FailTest
  <2>2. conn \subseteq conn'
    BY <1>2 DEF TaskStep, Get, Send1, Sent, SendOK, Unlock, Recheck, Recas, Over, SendFailed, Fail,
       FailTimeout, FailTest, netVars
  <2>3. once \subseteq once'
    BY <1>2, <1>c, <1>b DEF TaskStep, Get, Send1, Sent, SendOK, Unlock, Recheck, Recas, Over,
       SendFailed, Fail, FailTimeout, FailTest, closeVars
  <2> QED
    BY <2>1, <2>2, <2>3
<1>3. ASSUME NEW t \in Threads, ThreadStep(t)
      PROVE  once \subseteq once' /\ flag \subseteq flag' /\ conn \subseteq conn'
  BY <1>3 DEF ThreadStep, CloseSetClosed, CloseQueue, CloseSetDoClose, CloseLoadIO, CloseDoClose,
     IoDone, IoTest, IoClose, DoClose, closeVars, netVars
<1>4. ASSUME NEW how, Waiter(how)
      PROVE  once \subseteq once' /\ flag \subseteq flag' /\ conn \subseteq conn'
  BY <1>4 DEF Waiter, closeVars
<1>5. ASSUME RecvStep
      PROVE  once \subseteq once' /\ flag \subseteq flag' /\ conn \subseteq conn'
  <2>1. once \subseteq once'
    BY <1>5, <1>c, <1>b DEF RecvStep, Received, RecvComplete, RecvReport, Unpack, RecvAgain,
       closeVars
  <2>2. flag \subseteq flag' /\ conn' = conn
    BY <1>5 DEF RecvStep, Received, RecvComplete, RecvReport, Unpack, RecvAgain, netVars
  <2> QED
    BY <2>1, <2>2
<1> QED
  BY <1>1, <1>2, <1>3, <1>4, <1>5 DEF Next

(* Goroutines stay where their kind can be.                                *)
LEMMA PointsStep ==
  ASSUME Points, Next
  PROVE  Points'
<1>k. /\ Users \subseteq Threads /\ Tasks \subseteq Threads /\ "recv" \in Threads
      /\ Users \cap Tasks = {} /\ "recv" \notin Users /\ "recv" \notin Tasks
      /\ \A t \in Threads : t \in Users \/ t \in Tasks \/ t = "recv"
  BY AioSocketAssumption DEF Threads
<1> DEFINE Kind(t, l) == /\ t \in Users => l \in UserPoints
                         /\ t \in Tasks => l \in TaskPoints
                         /\ t = "recv" => l \in RecvPoints
<1>i. DOMAIN pc = Threads /\ \A t \in Threads : Kind(t, pc[t])
  BY DEF Points
<1>1. DOMAIN pc' = Threads /\ \A t \in Threads : Kind(t, pc'[t])
  <2>1. ASSUME NEW t \in Threads, NEW l, pc' = [pc EXCEPT ![t] = l], Kind(t, l)
        PROVE  DOMAIN pc' = Threads /\ \A s \in Threads : Kind(s, pc'[s])
    BY <1>i, <2>1
  <2>2. CASE pc' = pc
    BY <1>i, <2>2
  <2>3. ASSUME NEW t \in Threads, NEW l, Ordinary(t, l)
        PROVE  DOMAIN pc' = Threads /\ \A s \in Threads : Kind(s, pc'[s])
    BY <2>1, <2>3 DEF Ordinary
  <2>4. ASSUME NEW u \in Users, StartSend(u)
        PROVE  DOMAIN pc' = Threads /\ \A s \in Threads : Kind(s, pc'[s])
    <3>1. PICK t \in Tasks : pc' = [pc EXCEPT ![u] = "idle", ![t] = "get"]
      BY <2>4 DEF StartSend
    <3> QED
      BY <1>k, <1>i, <3>1 DEF UserPoints, TaskPoints
  <2>5. ASSUME NEW u \in Users, BeginRecv(u) \/ StartRecv(u)
        PROVE  DOMAIN pc' = Threads /\ \A s \in Threads : Kind(s, pc'[s])
    <3>1. PICK l \in {"idle", "startRecv", "recv"} : pc' = [pc EXCEPT ![u] = l]
      BY <2>5 DEF BeginRecv, StartRecv, Goto
    <3>2. Kind(u, l)
      BY <1>k DEF UserPoints
    <3> QED
      BY <1>k, <2>1, <3>1, <3>2
  <2>6. ASSUME NEW u \in Users, Recv(u)
        PROVE  DOMAIN pc' = Threads /\ \A s \in Threads : Kind(s, pc'[s])
    <3>1. \/ pc' = [pc EXCEPT ![u] = "ioDone"]
          \/ pc' = [pc EXCEPT ![u] = "idle", !["recv"] = "inFlight"]
      BY <2>6 DEF Recv
    <3>2. Kind(u, "ioDone")
      BY <1>k DEF UserPoints
    <3>3. CASE pc' = [pc EXCEPT ![u] = "idle", !["recv"] = "inFlight"]
      BY <1>k, <1>i, <3>3 DEF UserPoints, RecvPoints
    <3> QED
      BY <1>k, <2>1, <3>1, <3>2, <3>3
  <2>7. ASSUME NEW t \in Threads, IoDone(t) \/ IoTest(t) \/ IoClose(t)
        PROVE  DOMAIN pc' = Threads /\ \A s \in Threads : Kind(s, pc'[s])
    <3>1. PICK l \in {"idle", "ioTest", "ioClose"} : pc' = [pc EXCEPT ![t] = l]
      BY <2>7 DEF IoDone, IoTest, IoClose, Goto
    <3>2. Kind(t, l)
      BY DEF UserPoints, TaskPoints, RecvPoints
    <3> QED
      BY <2>1, <3>1, <3>2
  <2> QED
    BY PcStep, <2>2, <2>3, <2>4, <2>5, <2>6, <2>7
<1>2. DOMAIN cpc' = Threads
  <2>1. DOMAIN cpc = Threads
    BY DEF Points
  <2>2. cpc' = cpc \/ \E t, l : cpc' = [cpc EXCEPT ![t] = l]
    BY CpcStep DEF CloseSetClosed, CloseQueue, CloseSetDoClose, CloseLoadIO, CloseDoClose, GotoClose
  <2> QED
    BY <2>1, <2>2
<1> QED
  BY <1>k, <1>1, <1>2 DEF Points

(* BeginRecv wins beginOnce once, so that one goroutine starts a receive.  *)
LEMMA RecvOnceStep ==
  ASSUME Points, RecvOnce, Next
  PROVE  RecvOnce'
<1>k. /\ Users \subseteq Threads /\ Tasks \subseteq Threads /\ "recv" \in Threads
      /\ Users \cap Tasks = {} /\ "recv" \notin Users /\ "recv" \notin Tasks
  BY AioSocketAssumption DEF Threads
<1>d. DOMAIN pc = Threads
  BY DEF Points
<1>o. "begin" \in once => "begin" \in once'
  BY Grows
<1> DEFINE Starts(l) == l \in {"startRecv", "recv"}
<1>0. ASSUME \A u \in Users : Starts(pc'[u]) => Starts(pc[u]),
             pc'["recv"] = "idle" <=> pc["recv"] = "idle"
      PROVE  RecvOnce'
  BY <1>0, <1>o DEF RecvOnce
<1>1. CASE pc' = pc
  BY <1>0, <1>1
<1>2. ASSUME NEW t \in Threads, NEW l, Ordinary(t, l)
      PROVE  RecvOnce'
  <2>1. \A u \in Users : Starts(pc'[u]) => Starts(pc[u])
    BY <1>2, <1>k, <1>d DEF Ordinary
  <2>2. pc'["recv"] = "idle" => pc["recv"] = "idle"
    BY <1>2, <1>k, <1>d DEF Ordinary, Counted
  <2>3. pc["recv"] = "idle" => pc'["recv"] = "idle"
    BY <1>2, <1>k, <1>d DEF Ordinary
  <2> QED
    BY <1>0, <2>1, <2>2, <2>3
<1>3. ASSUME NEW u \in Users, StartSend(u)
      PROVE  RecvOnce'
  <2>1. PICK t \in Tasks : pc' = [pc EXCEPT ![u] = "idle", ![t] = "get"]
    BY <1>3 DEF StartSend
  <2>2. \A v \in Users : Starts(pc'[v]) => Starts(pc[v])
    BY <1>k, <1>d, <2>1
  <2> QED
    BY <1>0, <1>k, <1>d, <2>1, <2>2
<1>4. ASSUME NEW u \in Users, BeginRecv(u)
      PROVE  RecvOnce'
  <2>1. "begin" \notin once /\ "begin" \in once'
    BY <1>4 DEF BeginRecv
  <2>2. PICK l : pc' = [pc EXCEPT ![u] = l]
    BY <1>4 DEF BeginRecv, Goto
  <2>3. pc["recv"] = "idle" /\ \A v \in Users : ~Starts(pc[v])
    BY <2>1 DEF RecvOnce
  <2> QED
    BY <1>k, <1>d, <2>1, <2>2, <2>3 DEF RecvOnce
<1>5. ASSUME NEW u \in Users, StartRecv(u)
      PROVE  RecvOnce'
  <2>1. pc' = [pc EXCEPT ![u] = "recv"] /\ pc[u] = "startRecv"
    BY <1>5 DEF StartRecv, Goto, At
  <2> QED
    BY <1>0, <1>k, <1>d, <2>1
<1>6. ASSUME NEW u \in Users, Recv(u)
      PROVE  RecvOnce'
  <2>1. pc[u] = "recv" /\ "begin" \in once'
    BY <1>6, <1>o DEF Recv, At, RecvOnce
  <2>2. \A v \in Users : Starts(pc[v]) => v = u
    BY <2>1 DEF RecvOnce
  <2>3. \A v \in Users : ~Starts(pc'[v])
    BY <1>6, <1>k, <1>d, <2>1, <2>2 DEF Recv
  <2> QED
    BY <2>1, <2>3 DEF RecvOnce
<1>7. ASSUME NEW t \in Threads, IoDone(t) \/ IoTest(t) \/ IoClose(t)
      PROVE  RecvOnce'
  <2>1. PICK l \in {"idle", "ioTest", "ioClose"} : pc' = [pc EXCEPT ![t] = l]
    BY <1>7 DEF IoDone, IoTest, IoClose, Goto
  <2>2. pc[t] \in {"ioDone", "ioTest", "ioClose"}
    BY <1>7 DEF IoDone, IoTest, IoClose, At
  <2>3. \A v \in Users : Starts(pc'[v]) => Starts(pc[v]) /\ v # t
    BY <1>k, <1>d, <2>1
  <2>4. pc'["recv"] # "idle" => pc["recv"] # "idle"
    BY <1>k, <1>d, <2>1, <2>2
  <2>5. \A v \in Users : Starts(pc'[v]) => pc'["recv"] = "idle"
    BY <1>k, <1>d, <2>1, <2>2, <2>3 DEF RecvOnce
  <2> QED
    BY <1>o, <2>3, <2>4, <2>5 DEF RecvOnce
<1> QED
  BY PcStep, <1>1, <1>2, <1>3, <1>4, <1>5, <1>6, <1>7

(* ioCount is the number of operations in progress.                        *)
LEMMA CountStep ==
  ASSUME Points, RecvOnce, CountInv, Next
  PROVE  CountInv'
<1>k. /\ Users \subseteq Threads /\ Tasks \subseteq Threads /\ "recv" \in Threads
      /\ Users \cap Tasks = {} /\ "recv" \notin Users /\ "recv" \notin Tasks
  BY AioSocketAssumption DEF Threads
<1>d. DOMAIN pc = Threads
  BY DEF Points
<1>p. \A s : s \in InIO' <=> s \in Threads /\ Counted(s, pc'[s])
  BY DEF InIO, Counted
<1>i. IsFiniteSet(InIO) /\ ioCount = Cardinality(InIO) /\ ioCount \in Nat
  BY FS_CardinalityType DEF CountInv
<1>s. ASSUME InIO' = InIO, ioCount' = ioCount
      PROVE  CountInv'
  BY <1>s, <1>i DEF CountInv
<1>a. ASSUME NEW t, t \notin InIO, InIO' = InIO \cup {t}, ioCount' = ioCount + 1
      PROVE  CountInv'
  BY <1>a, <1>i, FS_AddElement DEF CountInv
<1>r. ASSUME NEW t \in InIO, InIO' = InIO \ {t}, ioCount' = ioCount - 1
      PROVE  CountInv'
  BY <1>r, <1>i, FS_RemoveElement DEF CountInv
<1>1. CASE UNCHANGED <<pc, ioCount>>
  BY <1>1, <1>s DEF InIO, Counted
<1>2. ASSUME NEW t \in Threads, NEW l, Ordinary(t, l)
      PROVE  CountInv'
  <2>1. \A s \in Threads : Counted(s, pc'[s]) <=> Counted(s, pc[s])
    BY <1>2, <1>d DEF Ordinary
  <2>2. InIO' = InIO
    BY <1>p, <2>1 DEF InIO
  <2> QED
    BY <1>2, <1>s, <2>2 DEF Ordinary
<1>3. ASSUME NEW u \in Users, StartSend(u)
      PROVE  CountInv'
  <2>1. PICK t \in Tasks : pc[t] = "idle" /\ pc' = [pc EXCEPT ![u] = "idle", ![t] = "get"]
    BY <1>3 DEF StartSend, At
  <2>2. pc[u] = "startSend" /\ ioCount' = ioCount + 1
    BY <1>3 DEF StartSend, At
  <2>3. /\ t \in Threads /\ t \notin Users /\ t # u
        /\ \A s \in Threads \ {u, t} : pc'[s] = pc[s]
        /\ pc'[t] = "get" /\ pc'[u] = "idle"
    BY <1>k, <1>d, <2>1
  <2>4. t \notin InIO
    BY <2>1, <2>3 DEF InIO, Counted
  <2>5. \A s : s \in InIO' <=> s \in InIO \/ s = t
    BY <1>k, <1>p, <2>1, <2>2, <2>3 DEF InIO, Counted
  <2>6. InIO' = InIO \cup {t}
    BY <2>5
  <2> QED
    BY <1>a, <2>2, <2>4, <2>6
<1>4. ASSUME NEW u \in Users, BeginRecv(u)
      PROVE  CountInv'
  <2>1. PICK l \in {"idle", "startRecv"} : pc' = [pc EXCEPT ![u] = l]
    BY <1>4 DEF BeginRecv, Goto
  <2>2. pc[u] = "idle" /\ ioCount' = ioCount
    BY <1>4 DEF BeginRecv, At
  <2>3. \A s \in Threads : Counted(s, pc'[s]) <=> Counted(s, pc[s])
    BY <1>k, <1>d, <2>1, <2>2 DEF Counted
  <2>4. InIO' = InIO
    BY <1>p, <2>3 DEF InIO
  <2> QED
    BY <1>s, <2>2, <2>4
<1>5. ASSUME NEW u \in Users, StartRecv(u)
      PROVE  CountInv'
  <2>1. pc' = [pc EXCEPT ![u] = "recv"] /\ pc[u] = "startRecv" /\ ioCount' = ioCount + 1
    BY <1>5 DEF StartRecv, Goto, At
  <2>2. u \notin InIO
    BY <2>1 DEF InIO, Counted
  <2>3. \A s : s \in InIO' <=> s \in InIO \/ s = u
    BY <1>k, <1>d, <1>p, <2>1 DEF InIO, Counted
  <2>4. InIO' = InIO \cup {u}
    BY <2>3
  <2> QED
    BY <1>a, <2>1, <2>2, <2>4
<1>6. ASSUME NEW u \in Users, Recv(u)
      PROVE  CountInv'
  <2>1. pc[u] = "recv" /\ pc["recv"] = "idle" /\ ioCount' = ioCount
    BY <1>6 DEF Recv, At, RecvOnce
  <2>2. u \in InIO /\ "recv" \notin InIO
    BY <1>k, <2>1 DEF InIO, Counted
  <2>3. CASE "close" \in conn
    <3>1. pc' = [pc EXCEPT ![u] = "ioDone"]
      BY <1>6, <2>3 DEF Recv
    <3>2. \A s \in Threads : Counted(s, pc'[s]) <=> Counted(s, pc[s])
      BY <1>k, <1>d, <2>1, <3>1 DEF Counted
    <3>3. InIO' = InIO
      BY <1>p, <3>2 DEF InIO
    <3> QED
      BY <1>s, <2>1, <3>3
  <2>4. CASE "close" \notin conn
    <3>1. pc' = [pc EXCEPT ![u] = "idle", !["recv"] = "inFlight"]
      BY <1>6, <2>4 DEF Recv
    <3>2. /\ \A s \in Threads \ {u, "recv"} : pc'[s] = pc[s]
          /\ pc'[u] = "idle" /\ pc'["recv"] = "inFlight"
      BY <1>k, <1>d, <3>1
    <3>3. \A s : s \in InIO' <=> (s \in InIO /\ s # u) \/ s = "recv"
      BY <1>k, <1>p, <2>1, <3>2 DEF InIO, Counted
    <3>4. InIO' = (InIO \ {u}) \cup {"recv"}
      BY <3>3
    <3>5. IsFiniteSet(InIO \ {u}) /\ Cardinality(InIO \ {u}) = ioCount - 1
      BY <1>i, <2>2, FS_RemoveElement
    <3>6. IsFiniteSet(InIO') /\ Cardinality(InIO') = (ioCount - 1) + 1
      BY <2>2, <3>4, <3>5, FS_AddElement
    <3>7. (ioCount - 1) + 1 = ioCount
      BY SMT, <1>i
    <3> QED
      BY <2>1, <3>6, <3>7 DEF CountInv
  <2> QED
    BY <2>3, <2>4
<1>7. ASSUME NEW t \in Threads, IoDone(t)
      PROVE  CountInv'
  <2>1. PICK l \in {"idle", "ioTest"} : pc' = [pc EXCEPT ![t] = l]
    BY <1>7 DEF IoDone, Goto
  <2>2. pc[t] = "ioDone" /\ ioCount' = ioCount - 1
    BY <1>7 DEF IoDone, At
  <2>3. t \in InIO
    BY <2>2 DEF InIO, Counted
  <2>4. \A s : s \in InIO' <=> s \in InIO /\ s # t
    BY <1>d, <1>p, <2>1 DEF InIO, Counted
  <2>5. InIO' = InIO \ {t}
    BY <2>4
  <2> QED
    BY <1>r, <2>2, <2>3, <2>5
<1>8. ASSUME NEW t \in Threads, IoTest(t) \/ IoClose(t)
      PROVE  CountInv'
  <2>1. PICK l \in {"idle", "ioClose"} : pc' = [pc EXCEPT ![t] = l]
    BY <1>8 DEF IoTest, IoClose, Goto
  <2>2. pc[t] \in {"ioTest", "ioClose"} /\ ioCount' = ioCount
    BY <1>8 DEF IoTest, IoClose, At
  <2>3. \A s \in Threads : Counted(s, pc'[s]) <=> Counted(s, pc[s])
    BY <1>d, <2>1, <2>2 DEF Counted
  <2>4. InIO' = InIO
    BY <1>p, <2>3 DEF InIO
  <2> QED
    BY <1>s, <2>2, <2>4
<1> QED
  BY PcStep, <1>1, <1>2, <1>3, <1>4, <1>5, <1>6, <1>7, <1>8

(* fdoclose is set by Close only.                                          *)
LEMMA SetsDoClose ==
  ASSUME Next, "fdoclose" \in flag', "fdoclose" \notin flag
  PROVE  \E t \in Threads : CloseSetDoClose(t)
<1>f. flag' \notin {flag, flag \cup {"frclosed"}, flag \cup {"fclosed", "frclosed"}}
  BY SMT
<1>1. \A u \in Users : ~UserStep(u)
  BY <1>f DEF UserStep, Close, Send, CasSend, StartSend, DirectSend, DirectDone, ShutdownRead,
     ShutdownWrite, ShutdownConn, BeginRecv, StartRecv, Recv
<1>2. \A t \in Tasks : ~TaskStep(t)
  BY DEF TaskStep, Get, Send1, Sent, SendOK, Unlock, Recheck, Recas, Over, SendFailed, Fail,
     FailTimeout, FailTest
<1>3. ~RecvStep /\ \A how : ~Waiter(how)
  BY <1>f DEF RecvStep, Received, RecvComplete, RecvReport, Unpack, RecvAgain, Waiter
<1>4. ASSUME NEW t \in Threads, ThreadStep(t)
      PROVE  CloseSetDoClose(t)
  BY <1>f, <1>4 DEF ThreadStep, CloseSetClosed, CloseQueue, CloseLoadIO, CloseDoClose, IoDone, IoTest,
     IoClose
<1> QED
  BY <1>1, <1>2, <1>3, <1>4 DEF Next

(* After Close, somebody still has to set fdoclose, and then to call       *)
(* closeCallBack: a goroutine inside Close, or the one that ends the last  *)
(* operation.                                                              *)
LEMMA ClosePendingStep ==
  ASSUME Points, RecvOnce, CountInv, CountInv', ClosePending, Next
  PROVE  ClosePending'
<1>k. /\ Users \subseteq Threads /\ Tasks \subseteq Threads /\ "recv" \in Threads
      /\ Users \cap Tasks = {} /\ "recv" \notin Users /\ "recv" \notin Tasks
  BY AioSocketAssumption DEF Threads
<1>d. DOMAIN pc = Threads /\ DOMAIN cpc = Threads
  BY DEF Points
<1>g. once \subseteq once' /\ flag \subseteq flag'
  BY Grows
<1> DEFINE InClose(t) == \/ CloseSetClosed(t) \/ CloseQueue(t) \/ CloseSetDoClose(t)
                         \/ CloseLoadIO(t) \/ CloseDoClose(t)
<1>1. "close" \in once' =>
        \/ "fdoclose" \in flag'
        \/ \E t \in Threads : cpc'[t] \in {"setClosed", "closeQueue", "setDoClose"}
  <2>1. CASE cpc' = cpc /\ ("close" \in once' => "close" \in once)
    BY <1>g, <2>1 DEF ClosePending
  <2>2. ASSUME NEW t \in Threads, cpc' = [cpc EXCEPT ![t] = "setClosed"]
        PROVE  \E s \in Threads : cpc'[s] \in {"setClosed", "closeQueue", "setDoClose"}
    BY <1>d, <2>2
  <2>3. ASSUME NEW t \in Threads, CloseSetClosed(t) \/ CloseQueue(t)
        PROVE  \E s \in Threads : cpc'[s] \in {"setClosed", "closeQueue", "setDoClose"}
    BY <1>d, <2>3 DEF CloseSetClosed, CloseQueue, GotoClose
  <2>4. ASSUME NEW t \in Threads, CloseSetDoClose(t)
        PROVE  "fdoclose" \in flag'
    BY <2>4 DEF CloseSetDoClose
  <2>5. ASSUME NEW t \in Threads, CloseLoadIO(t) \/ CloseDoClose(t), "close" \in once'
        PROVE  \/ "fdoclose" \in flag'
               \/ \E s \in Threads : cpc'[s] \in {"setClosed", "closeQueue", "setDoClose"}
    <3>1. "close" \in once
      BY SMT, <2>5 DEF CloseLoadIO, CloseDoClose, DoClose
    <3>2. cpc[t] \in {"loadIO", "doClose"} /\ \E l : cpc' = [cpc EXCEPT ![t] = l]
      BY <2>5 DEF CloseLoadIO, CloseDoClose, GotoClose
    <3>3. \A s \in Threads : s # t => cpc'[s] = cpc[s]
      BY <1>d, <3>2
    <3> QED
      BY <1>g, <3>1, <3>2, <3>3 DEF ClosePending
  <2> QED
    BY CpcStep, <2>1, <2>2, <2>3, <2>4, <2>5
<1>2. ASSUME "fdoclose" \in flag', "doClose" \notin once'
      PROVE  \/ InIO' # {}
             \/ \E t \in Threads : pc'[t] \in {"ioTest", "ioClose"} \/ cpc'[t] \in {"loadIO", "doClose"}
  <2>n. "doClose" \notin once
    BY <1>2, <1>g
  <2>z. /\ InIO # {} <=> ioCount # 0
        /\ InIO' # {} <=> ioCount' # 0
        /\ ioCount \in Nat /\ ioCount' \in Nat
    BY FS_EmptySet, FS_CardinalityType DEF CountInv
  <2>1. ASSUME NEW t \in Threads, CloseSetDoClose(t)
        PROVE  cpc'[t] = "loadIO"
    BY <1>d, <2>1 DEF CloseSetDoClose, GotoClose
  <2>2. CASE InIO # {}
    <3>1. ioCount' = ioCount \/ ioCount' = ioCount + 1 \/ \E t \in Threads : IoDone(t)
      BY PcStep DEF Ordinary, StartSend, BeginRecv, StartRecv, Recv, IoTest, IoClose
    <3>2. ASSUME NEW t \in Threads, IoDone(t), ioCount' = 0
          PROVE  pc'[t] = "ioTest"
      <4>1. ioCount' = ioCount - 1 /\ pc' = [pc EXCEPT ![t] = IF ioCount = 1 THEN "ioTest" ELSE "idle"]
        BY <3>2 DEF IoDone, Goto
      <4>2. ioCount = 1
        BY SMT, <2>z, <3>2, <4>1
      <4> QED
        BY <1>d, <4>1, <4>2
    <3>3. ASSUME ioCount' = ioCount + 1
          PROVE  ioCount' # 0
      BY SMT, <2>z, <3>3
    <3> QED
      BY <2>2, <2>z, <3>1, <3>2, <3>3
  <2>3. ASSUME NEW s \in Threads, pc[s] \in {"ioTest", "ioClose"}, "fdoclose" \in flag
        PROVE  pc'[s] \in {"ioTest", "ioClose"}
    <3>1. ASSUME NEW t \in Threads, NEW l, Ordinary(t, l)
          PROVE  pc'[s] = pc[s]
      BY <1>d, <2>3, <3>1 DEF Ordinary
    <3>2. ASSUME NEW u \in Users, StartSend(u) \/ BeginRecv(u) \/ StartRecv(u)
          PROVE  pc'[s] = pc[s]
      BY <1>k, <1>d, <2>3, <3>2 DEF StartSend, BeginRecv, StartRecv, At, Goto
    <3>3. ASSUME NEW u \in Users, Recv(u)
          PROVE  pc'[s] = pc[s]
      <4>1. pc[u] = "recv" /\ pc["recv"] = "idle"
        BY <3>3 DEF Recv, At, RecvOnce
      <4>2. s # u /\ s # "recv"
        BY <2>3, <4>1
      <4> QED
        BY <1>d, <3>3, <4>2 DEF Recv
    <3>4. ASSUME NEW t \in Threads, IoDone(t)
          PROVE  pc'[s] = pc[s]
      BY <1>d, <2>3, <3>4 DEF IoDone, At, Goto
    <3>5. ASSUME NEW t \in Threads, IoTest(t)
          PROVE  pc'[s] \in {"ioTest", "ioClose"}
      BY <1>d, <2>3, <3>5 DEF IoTest, At, Goto
    <3>6. ASSUME NEW t \in Threads
          PROVE  ~IoClose(t)
      BY <1>2 DEF IoClose, DoClose
    <3> QED
      BY PcStep, <2>3, <3>1, <3>2, <3>3, <3>4, <3>5, <3>6
  <2>4. ASSUME NEW s \in Threads, cpc[s] \in {"loadIO", "doClose"}
        PROVE  cpc'[s] \in {"loadIO", "doClose"} \/ InIO' # {}
    <3>1. ASSUME NEW t \in Threads, cpc[t] = "none", cpc' = [cpc EXCEPT ![t] = "setClosed"]
          PROVE  cpc'[s] = cpc[s]
      BY <1>d, <2>4, <3>1
    <3>2. ASSUME NEW t \in Threads, CloseSetClosed(t) \/ CloseQueue(t) \/ CloseSetDoClose(t)
          PROVE  cpc'[s] = cpc[s]
      BY <1>d, <2>4, <3>2 DEF CloseSetClosed, CloseQueue, CloseSetDoClose, GotoClose
    <3>3. ASSUME NEW t \in Threads, CloseLoadIO(t)
          PROVE  cpc'[s] \in {"loadIO", "doClose"} \/ InIO' # {}
      <4>1. cpc' = [cpc EXCEPT ![t] = IF ioCount = 0 THEN "doClose" ELSE "none"] /\ ioCount' = ioCount
        BY <3>3 DEF CloseLoadIO, GotoClose
      <4> QED
        BY <1>d, <2>4, <2>z, <4>1
    <3>4. ASSUME NEW t \in Threads
          PROVE  ~CloseDoClose(t)
      BY <1>2 DEF CloseDoClose, DoClose
    <3> QED
      BY CpcStep, <2>4, <3>1, <3>2, <3>3, <3>4
  <2>5. "fdoclose" \in flag \/ \E t \in Threads : CloseSetDoClose(t)
    BY <1>2, SetsDoClose
  <2>6. CASE "fdoclose" \in flag
    <3>1. \/ InIO # {}
          \/ \E t \in Threads : pc[t] \in {"ioTest", "ioClose"} \/ cpc[t] \in {"loadIO", "doClose"}
      BY <2>6, <2>n DEF ClosePending
    <3> QED
      BY <3>1, <2>2, <2>3, <2>4, <2>6
  <2> QED
    BY <2>1, <2>5, <2>6
<1> QED
  BY <1>1, <1>2 DEF ClosePending

(* The goroutine of a delayed Close waits until it closes the write side.  *)
LEMMA WaiterStep ==
  ASSUME Next, waiter = "wait"
  PROVE  waiter' = "wait" \/ "closeWrite" \in conn'
<1>1. \A u \in Users : UserStep(u) => waiter' = waiter
  BY DEF UserStep, Close, Send, CasSend, StartSend, DirectSend, DirectDone, ShutdownRead,
     ShutdownWrite, ShutdownConn, BeginRecv, StartRecv, Recv
<1>2. \A t \in Tasks : TaskStep(t) => waiter' = waiter
  BY DEF TaskStep, Get, Send1, Sent, SendOK, Unlock, Recheck, Recas, Over, SendFailed, Fail,
     FailTimeout, FailTest
<1>3. RecvStep => waiter' = waiter
  BY DEF RecvStep, Received, RecvComplete, RecvReport, Unpack, RecvAgain
<1>4. \A how : Waiter(how) => "closeWrite" \in conn'
  BY DEF Waiter
<1>5. ASSUME NEW t \in Threads, ThreadStep(t)
      PROVE  waiter' = "wait" \/ "closeWrite" \in conn'
  BY <1>5 DEF ThreadStep, CloseSetClosed, CloseQueue, CloseSetDoClose, CloseLoadIO, CloseDoClose,
     IoDone, IoTest, IoClose
<1> QED
  BY <1>1, <1>2, <1>3, <1>4, <1>5 DEF Next

(* sendLock is released by Unlock only, and a goroutine that has to close  *)
(* the write side of a closed queue when nobody has the lock goes on to do *)
(* so.                                                                     *)
LEMMA EndsWriteStep ==
  ASSUME IInv, Next, sendLock = 0, sendLock' = 0, queClosed, "closeWrite" \notin conn',
         NEW s \in Threads, (s \in Users /\ pc[s] = "loadLock") \/ EndsWrite(s, pc[s])
  PROVE  (s \in Users /\ pc'[s] = "loadLock") \/ EndsWrite(s, pc'[s])
<1>k. /\ Users \cap Tasks = {} /\ "recv" \notin Users /\ "recv" \notin Tasks
      /\ Users \subseteq Threads /\ Tasks \subseteq Threads
  BY AioSocketAssumption DEF Threads
<1>d. DOMAIN pc = Threads
  BY DEF IInv, Types
<1>h. 0 # 1 /\ ~Holds(s, pc[s])
  <2>1. 0 # 1
    BY SMT
  <2> QED
    BY <2>1 DEF IInv, Locked
<1>p. \/ s \in Users /\ pc[s] \in {"loadLock", "casSend"}
      \/ s \in Tasks /\ pc[s] \in {"recheck", "recas", "over"}
  BY <1>h DEF EndsWrite, Tries
<1>g. ASSUME pc'[s] = pc[s]
      PROVE  (s \in Users /\ pc'[s] = "loadLock") \/ EndsWrite(s, pc'[s])
  BY <1>g
<1>1. ASSUME NEW u \in Users, UserStep(u)
      PROVE  pc'[s] = pc[s]
  <2>1. ~CasSend(u)
    BY <1>h DEF CasSend
  <2>2. ~ShutdownConn(u)
    BY DEF ShutdownConn
  <2>3. CASE \/ \E d \in BOOLEAN : Close(u, d)
             \/ Send(u) \/ DirectSend(u) \/ DirectDone(u)
             \/ ShutdownRead(u) \/ ShutdownWrite(u) \/ BeginRecv(u) \/ StartRecv(u)
    <3>1. pc[u] \notin {"loadLock", "casSend"} /\ (pc' = pc \/ \E l : pc' = [pc EXCEPT ![u] = l])
      BY <2>3 DEF Close, Send, DirectSend, DirectDone, ShutdownRead, ShutdownWrite, BeginRecv,
         StartRecv, At, Goto
    <3> QED
      BY <1>k, <1>d, <1>p, <3>1
  <2>4. CASE StartSend(u) \/ Recv(u)
    BY <1>k, <1>d, <1>p, <2>4 DEF StartSend, Recv, At
  <2> QED
    BY <1>1, <2>1, <2>2, <2>3, <2>4 DEF UserStep
<1>2. ASSUME NEW t \in Tasks, TaskStep(t)
      PROVE  pc'[s] = pc[s] \/ (s = t /\ pc'[s] \in {"recheck", "recas", "over"})
  <2>1. ~Recas(t)
    BY <1>h DEF Recas
  <2>2. ~Over(t)
    BY DEF Over
  <2>3. CASE Recheck(t)
    BY <1>d, <2>3 DEF Recheck, Goto
  <2>4. CASE \/ Get(t) \/ Send1(t) \/ (\E r \in {"nil", "timeout", "err"} : Sent(t, r))
             \/ SendOK(t) \/ Unlock(t) \/ SendFailed(t) \/ Fail(t) \/ FailTimeout(t) \/ FailTest(t)
    <3>1. pc[t] \notin {"recheck", "recas", "over"} /\ \E l : pc' = [pc EXCEPT ![t] = l]
      BY <2>4 DEF Get, Send1, Sent, SendOK, Unlock, SendFailed, Fail, FailTimeout, FailTest, At, Goto
    <3> QED
      BY <1>k, <1>d, <1>p, <3>1
  <2> QED
    BY <1>2, <2>1, <2>2, <2>3, <2>4 DEF TaskStep
<1>3. ASSUME NEW t \in Threads, ThreadStep(t)
      PROVE  pc'[s] = pc[s]
  BY <1>3, <1>k, <1>d, <1>p DEF ThreadStep, CloseSetClosed, CloseQueue, CloseSetDoClose, CloseLoadIO,
     CloseDoClose, IoDone, IoTest, IoClose, At, Goto
<1>4. ASSUME NEW how, Waiter(how)
      PROVE  pc'[s] = pc[s]
  BY <1>4 DEF Waiter
<1>5. ASSUME RecvStep
      PROVE  pc'[s] = pc[s]
  <2>1. pc' = pc \/ \E l : pc' = [pc EXCEPT !["recv"] = l]
    BY <1>5 DEF RecvStep, Received, RecvComplete, RecvReport, Unpack, RecvAgain, Goto
  <2> QED
    BY <1>k, <1>d, <1>p, <2>1
<1>6. ASSUME NEW t \in Tasks, s = t, pc'[s] \in {"recheck", "recas", "over"}
      PROVE  EndsWrite(s, pc'[s])
  BY <1>6 DEF EndsWrite, Tries
<1> QED
  BY <1>g, <1>1, <1>2, <1>3, <1>4, <1>5, <1>6 DEF Next

(* Who closes the send queue.                                              *)
LEMMA QueueCloses ==
  ASSUME Next, queClosed', ~queClosed
  PROVE  \/ \E u \in Users : ShutdownWrite(u)
         \/ \E t \in Threads : CloseQueue(t)
<1>1. ASSUME NEW u \in Users, UserStep(u)
      PROVE  ShutdownWrite(u)
  BY <1>1 DEF UserStep, Close, Send, CasSend, StartSend, DirectSend, DirectDone, ShutdownRead,
     ShutdownConn, BeginRecv, StartRecv, Recv, queVars
<1>2. \A t \in Tasks : ~TaskStep(t)
  BY DEF TaskStep, Get, Send1, Sent, SendOK, Unlock, Recheck, Recas, Over, SendFailed, Fail,
     FailTimeout, FailTest, queVars
<1>3. ~RecvStep /\ \A how : ~Waiter(how)
  BY DEF RecvStep, Received, RecvComplete, RecvReport, Unpack, RecvAgain, Waiter, queVars
<1>4. ASSUME NEW t \in Threads, ThreadStep(t)
      PROVE  CloseQueue(t)
  BY <1>4 DEF ThreadStep, CloseSetClosed, CloseSetDoClose, CloseLoadIO, CloseDoClose, IoDone, IoTest,
     IoClose, queVars
<1> QED
  BY <1>1, <1>2, <1>3, <1>4 DEF Next

(* The lock is released by Unlock only.                                    *)
LEMMA Releases ==
  ASSUME Next, sendLock' # sendLock, sendLock' = 0
  PROVE  \E t \in Tasks : Unlock(t)
<1>z. 0 # 1
  BY SMT
<1>1. \A u \in Users : ~UserStep(u)
  BY <1>z DEF UserStep, Close, Send, CasSend, StartSend, DirectSend, DirectDone, ShutdownRead,
     ShutdownWrite, ShutdownConn, BeginRecv, StartRecv, Recv
<1>2. ASSUME NEW t \in Tasks, TaskStep(t)
      PROVE  Unlock(t)
  BY <1>z, <1>2 DEF TaskStep, Get, Send1, Sent, SendOK, Recheck, Recas, Over, SendFailed, Fail,
     FailTimeout, FailTest
<1>3. ~RecvStep /\ \A how : ~Waiter(how)
  BY DEF RecvStep, Received, RecvComplete, RecvReport, Unpack, RecvAgain, Waiter
<1>4. \A t \in Threads : ~ThreadStep(t)
  BY DEF ThreadStep, CloseSetClosed, CloseQueue, CloseSetDoClose, CloseLoadIO, CloseDoClose, IoDone,
     IoTest, IoClose
<1> QED
  BY <1>1, <1>2, <1>3, <1>4 DEF Next

(* When the queue is closed the write side is, or somebody is left to do   *)
(* it: when the lock is taken its holder; when it is free and messages are *)
(* queued, whoever is about to take it; otherwise the goroutine that was   *)
(* left before goes on.                                                    *)
LEMMA WriteEndsStep ==
  ASSUME IInv, IInv', Points, WriteEnds, Next
  PROVE  WriteEnds'
<1>d. DOMAIN pc = Threads /\ DOMAIN cpc = Threads /\ Users \subseteq Threads /\ Tasks \subseteq Threads
  BY DEF Points, Threads
<1>g. once \subseteq once' /\ conn \subseteq conn'
  BY Grows
<1>e. \A s \in Threads : EndsWrite(s, pc[s])' <=> EndsWrite(s, pc'[s])
  BY DEF EndsWrite, Holds, Tries
<1>1. ASSUME queClosed', "closeWrite" \notin conn', "close" \notin once'
      PROVE  \E s \in Threads : (s \in Users /\ pc'[s] = "loadLock") \/ EndsWrite(s, pc'[s])
  <2>1. CASE sendLock' # 0
    <3>1. \E s \in Threads : Holds(s, pc[s])'
      BY <1>1, <2>1 DEF IInv, Types, Locked
    <3> QED
      BY <3>1, <1>e DEF EndsWrite
  <2>2. CASE sendLock' = 0 /\ que' # <<>>
    <3>1. \E s \in Threads : Tries(s, pc[s])'
      BY <2>2 DEF IInv, Attended
    <3> QED
      BY <3>1, <1>e DEF EndsWrite
  <2>3. ASSUME NEW t \in Tasks, Unlock(t)
        PROVE  EndsWrite(t, pc'[t])
    BY <1>d, <2>3 DEF Unlock, Goto, EndsWrite, Tries
  <2>4. ASSUME NEW u \in Users, ShutdownWrite(u), que' = <<>>
        PROVE  pc'[u] = "loadLock"
    BY <1>d, <2>4 DEF ShutdownWrite, Goto
  <2>5. ASSUME NEW t \in Threads
        PROVE  ~CloseQueue(t)
    BY <1>1, <1>g DEF CloseQueue, IInv, Closed
  <2>6. CASE sendLock = 0 /\ sendLock' = 0 /\ queClosed
    <3>1. "closeWrite" \notin conn /\ "close" \notin once
      BY <1>1, <1>g
    <3>2. PICK s \in Threads : (s \in Users /\ pc[s] = "loadLock") \/ EndsWrite(s, pc[s])
      BY <2>6, <3>1 DEF WriteEnds
    <3> QED
      BY <1>1, <2>6, <3>2, EndsWriteStep
  <2> QED
    BY <1>1, <1>d, <2>1, <2>2, <2>3, <2>4, <2>5, <2>6, Releases, QueueCloses
<1>2. ASSUME "close" \in once'
      PROVE  \/ "closeWrite" \in conn' \/ waiter' = "wait"
             \/ \E t \in Threads : cpc'[t] \in {"setClosed", "closeQueue"}
  <2>1. CASE cpc' = cpc /\ "close" \in once
    BY <1>g, <2>1, WaiterStep DEF WriteEnds
  <2>2. ASSUME NEW t \in Threads, cpc' = [cpc EXCEPT ![t] = "setClosed"]
        PROVE  cpc'[t] \in {"setClosed", "closeQueue"}
    BY <1>d, <2>2
  <2>3. ASSUME NEW t \in Threads, CloseSetClosed(t)
        PROVE  cpc'[t] \in {"setClosed", "closeQueue"}
    BY <1>d, <2>3 DEF CloseSetClosed, GotoClose
  <2>4. ASSUME NEW t \in Threads, CloseQueue(t)
        PROVE  "closeWrite" \in conn' \/ waiter' = "wait"
    BY <2>4 DEF CloseQueue
  <2>5. ASSUME NEW t \in Threads, CloseSetDoClose(t) \/ CloseLoadIO(t) \/ CloseDoClose(t)
        PROVE  \/ "closeWrite" \in conn' \/ waiter' = "wait"
               \/ \E s \in Threads : cpc'[s] \in {"setClosed", "closeQueue"}
    <3>1. cpc[t] \notin {"none", "setClosed", "closeQueue"} /\ \E l : cpc' = [cpc EXCEPT ![t] = l]
      BY <2>5 DEF CloseSetDoClose, CloseLoadIO, CloseDoClose, GotoClose
    <3>2. \A s \in Threads : s # t => cpc'[s] = cpc[s]
      BY <1>d, <3>1
    <3>3. "close" \in once
      BY <3>1 DEF IInv, Closed
    <3> QED
      BY <1>g, <3>1, <3>2, <3>3, WaiterStep DEF WriteEnds
  <2> QED
    BY <1>2, CpcStep, <2>1, <2>2, <2>3, <2>4, <2>5
<1> QED
  BY <1>1, <1>2, <1>e DEF WriteEnds

(* The variables without structure keep their types, and closeCallBack is  *)
(* called by the winner of doCloseOnce.                                    *)
LEMMA DataStep ==
  ASSUME Data, Next
  PROVE  Data'
<1> DEFINE Flags == /\ flag' \subseteq {"fclosed", "frclosed", "fdoclose"}
                    /\ conn' \subseteq {"closeRead", "closeWrite", "close"}
           Words == /\ once' \subseteq {"begin", "close", "doClose"}
                    /\ cbCount' = IF "doClose" \in once' THEN 1 ELSE 0
           Rest == /\ ops' \in OpSets /\ errorCallback' \in BOOLEAN
                   /\ queClosed' \in BOOLEAN
                   /\ sendOverChan' \in BOOLEAN /\ panicked' \in BOOLEAN
                   /\ waiter' \in {"off", "wait", "over", "tick"}
                   /\ got' \in {"none", "data", "timeout", "err"}
<1>f. /\ flag \subseteq {"fclosed", "frclosed", "fdoclose"}
      /\ conn \subseteq {"closeRead", "closeWrite", "close"}
  BY DEF Data
<1>w. /\ once \subseteq {"begin", "close", "doClose"}
      /\ cbCount = IF "doClose" \in once THEN 1 ELSE 0
  BY DEF Data
<1>r. /\ ops \in OpSets /\ errorCallback \in BOOLEAN
      /\ queClosed \in BOOLEAN
      /\ sendOverChan \in BOOLEAN /\ panicked \in BOOLEAN
      /\ waiter \in {"off", "wait", "over", "tick"}
      /\ got \in {"none", "data", "timeout", "err"}
      /\ res \in [Tasks -> {"nil", "timeout", "err"}]
  BY DEF Data
<1>o. ASSUME once' \in {once, once \cup {"begin"}, once \cup {"close"}}, cbCount' = cbCount
      PROVE  Words
  <2>1. once' \subseteq {"begin", "close", "doClose"}
    BY <1>o, <1>w
  <2>2. "doClose" \in once' <=> "doClose" \in once
    BY SMT, <1>o
  <2> QED
    BY <1>o, <1>w, <2>1, <2>2
<1>c. ASSUME NEW t, NEW d, CloseCall(t, d)
      PROVE  once' \in {once, once \cup {"close"}}
  BY <1>c DEF CloseCall, closeVars
<1>b. ASSUME NEW t, CallBack(t)
      PROVE  once' \in {once, once \cup {"close"}}
  BY <1>b, <1>c DEF CallBack, closeVars
<1>x. ASSUME DoClose
      PROVE  Words
  <2>1. CASE "doClose" \in once
    BY <1>x, <1>w, <2>1 DEF DoClose
  <2>2. CASE "doClose" \notin once
    <3>1. once' = once \cup {"doClose"} /\ cbCount' = 0 + 1
      BY <1>x, <1>w, <2>2 DEF DoClose
    <3> QED
      BY SMT, <1>w, <3>1
  <2> QED
    BY <2>1, <2>2
<1>1. ASSUME NEW u \in Users, UserStep(u)
      PROVE  Flags /\ Words /\ Rest /\ res' = res
  <2>1. Flags
    <3>1. flag' \in {flag, flag \cup {"frclosed"}}
      BY <1>1 DEF UserStep, Close, Send, CasSend, StartSend, DirectSend, DirectDone, ShutdownRead,
         ShutdownWrite, ShutdownConn, BeginRecv, StartRecv, Recv
    <3>2. conn' \in {conn, conn \cup {"closeRead"}, conn \cup {"closeWrite"}}
      BY <1>1 DEF UserStep, Close, Send, CasSend, StartSend, DirectSend, DirectDone, ShutdownRead,
         ShutdownWrite, ShutdownConn, BeginRecv, StartRecv, Recv, netVars
    <3> QED
      BY <1>f, <3>1, <3>2
  <2>2. Words
    <3>1. once' \in {once, once \cup {"begin"}, once \cup {"close"}}
      BY <1>1, <1>c DEF UserStep, Close, Send, CasSend, StartSend, DirectSend, DirectDone,
         ShutdownRead, ShutdownWrite, ShutdownConn, BeginRecv, StartRecv, Recv, closeVars
    <3>2. cbCount' = cbCount
      BY <1>1 DEF UserStep, Close, Send, CasSend, StartSend, DirectSend, DirectDone, ShutdownRead,
         ShutdownWrite, ShutdownConn, BeginRecv, StartRecv, Recv
    <3> QED
      BY <1>o, <3>1, <3>2
  <2>3. UNCHANGED <<ops, errorCallback, sendOverChan, panicked, waiter, got, res>>
    BY <1>1 DEF UserStep, Close, Send, CasSend, StartSend, DirectSend, DirectDone, ShutdownRead,
       ShutdownWrite, ShutdownConn, BeginRecv, StartRecv, Recv, envVars, overVars, taskVars
  <2>4. queClosed' \in {queClosed, TRUE}
    BY <1>1 DEF UserStep, Close, Send, CasSend, StartSend, DirectSend, DirectDone, ShutdownRead,
       ShutdownWrite, ShutdownConn, BeginRecv, StartRecv, Recv, queVars
  <2> QED
    BY <1>r, <2>1, <2>2, <2>3, <2>4
<1>2. ASSUME NEW t \in Tasks, TaskStep(t)
      PROVE  Flags /\ Words /\ Rest /\ res' \in [Tasks -> {"nil", "timeout", "err"}]
  <2>1. Flags
    <3>1. flag' = flag
      BY <1>2 DEF TaskStep, Get, Send1, Sent, SendOK, Unlock, Recheck, Recas, Over, SendFailed, Fail,
         FailTimeout, FailTest
    <3>2. conn' \in {conn, conn \cup {"closeWrite"}}
      BY <1>2 DEF TaskStep, Get, Send1, Sent, SendOK, Unlock, Recheck, Recas, Over, SendFailed, Fail,
         FailTimeout, FailTest, netVars
    <3> QED
      BY <1>f, <3>1, <3>2
  <2>2. Words
    <3>1. once' \in {once, once \cup {"close"}}
      BY <1>2, <1>c, <1>b DEF TaskStep, Get, Send1, Sent, SendOK, Unlock, Recheck, Recas, Over,
         SendFailed, Fail, FailTimeout, FailTest, closeVars
    <3>2. cbCount' = cbCount
      BY <1>2 DEF TaskStep, Get, Send1, Sent, SendOK, Unlock, Recheck, Recas, Over, SendFailed, Fail,
         FailTimeout, FailTest
    <3> QED
      BY <1>o, <3>1, <3>2
  <2>3. UNCHANGED <<ops, errorCallback, queClosed, waiter, got>>
    BY <1>2 DEF TaskStep, Get, Send1, Sent, SendOK, Unlock, Recheck, Recas, Over, SendFailed, Fail,
       FailTimeout, FailTest, envVars, queVars
  <2>4. sendOverChan' \in {sendOverChan, TRUE} /\ panicked' \in {panicked, sendOverChan}
    BY <1>2 DEF TaskStep, Get, Send1, Sent, SendOK, Unlock, Recheck, Recas, Over, SendFailed, Fail,
       FailTimeout, FailTest, overVars, CloseOver
  <2>5. res' = res \/ \E r \in {"nil", "timeout", "err"} : res' = [res EXCEPT ![t] = r]
    BY <1>2 DEF TaskStep, Get, Send1, Sent, SendOK, Unlock, Recheck, Recas, Over, SendFailed, Fail,
       FailTimeout, FailTest, taskVars
  <2>6. res' \in [Tasks -> {"nil", "timeout", "err"}]
    BY SMT, <1>r, <2>5
  <2> QED
    BY <1>r, <2>1, <2>2, <2>3, <2>4, <2>6
<1>3. ASSUME NEW t \in Threads, ThreadStep(t)
      PROVE  Flags /\ Words /\ Rest /\ res' = res
  <2>1. Flags
    <3>1. flag' \in {flag, flag \cup {"fclosed", "frclosed"}, flag \cup {"fdoclose"}}
      BY <1>3 DEF ThreadStep, CloseSetClosed, CloseQueue, CloseSetDoClose, CloseLoadIO, CloseDoClose,
         IoDone, IoTest, IoClose
    <3>2. conn' \in {conn, conn \cup {"closeRead"}, conn \cup {"closeWrite"}, conn \cup {"close"}}
      BY <1>3 DEF ThreadStep, CloseSetClosed, CloseQueue, CloseSetDoClose, CloseLoadIO, CloseDoClose,
         IoDone, IoTest, IoClose, DoClose, netVars
    <3> QED
      BY <1>f, <3>1, <3>2
  <2>2. Words
    <3>1. DoClose \/ (once' = once /\ cbCount' = cbCount)
      BY <1>3 DEF ThreadStep, CloseSetClosed, CloseQueue, CloseSetDoClose, CloseLoadIO, CloseDoClose,
         IoDone, IoTest, IoClose, closeVars
    <3> QED
      BY <1>o, <1>x, <3>1
  <2>3. UNCHANGED <<ops, errorCallback, sendOverChan, panicked, got, res>>
    BY <1>3 DEF ThreadStep, CloseSetClosed, CloseQueue, CloseSetDoClose, CloseLoadIO, CloseDoClose,
       IoDone, IoTest, IoClose, envVars, overVars, taskVars
  <2>4. queClosed' \in {queClosed, TRUE} /\ waiter' \in {waiter, "wait"}
    BY <1>3 DEF ThreadStep, CloseSetClosed, CloseQueue, CloseSetDoClose, CloseLoadIO, CloseDoClose,
       IoDone, IoTest, IoClose, queVars
  <2> QED
    BY <1>r, <2>1, <2>2, <2>3, <2>4
<1>4. ASSUME NEW how \in {"over", "tick"}, Waiter(how)
      PROVE  Flags /\ Words /\ Rest /\ res' = res
  BY <1>4, <1>f, <1>w, <1>r DEF Waiter, envVars, closeVars, overVars, queVars, taskVars
<1>5. ASSUME RecvStep
      PROVE  Flags /\ Words /\ Rest /\ res' = res
  <2>1. flag' \in {flag, flag \cup {"frclosed"}} /\ conn' = conn
    BY <1>5 DEF RecvStep, Received, RecvComplete, RecvReport, Unpack, RecvAgain, netVars
  <2>2. once' \in {once, once \cup {"close"}} /\ cbCount' = cbCount
    BY <1>5, <1>c, <1>b DEF RecvStep, Received, RecvComplete, RecvReport, Unpack, RecvAgain, closeVars
  <2>3. UNCHANGED <<ops, errorCallback, queClosed, sendOverChan, panicked, waiter, res>>
    BY <1>5 DEF RecvStep, Received, RecvComplete, RecvReport, Unpack, RecvAgain, envVars, queVars,
       overVars, taskVars
  <2>4. got' \in {got, "none", "data", "timeout", "err"}
    BY <1>5 DEF RecvStep, Received, RecvComplete, RecvReport, Unpack, RecvAgain
  <2>5. Flags
    BY <1>f, <2>1
  <2>6. Words
    BY <1>o, <2>2
  <2> QED
    BY <1>r, <2>3, <2>4, <2>5, <2>6
<1>6. Flags /\ Words /\ Rest /\ res' \in [Tasks -> {"nil", "timeout", "err"}]
  BY <1>r, <1>1, <1>2, <1>3, <1>4, <1>5 DEF Next
<1> QED
  BY <1>6 DEF Data

-----------------------------------------------------------------------------
(* The steps that change a list of messages.                               *)
LEMMA ListStep ==
  ASSUME Next
  PROVE  \/ UNCHANGED <<que, sent, b, wire>>
         \/ \E u \in Users : Send(u) \/ DirectDone(u)
         \/ \E t \in Tasks : Get(t) \/ \E r \in {"nil", "timeout", "err"} : Sent(t, r)
<1>1. ASSUME NEW u \in Users, UserStep(u)
      PROVE  UNCHANGED <<que, sent, b, wire>> \/ Send(u) \/ DirectDone(u)
  BY <1>1 DEF UserStep, Close, CasSend, StartSend, DirectSend, ShutdownRead, ShutdownWrite,
     ShutdownConn, BeginRecv, StartRecv, Recv, queVars, netVars, taskVars
<1>2. ASSUME NEW t \in Tasks, TaskStep(t)
      PROVE  \/ UNCHANGED <<que, sent, b, wire>>
             \/ Get(t) \/ \E r \in {"nil", "timeout", "err"} : Sent(t, r)
  BY <1>2 DEF TaskStep, Send1, SendOK, Unlock, Recheck, Recas, Over, SendFailed, Fail,
     FailTimeout, FailTest, queVars, netVars, taskVars
<1>3. ASSUME NEW t \in Threads, ThreadStep(t)
      PROVE  UNCHANGED <<que, sent, b, wire>>
  BY <1>3 DEF ThreadStep, CloseSetClosed, CloseQueue, CloseSetDoClose, CloseLoadIO, CloseDoClose,
     IoDone, IoTest, IoClose, queVars, netVars, taskVars
<1>4. ASSUME RecvStep \/ \E how \in {"over", "tick"} : Waiter(how)
      PROVE  UNCHANGED <<que, sent, b, wire>>
  BY <1>4 DEF RecvStep, Received, RecvComplete, RecvReport, Unpack, RecvAgain, Waiter, queVars,
     netVars, taskVars
<1> QED
  BY <1>1, <1>2, <1>3, <1>4 DEF Next

(* A task has a buffer to send from the moment Get fills it.               *)
LEMMA BufferedStep ==
  ASSUME IInv, Next, NEW t \in Tasks, Buffered(t)'
  PROVE  Buffered(t) \/ Get(t)
<1>k. /\ Users \cap Tasks = {} /\ "recv" \notin Tasks /\ t \in Threads /\ DOMAIN pc = Threads
  BY AioSocketAssumption DEF Threads, IInv, Types
<1>p. pc'[t] \in {"send", "inFlight", "complete", "fail", "failTest"}
  BY DEF Buffered
<1>0. ASSUME pc'[t] = pc[t]
      PROVE  Buffered(t)
  BY <1>0, <1>p DEF Buffered
<1>1. ASSUME NEW u \in Users, UserStep(u)
      PROVE  pc'[t] = pc[t]
  <2>1. CASE StartSend(u)
    BY <1>k, <1>p, <2>1 DEF StartSend
  <2>2. CASE Recv(u)
    BY <1>k, <2>2 DEF Recv
  <2>3. CASE ~StartSend(u) /\ ~Recv(u)
    <3>1. pc' = pc \/ \E l : pc' = [pc EXCEPT ![u] = l]
      BY <1>1, <2>3 DEF UserStep, Close, Send, CasSend, DirectSend, DirectDone, ShutdownRead,
         ShutdownWrite, ShutdownConn, BeginRecv, StartRecv, Goto
    <3> QED
      BY <1>k, <3>1
  <2> QED
    BY <2>1, <2>2, <2>3
<1>2. ASSUME NEW s \in Tasks, TaskStep(s)
      PROVE  Buffered(t) \/ Get(t)
  <2>1. \E l : pc' = [pc EXCEPT ![s] = l]
    BY <1>2 DEF TaskStep, Get, Send1, Sent, SendOK, Unlock, Recheck, Recas, Over, SendFailed, Fail,
       FailTimeout, FailTest, Goto
  <2>2. CASE s # t
    BY <1>k, <1>0, <2>1, <2>2
  <2>3. CASE s = t
    <3>1. CASE \/ Send1(t) \/ (\E r \in {"nil", "timeout", "err"} : Sent(t, r)) \/ SendOK(t)
               \/ SendFailed(t) \/ Fail(t) \/ FailTimeout(t) \/ FailTest(t)
      BY <3>1 DEF Send1, Sent, SendOK, SendFailed, Fail, FailTimeout, FailTest, At, Buffered
    <3>2. CASE Unlock(t) \/ Recheck(t) \/ Recas(t) \/ Over(t)
      BY <1>k, <1>p, <3>2 DEF Unlock, Recheck, Recas, Over, Goto
    <3> QED
      BY <1>2, <2>3, <3>1, <3>2 DEF TaskStep
  <2> QED
    BY <2>2, <2>3
<1>3. ASSUME NEW s \in Threads, ThreadStep(s)
      PROVE  pc'[t] = pc[t]
  BY <1>3, <1>k, <1>p DEF ThreadStep, CloseSetClosed, CloseQueue, CloseSetDoClose, CloseLoadIO,
     CloseDoClose, IoDone, IoTest, IoClose, Goto
<1>4. ASSUME RecvStep \/ \E how \in {"over", "tick"} : Waiter(how)
      PROVE  pc'[t] = pc[t]
  <2>1. pc' = pc \/ \E l : pc' = [pc EXCEPT !["recv"] = l]
    BY <1>4 DEF RecvStep, Received, RecvComplete, RecvReport, Unpack, RecvAgain, Goto, Waiter
  <2> QED
    BY <1>k, <2>1
<1> QED
  BY <1>0, <1>1, <1>2, <1>3, <1>4 DEF Next

(* A function on 1..n is a sequence.                                       *)
LEMMA FunctionIsSeq ==
  ASSUME NEW S, NEW n \in Nat, NEW f \in [1..n -> S]
  PROVE  f \in Seq(S) /\ Len(f) = n
<1>1. f \in Seq(S)
  BY SeqDef
<1>2. DOMAIN f = 1..n /\ DOMAIN f = 1..Len(f) /\ Len(f) \in Nat
  BY <1>1, LenProperties
<1> QED
  BY SMT, <1>1, <1>2

(* The first n elements of a sequence and the rest.                        *)
LEMMA Split ==
  ASSUME NEW S, NEW s \in Seq(S), NEW n \in 0..Len(s)
  PROVE  /\ SubSeq(s, 1, n) \in Seq(S) /\ Len(SubSeq(s, 1, n)) = n
         /\ \A i \in 1..n : SubSeq(s, 1, n)[i] = s[i]
         /\ SubSeq(s, n + 1, Len(s)) \in Seq(S) /\ Len(SubSeq(s, n + 1, Len(s))) = Len(s) - n
         /\ \A i \in 1..(Len(s) - n) : SubSeq(s, n + 1, Len(s))[i] = s[n + i]
<1>1. /\ Len(s) \in Nat /\ n \in Int /\ n + 1 \in Int /\ Len(s) \in Int /\ 1 \in Int
      /\ \A i \in 1..n : i \in 1..Len(s)
      /\ \A i \in (n + 1)..Len(s) : i \in 1..Len(s)
  BY SMT
<1>2. \A i \in 1..Len(s) : s[i] \in S
  BY LenProperties
<1>3. /\ SubSeq(s, 1, n) \in Seq(S) /\ Len(SubSeq(s, 1, n)) = IF 1 <= n THEN n - 1 + 1 ELSE 0
      /\ \A i \in 1..(n - 1 + 1) : SubSeq(s, 1, n)[i] = s[1 + i - 1]
  <2>1. \A i \in 1..n : s[i] \in S
    BY <1>1, <1>2
  <2> QED
    BY SMT, <1>1, <2>1, SubSeqProperties
<1>4. /\ SubSeq(s, n + 1, Len(s)) \in Seq(S)
      /\ Len(SubSeq(s, n + 1, Len(s))) = IF n + 1 <= Len(s) THEN Len(s) - (n + 1) + 1 ELSE 0
      /\ \A i \in 1..(Len(s) - (n + 1) + 1) : SubSeq(s, n + 1, Len(s))[i] = s[n + 1 + i - 1]
  <2>1. \A i \in (n + 1)..Len(s) : s[i] \in S
    BY <1>1, <1>2
  <2> QED
    BY SMT, <1>1, <2>1, SubSeqProperties
<1>5. /\ \A i \in 1..n : SubSeq(s, 1, n)[i] = s[i]
      /\ Len(SubSeq(s, 1, n)) = n
  <2>1. n - 1 + 1 = n /\ (~(1 <= n) => n = 0) /\ \A i \in 1..n : 1 + i - 1 = i
    BY SMT
  <2> QED
    BY <1>3, <2>1
<1>6. /\ \A i \in 1..(Len(s) - n) : SubSeq(s, n + 1, Len(s))[i] = s[n + i]
      /\ Len(SubSeq(s, n + 1, Len(s))) = Len(s) - n
  <2>1. /\ Len(s) - (n + 1) + 1 = Len(s) - n
        /\ ~(n + 1 <= Len(s)) => Len(s) - n = 0
        /\ \A i \in 1..(Len(s) - n) : n + 1 + i - 1 = n + i
    BY SMT, <1>1
  <2> QED
    BY <1>4, <2>1
<1> QED
  BY <1>3, <1>4, <1>5, <1>6

(* One element more.                                                       *)
LEMMA Appended ==
  ASSUME NEW S, NEW s \in Seq(S), NEW x
  PROVE  /\ DOMAIN Append(s, x) = 1..(Len(s) + 1)
         /\ \A i \in 1..Len(s) : Append(s, x)[i] = s[i]
         /\ Append(s, x)[Len(s) + 1] = x
  BY SMT

(* A sequence on a set is one on any larger set.                           *)
LEMMA LargerSet ==
  ASSUME NEW S, NEW T, S \subseteq T, NEW s \in Seq(S)
  PROVE  s \in Seq(T)
<1>1. s \in [1..Len(s) -> S] /\ Len(s) \in Nat
  BY LenProperties
<1>2. s \in [1..Len(s) -> T]
  BY <1>1
<1> QED
  BY <1>1, <1>2, FunctionIsSeq

(* w2 is w with the first n elements of s after it, and r is the rest.     *)
Moved(w, s, n, w2, r) ==
  /\ DOMAIN w2 = 1..(Len(w) + n)
  /\ \A i \in 1..Len(w) : w2[i] = w[i]
  /\ \A i \in (Len(w) + 1)..(Len(w) + n) : w2[i] = s[i - Len(w)]
  /\ DOMAIN r = 1..(Len(s) - n)
  /\ \A i \in 1..(Len(s) - n) : r[i] = s[n + i]

(* What a write of n elements does.                                        *)
LEMMA WritePart ==
  ASSUME NEW S, NEW T, S \subseteq T, NEW w \in Seq(T), NEW s \in Seq(S), NEW n \in 0..Len(s)
  PROVE  Moved(w, s, n, w \o SubSeq(s, 1, n), SubSeq(s, n + 1, Len(s)))
<1> DEFINE p == SubSeq(s, 1, n)
           r == SubSeq(s, n + 1, Len(s))
<1>1. /\ p \in Seq(S) /\ Len(p) = n /\ (\A i \in 1..n : p[i] = s[i])
      /\ r \in Seq(S) /\ Len(r) = Len(s) - n /\ (\A i \in 1..(Len(s) - n) : r[i] = s[n + i])
  BY SMT, Split
<1> HIDE DEF p, r
<1>2. p \in Seq(T)
  BY <1>1, LargerSet
<1>3. /\ w \o p \in Seq(T) /\ Len(w \o p) = Len(w) + Len(p)
      /\ \A i \in 1..(Len(w) + Len(p)) : (w \o p)[i] = IF i <= Len(w) THEN w[i] ELSE p[i - Len(w)]
  BY <1>2, ConcatProperties
<1>4. DOMAIN (w \o p) = 1..(Len(w) + n) /\ DOMAIN r = 1..(Len(s) - n)
  BY <1>1, <1>3, LenProperties
<1>5. /\ \A i \in 1..Len(w) : i \in 1..(Len(w) + n) /\ i <= Len(w)
      /\ \A i \in (Len(w) + 1)..(Len(w) + n) :
           i \in 1..(Len(w) + n) /\ ~(i <= Len(w)) /\ i - Len(w) \in 1..n
  <2>1. Len(w) \in Nat /\ n \in Nat
    BY SMT
  <2> QED
    BY SMT, <2>1
<1>6. Moved(w, s, n, w \o p, r)
  BY <1>1, <1>3, <1>4, <1>5 DEF Moved
<1> QED
  BY <1>6 DEF p, r

(* Messages are numbers of messages that were sent.                        *)
LEMMA ListsStep ==
  ASSUME Lists, Next
  PROVE  Lists'
<1>m. MaxMsgs \in Nat /\ QueueSize \in Nat
  BY AioSocketAssumption
<1>i. /\ sent \in 0..MaxMsgs
      /\ que \in Seq(1..MaxMsgs) /\ Len(que) <= QueueSize
      /\ b \in [Tasks -> Seq(1..MaxMsgs)]
      /\ wire \in Seq(0..MaxMsgs)
  BY DEF Lists
<1>1. CASE UNCHANGED <<que, sent, b, wire>>
  BY <1>1 DEF Lists
<1>2. ASSUME NEW u \in Users, Send(u)
      PROVE  Lists'
  <2>1. /\ sent < MaxMsgs /\ Len(que) < QueueSize /\ sent' = sent + 1 /\ que' = Append(que, sent')
        /\ UNCHANGED <<b, wire>>
    BY <1>2 DEF Send, taskVars, netVars
  <2>2. sent' \in 1..MaxMsgs
    BY SMT, <1>m, <1>i, <2>1
  <2>3. que' \in Seq(1..MaxMsgs) /\ Len(que') <= QueueSize
    BY SMT, <1>m, <1>i, <2>1, <2>2
  <2>4. sent' \in 0..MaxMsgs
    BY SMT, <2>2
  <2> QED
    BY <1>i, <2>1, <2>3, <2>4 DEF Lists
<1>3. ASSUME NEW u \in Users, DirectDone(u)
      PROVE  Lists'
  <2>1. wire' \in {wire, Append(wire, 0)} /\ UNCHANGED <<que, sent, b>>
    BY <1>3 DEF DirectDone, queVars, taskVars
  <2>2. wire' \in Seq(0..MaxMsgs)
    <3>1. 0 \in 0..MaxMsgs
      BY SMT, <1>m
    <3>2. \A S : \A s \in Seq(S) : \A x \in S : Append(s, x) \in Seq(S)
      BY AppendProperties
    <3> QED
      BY <1>i, <2>1, <3>1, <3>2
  <2> QED
    BY <1>i, <2>1, <2>2 DEF Lists
<1>4. ASSUME NEW t \in Tasks, Get(t)
      PROVE  Lists'
  <2>1. que' = <<>> /\ UNCHANGED <<sent, wire>>
    BY <1>4 DEF Get, netVars
  <2>2. PICK n \in 0..Len(que) : \E at \in [1..n -> 1..Len(que)] :
          b' = [b EXCEPT ![t] = [k \in 1..n |-> que[at[k]]]]
    BY <1>4 DEF Get
  <2>p. PICK at \in [1..n -> 1..Len(que)] : b' = [b EXCEPT ![t] = [k \in 1..n |-> que[at[k]]]]
    BY <2>2
  <2>3. [k \in 1..n |-> que[at[k]]] \in Seq(1..MaxMsgs)
    <3>1. n \in Nat
      BY SMT, <1>i
    <3>2. \A k \in 1..Len(que) : que[k] \in 1..MaxMsgs
      BY <1>i, LenProperties
    <3>3. [k \in 1..n |-> que[at[k]]] \in [1..n -> 1..MaxMsgs]
      BY <3>2
    <3> QED
      BY <3>1, <3>3, FunctionIsSeq
  <2>4. b' \in [Tasks -> Seq(1..MaxMsgs)]
    BY <1>i, <2>p, <2>3
  <2>5. que' \in Seq(1..MaxMsgs) /\ Len(que') <= QueueSize
    BY SMT, <1>m, <2>1
  <2> QED
    BY <1>i, <2>1, <2>4, <2>5 DEF Lists
<1>5. ASSUME NEW t \in Tasks, NEW r, Sent(t, r)
      PROVE  Lists'
  <2>1. UNCHANGED <<que, sent>>
    BY <1>5 DEF Sent, queVars
  <2>2. PICK n \in 0..Len(b[t]) :
          /\ wire' = wire \o SubSeq(b[t], 1, n)
          /\ b' = [b EXCEPT ![t] = SubSeq(b[t], n + 1, Len(b[t]))]
    BY <1>5 DEF Sent
  <2>3. b[t] \in Seq(1..MaxMsgs)
    BY <1>i
  <2>4. /\ SubSeq(b[t], n + 1, Len(b[t])) \in Seq(1..MaxMsgs)
        /\ SubSeq(b[t], 1, n) \in Seq(0..MaxMsgs)
    <3>1. 1..MaxMsgs \subseteq 0..MaxMsgs
      BY SMT, <1>m
    <3>2. SubSeq(b[t], n + 1, Len(b[t])) \in Seq(1..MaxMsgs) /\ SubSeq(b[t], 1, n) \in Seq(1..MaxMsgs)
      BY <2>3, Split
    <3> QED
      BY <3>1, <3>2, LargerSet
  <2>5. wire' \in Seq(0..MaxMsgs)
    BY SMT, <1>i, <2>2, <2>4
  <2>6. b' \in [Tasks -> Seq(1..MaxMsgs)]
    BY <1>i, <2>2, <2>4
  <2> QED
    BY <1>i, <2>1, <2>5, <2>6 DEF Lists
<1> QED
  BY ListStep, <1>1, <1>2, <1>3, <1>4, <1>5

(* Send numbers messages upwards, Get keeps their order, and what a write  *)
(* leaves of the buffer comes after what it wrote.                         *)
LEMMA OrderedStep ==
  ASSUME IInv, Lists, Ordered, Next
  PROVE  Ordered'
<1>i. /\ sent \in Nat
      /\ que \in Seq(1..MaxMsgs)
      /\ \A t \in Tasks : b[t] \in Seq(1..MaxMsgs)
      /\ wire \in Seq(0..MaxMsgs)
  <2>1. sent \in Nat
    BY SMT DEF Lists
  <2> QED
    BY <2>1 DEF Lists
<1>n. /\ DOMAIN que = 1..Len(que) /\ Len(que) \in Nat
      /\ \A i \in DOMAIN que : que[i] \in 1..MaxMsgs
      /\ DOMAIN wire = 1..Len(wire) /\ Len(wire) \in Nat
      /\ \A i \in DOMAIN wire : wire[i] \in 0..MaxMsgs
  BY <1>i, LenProperties
<1>o. /\ WireInOrder /\ UpTo(sent, wire)
      /\ Increasing(que) /\ UpTo(sent, que) /\ Below(wire, que)
  BY DEF Ordered
<1>b. ASSUME NEW t \in Tasks, Buffered(t)
      PROVE  /\ Increasing(b[t]) /\ UpTo(sent, b[t])
             /\ Below(wire, b[t]) /\ Below(b[t], que)
  BY <1>b DEF Ordered
<1>h. \A s, t \in Tasks : Buffered(s) /\ Holds(t, pc[t]) => s = t
  <2>1. \A s \in Tasks : Buffered(s) => Holds(s, pc[s])
    BY DEF Buffered, Holds
  <2> QED
    BY <2>1 DEF IInv, Locked, Threads
<1>s. /\ \A i \in DOMAIN que : que[i] \in Int /\ que[i] > 0
      /\ \A i \in DOMAIN wire : wire[i] \in Int
      /\ \A t \in Tasks : /\ DOMAIN b[t] = 1..Len(b[t]) /\ Len(b[t]) \in Nat
                         /\ \A i \in DOMAIN b[t] : b[t][i] \in Int /\ b[t][i] > 0
  <2>1. \A t \in Tasks : /\ DOMAIN b[t] = 1..Len(b[t]) /\ Len(b[t]) \in Nat
                        /\ \A i \in DOMAIN b[t] : b[t][i] \in 1..MaxMsgs
    BY <1>i, LenProperties
  <2>2. /\ \A x \in 1..MaxMsgs : x \in Int /\ x > 0
        /\ \A x \in 0..MaxMsgs : x \in Int
    BY SMT, AioSocketAssumption
  <2> QED
    BY <1>n, <2>1, <2>2
<1>1. ASSUME UNCHANGED <<que, sent, b, wire>>, \A t \in Tasks : Buffered(t)' => Buffered(t)
      PROVE  Ordered'
  BY <1>1, <1>o, <1>b DEF Ordered, WireInOrder, UpTo, Increasing, Below
<1>2. ASSUME NEW u \in Users, Send(u), \A t \in Tasks : Buffered(t)' => Buffered(t)
      PROVE  Ordered'
  <2>1. sent' = sent + 1 /\ que' = Append(que, sent + 1) /\ b' = b /\ wire' = wire
    BY <1>2 DEF Send, taskVars, netVars
  <2>2. /\ DOMAIN que' = 1..(Len(que) + 1)
        /\ \A i \in 1..Len(que) : que'[i] = que[i]
        /\ que'[Len(que) + 1] = sent + 1
    BY SMT, <1>i, <2>1, Appended
  <2>3. UpTo(sent', wire') /\ UpTo(sent', que')
    <3>1. UpTo(sent', wire')
      BY SMT, <1>i, <1>o, <1>s, <2>1 DEF UpTo
    <3>2. UpTo(sent', que')
      BY SMT, <1>i, <1>n, <1>o, <1>s, <2>1, <2>2 DEF UpTo
    <3> QED
      BY <3>1, <3>2
  <2>4. Increasing(que')
    <3>1. \A i, j \in 1..Len(que) : i < j => que[i] < que[j]
      BY <1>n, <1>o DEF Increasing
    <3>2. \A i \in 1..Len(que) : que[i] < sent + 1
      BY SMT, <1>i, <1>n, <1>o, <1>s DEF UpTo
    <3>3. \A i \in 1..(Len(que) + 1) : i \in 1..Len(que) \/ i = Len(que) + 1
      BY SMT, <1>n
    <3>4. \A i, j \in 1..(Len(que) + 1) : i < j => i \in 1..Len(que)
      BY SMT, <1>n
    <3> QED
      BY <2>2, <3>1, <3>2, <3>3, <3>4 DEF Increasing
  <2>5. Below(wire', que')
    BY SMT, <1>i, <1>n, <1>o, <1>s, <2>1, <2>2 DEF Below, UpTo
  <2>6. ASSUME NEW t \in Tasks, Buffered(t)
        PROVE  UpTo(sent', b[t]) /\ Below(b[t], que')
    <3>1. UpTo(sent, b[t]) /\ Below(b[t], que)
      BY <1>b, <2>6
    <3>2. UpTo(sent', b[t])
      BY SMT, <1>i, <1>s, <2>1, <3>1 DEF UpTo
    <3>3. Below(b[t], que')
      BY SMT, <1>i, <1>n, <1>s, <2>2, <3>1 DEF Below, UpTo
    <3> QED
      BY <3>2, <3>3
  <2>7. WireInOrder'
    BY <1>o, <2>1 DEF WireInOrder
  <2> QED
    BY <1>2, <1>b, <2>1, <2>3, <2>4, <2>5, <2>6, <2>7 DEF Ordered, UpTo, Increasing, Below
<1>3. ASSUME NEW u \in Users, DirectDone(u), wire' # wire, \A t \in Tasks : Buffered(t)' => Buffered(t)
      PROVE  Ordered'
  <2>1. wire' = Append(wire, 0) /\ UNCHANGED <<que, sent, b>>
    BY <1>3 DEF DirectDone, queVars, taskVars
  <2>2. /\ DOMAIN wire' = 1..(Len(wire) + 1)
        /\ \A i \in 1..Len(wire) : wire'[i] = wire[i]
        /\ wire'[Len(wire) + 1] = 0
    BY SMT, <1>i, <2>1, Appended
  <2>3. UpTo(sent, wire')
    BY SMT, <1>i, <1>n, <1>o, <2>2 DEF UpTo
  <2>4. WireInOrder'
    BY SMT, <1>n, <1>o, <2>2 DEF WireInOrder
  <2>5. Below(wire', que)
    BY SMT, <1>n, <1>o, <1>s, <2>2 DEF Below
  <2>6. ASSUME NEW t \in Tasks, Buffered(t)
        PROVE  Below(wire', b[t])
    <3>1. Below(wire, b[t])
      BY <1>b, <2>6
    <3> QED
      BY SMT, <1>n, <1>s, <2>2, <3>1 DEF Below
  <2> QED
    BY <1>3, <1>o, <1>b, <2>1, <2>3, <2>4, <2>5, <2>6 DEF Ordered, UpTo, Increasing, Below
<1>4. ASSUME NEW t \in Tasks, Get(t)
      PROVE  Ordered'
  <2>1. que' = <<>> /\ sent' = sent /\ wire' = wire /\ pc[t] = "get"
    BY <1>4 DEF Get, netVars, At
  <2>2. PICK n \in 0..Len(que) : \E at \in [1..n -> 1..Len(que)] :
          Increasing(at) /\ b' = [b EXCEPT ![t] = [k \in 1..n |-> que[at[k]]]]
    BY <1>4 DEF Get
  <2>3. PICK at \in [1..n -> 1..Len(que)] :
          Increasing(at) /\ b' = [b EXCEPT ![t] = [k \in 1..n |-> que[at[k]]]]
    BY <2>2
  <2>4. b'[t] = [k \in 1..n |-> que[at[k]]]
    BY <2>3 DEF Lists
  <2>5. /\ DOMAIN b'[t] = 1..n
        /\ \A k \in 1..n : at[k] \in DOMAIN que /\ b'[t][k] = que[at[k]]
    BY <1>n, <2>4
  <2>6. Increasing(b'[t])
    <3>1. \A j, k \in 1..n : j < k => at[j] < at[k]
      BY <2>3 DEF Increasing
    <3> QED
      BY <1>o, <2>5, <3>1 DEF Increasing
  <2>7. UpTo(sent, b'[t]) /\ Below(wire, b'[t])
    BY <1>o, <2>5 DEF UpTo, Below
  <2>8. \A s \in Tasks : Buffered(s)' => s = t
    <3>1. \A s \in Tasks : Get(s) => Holds(s, pc[s])
      BY DEF Get, At, Holds
    <3>2. Holds(t, pc[t])
      BY <2>1 DEF Holds
    <3>3. \A s \in Tasks : Holds(s, pc[s]) => s = t
      BY <3>2 DEF IInv, Locked, Threads
    <3> QED
      BY <1>h, <3>1, <3>2, <3>3, BufferedStep
  <2>9. DOMAIN que' = {}
    BY SMT, <2>1
  <2>10. /\ Increasing(que') /\ UpTo(sent, que') /\ Below(wire, que')
         /\ Below(b'[t], que')
    BY <2>9 DEF Increasing, UpTo, Below
  <2> QED
    BY <1>o, <2>1, <2>6, <2>7, <2>8, <2>10 DEF Ordered, WireInOrder, UpTo, Increasing, Below
<1>5. ASSUME NEW t \in Tasks, NEW r, Sent(t, r), \A s \in Tasks : Buffered(s)' => Buffered(s)
      PROVE  Ordered'
  <2>1. que' = que /\ sent' = sent /\ pc[t] = "inFlight"
    BY <1>5 DEF Sent, queVars, At
  <2>2. PICK n \in 0..Len(b[t]) :
          /\ wire' = wire \o SubSeq(b[t], 1, n)
          /\ b' = [b EXCEPT ![t] = SubSeq(b[t], n + 1, Len(b[t]))]
    BY <1>5 DEF Sent
  <2>3. b'[t] = SubSeq(b[t], n + 1, Len(b[t]))
    BY <2>2 DEF Lists
  <2>4. Buffered(t) /\ Holds(t, pc[t])
    BY <2>1 DEF Buffered, Holds
  <2>5. /\ Increasing(b[t]) /\ UpTo(sent, b[t])
        /\ Below(wire, b[t]) /\ Below(b[t], que)
    BY <1>b, <2>4
  <2>6. n \in Nat /\ Len(b[t]) - n \in Nat
    BY SMT, <1>s
  <2>7. Moved(wire, b[t], n, wire', b'[t])
    <3>1. 1..MaxMsgs \subseteq 0..MaxMsgs
      BY SMT, AioSocketAssumption
    <3>2. b[t] \in Seq(1..MaxMsgs) /\ wire \in Seq(0..MaxMsgs)
      BY <1>i
    <3>3. Moved(wire, b[t], n, wire \o SubSeq(b[t], 1, n), SubSeq(b[t], n + 1, Len(b[t])))
      BY <3>1, <3>2, WritePart
    <3> QED
      BY <2>2, <2>3, <3>3
  <2>8. /\ DOMAIN wire' = 1..(Len(wire) + n)
        /\ \A i \in 1..Len(wire) : wire'[i] = wire[i]
        /\ \A i \in (Len(wire) + 1)..(Len(wire) + n) : wire'[i] = b[t][i - Len(wire)]
        /\ DOMAIN b'[t] = 1..(Len(b[t]) - n)
        /\ \A i \in 1..(Len(b[t]) - n) : b'[t][i] = b[t][n + i]
    BY <2>7 DEF Moved
  <2>9. /\ \A i \in 1..(Len(b[t]) - n) : n + i \in DOMAIN b[t]
        /\ \A i \in (Len(wire) + 1)..(Len(wire) + n) : i - Len(wire) \in DOMAIN b[t]
        /\ \A i \in 1..(Len(wire) + n) :
             i \in 1..Len(wire) \/ i \in (Len(wire) + 1)..(Len(wire) + n)
    BY SMT, <1>n, <1>s, <2>6
  <2>10. Increasing(b'[t])
    <3> SUFFICES ASSUME NEW i \in 1..(Len(b[t]) - n), NEW j \in 1..(Len(b[t]) - n), i < j
                 PROVE  b'[t][i] < b'[t][j]
      BY <2>8 DEF Increasing
    <3>1. n + i < n + j
      BY SMT, <2>6
    <3>2. b[t][n + i] < b[t][n + j]
      BY <2>5, <2>9, <3>1 DEF Increasing
    <3> QED
      BY <2>8, <3>2
  <2>u. UpTo(sent, b'[t])
    BY <2>5, <2>8, <2>9 DEF UpTo
  <2>v. Below(b'[t], que)
    BY <2>5, <2>8, <2>9 DEF Below
  <2>11. UpTo(sent, b'[t]) /\ Below(b'[t], que)
    BY <2>u, <2>v
  <2>w. UpTo(sent, wire')
    BY <1>n, <1>o, <2>5, <2>8, <2>9 DEF UpTo
  <2>x. Below(wire', que)
    BY <1>n, <1>o, <2>5, <2>8, <2>9 DEF Below
  <2>12. UpTo(sent, wire') /\ Below(wire', que)
    BY <2>w, <2>x
  <2>13. Below(wire', b'[t])
    <3>1. \A i \in 1..Len(wire), j \in 1..(Len(b[t]) - n) : wire'[i] < b'[t][j]
      BY <1>n, <2>5, <2>8, <2>9 DEF Below
    <3>2. \A i \in (Len(wire) + 1)..(Len(wire) + n), j \in 1..(Len(b[t]) - n) : wire'[i] < b'[t][j]
      <4>1. \A i \in (Len(wire) + 1)..(Len(wire) + n), j \in 1..(Len(b[t]) - n) :
              i - Len(wire) < n + j
        BY SMT, <1>n, <2>6
      <4> QED
        BY <2>5, <2>8, <2>9, <4>1 DEF Increasing
    <3> QED
      BY <2>8, <2>9, <3>1, <3>2 DEF Below
  <2>14. WireInOrder'
    <3> SUFFICES ASSUME NEW i \in 1..(Len(wire) + n), NEW j \in 1..(Len(wire) + n),
                        wire'[i] > 0, wire'[j] > 0, i < j
                 PROVE  wire'[i] < wire'[j]
      BY <2>8 DEF WireInOrder
    <3>1. CASE i \in 1..Len(wire) /\ j \in 1..Len(wire)
      BY <1>n, <1>o, <2>8, <3>1 DEF WireInOrder
    <3>2. CASE i \in 1..Len(wire) /\ j \in (Len(wire) + 1)..(Len(wire) + n)
      BY <1>n, <2>5, <2>8, <2>9, <3>2 DEF Below
    <3>3. CASE i \in (Len(wire) + 1)..(Len(wire) + n) /\ j \in (Len(wire) + 1)..(Len(wire) + n)
      <4>1. i - Len(wire) < j - Len(wire)
        BY SMT, <1>n, <2>6
      <4> QED
        BY <2>5, <2>8, <2>9, <3>3, <4>1 DEF Increasing
    <3>4. ~(i \in (Len(wire) + 1)..(Len(wire) + n) /\ j \in 1..Len(wire))
      BY SMT, <1>n, <2>6
    <3> QED
      BY <2>9, <3>1, <3>2, <3>3, <3>4
  <2>15. \A s \in Tasks : Buffered(s)' => s = t
    BY <1>5, <1>h, <2>4
  <2> QED
    BY <1>o, <2>1, <2>10, <2>11, <2>12, <2>13, <2>14, <2>15 DEF Ordered, UpTo, Increasing, Below
<1>6. CASE \E t \in Tasks : Get(t)
  BY <1>4, <1>6
<1>7. CASE ~\E t \in Tasks : Get(t)
  <2>1. \A t \in Tasks : Buffered(t)' => Buffered(t)
    BY <1>7, BufferedStep
  <2>2. \A u \in Users : DirectDone(u) => UNCHANGED <<que, sent, b>>
    BY DEF DirectDone, queVars, taskVars
  <2> QED
    BY <1>7, <1>1, <1>2, <1>3, <1>5, <2>1, <2>2, ListStep
<1> QED
  BY <1>6, <1>7

(* A new session has the second invariant.                                 *)
LEMMA InitJInv == Init => JInv
<1> SUFFICES ASSUME Init
             PROVE  JInv
  OBVIOUS
<1>1. \A t \in Threads : pc[t] = "idle" /\ cpc[t] = "none"
  BY DEF Init
<1>2. /\ DOMAIN pc = Threads /\ DOMAIN cpc = Threads
      /\ Users \subseteq Threads /\ Tasks \subseteq Threads /\ "recv" \in Threads
  BY DEF Init, Threads
<1>3. Data
  BY DEF Init, Data
<1>4. Points
  BY <1>1, <1>2 DEF Points, UserPoints, TaskPoints, RecvPoints
<1>5. RecvOnce
  BY <1>1, <1>2 DEF RecvOnce
<1>6. InIO = {}
  BY <1>1 DEF InIO, Counted
<1>7. CountInv
  BY <1>6, FS_EmptySet DEF CountInv, Init
<1>8. ClosePending /\ WriteEnds
  BY DEF Init, ClosePending, WriteEnds
<1>9. 0 \in 0..MaxMsgs /\ <<>> \in Seq(1..MaxMsgs) /\ <<>> \in Seq(0..MaxMsgs) /\ Len(<<>>) <= QueueSize
  BY SMT, AioSocketAssumption
<1>10. Lists
  BY <1>9 DEF Init, Lists
<1>11. DOMAIN wire = {} /\ DOMAIN que = {} /\ \A t \in Tasks : DOMAIN b[t] = {}
  BY SMT DEF Init
<1>12. Ordered
  BY <1>11 DEF Ordered, WireInOrder, Increasing, UpTo, Below
<1> QED
  BY <1>3, <1>4, <1>5, <1>7, <1>8, <1>10, <1>12 DEF JInv

(* Each group of the second invariant is kept by a step, with the groups   *)
(* it rests on.                                                            *)
LEMMA NextJInv == IInv /\ IInv' /\ JInv /\ [Next]_vars => JInv'
<1> SUFFICES ASSUME IInv, IInv', JInv, [Next]_vars
             PROVE  JInv'
  OBVIOUS
<1>1. CASE Next
  <2>1. Points' /\ RecvOnce' /\ CountInv'
    BY <1>1, PointsStep, RecvOnceStep, CountStep DEF JInv
  <2>2. ClosePending' /\ WriteEnds'
    BY <1>1, <2>1, ClosePendingStep, WriteEndsStep DEF JInv
  <2>3. Data' /\ Lists' /\ Ordered'
    BY <1>1, DataStep, ListsStep, OrderedStep DEF JInv
  <2> QED
    BY <2>1, <2>2, <2>3 DEF JInv
<1>2. CASE UNCHANGED vars
  <2>1. UNCHANGED <<ops, errorCallback, flag, once, ioCount, que, queClosed, conn, sendOverChan,
                    panicked, pc, cpc, waiter, b, res, got, sent, wire, cbCount>>
    BY <1>2 DEF vars, envVars, queVars, netVars, overVars, closeVars, taskVars
  <2>2. InIO' = InIO
    BY <2>1 DEF InIO
  <2>3. Data' /\ Points' /\ RecvOnce'
    BY <2>1 DEF JInv, Data, Points, RecvOnce
  <2>4. CountInv' /\ ClosePending' /\ WriteEnds'
    BY <2>1, <2>2 DEF JInv, CountInv, ClosePending, WriteEnds
  <2>5. Lists' /\ Ordered'
    BY <2>1 DEF JInv, Lists, Ordered, Buffered, WireInOrder
  <2> QED
    BY <2>3, <2>4, <2>5 DEF JInv
<1> QED
  BY <1>1, <1>2

(* In every reachable state the io count is the number of goroutines in an *)
(* operation, and the queue, the buffers and the wire are in the order of  *)
(* Send.                                                                   *)
THEOREM Accounting == Spec => []JInv
  BY InitJInv, NextJInv, Invariance, PTL DEF Spec

(* The messages on the wire are in the order of Send, none twice, however  *)
(* many writes of the task time out half way and are continued, and        *)
(* whichever task takes over the queue.                                    *)
THEOREM InOrder == Spec => []WireInOrder
<1>1. JInv => WireInOrder
  BY DEF JInv, Ordered
<1> QED
  BY <1>1, Accounting, PTL

(* For any number of goroutines, pool routines and messages: ioCount is    *)
(* the number of operations in progress; and when all is quiet a closed    *)
(* session has called closeCallBack once, its write side and that of a     *)
(* closed queue is shut, and an open session has an empty queue.           *)
THEOREM AccountedFor == Spec => []IoAccounted
<1>1. IInv /\ JInv => IoAccounted
  <2> SUFFICES ASSUME IInv, JInv
               PROVE  IoAccounted
    OBVIOUS
  <2>1. ioCount \in Nat
    BY FS_CardinalityType DEF JInv, CountInv
  <2>2. cbCount \in 0..1
    <3>1. cbCount = 0 \/ cbCount = 1
      BY DEF JInv, Data
    <3> QED
      BY SMT, <3>1
  <2>3. TypeOK
    BY <2>1, <2>2 DEF TypeOK, JInv, Data, Lists, IInv, Types
  <2>4. IoCountExact
    <3> DEFINE U == {u \in Users : pc[u] \in {"recv", "ioDone"}}
               T == {t \in Tasks \cup {"recv"} : pc[t] \notin {"idle", "ioTest", "ioClose"}}
    <3>1. InIO = U \cup T
      BY AioSocketAssumption DEF InIO, Counted, Threads
    <3>2. U \cap T = {}
      BY AioSocketAssumption
    <3>3. IoCountExact <=> ioCount = Cardinality(U) + Cardinality(T)
      BY DEF IoCountExact
    <3> HIDE DEF U, T
    <3>4. IsFiniteSet(U) /\ IsFiniteSet(T)
      <4>1. IsFiniteSet(U \cup T) /\ U \in SUBSET (U \cup T) /\ T \in SUBSET (U \cup T)
        BY <3>1 DEF JInv, CountInv
      <4> QED
        BY <4>1, FS_Subset
    <3>5. Cardinality(U \cup T) = Cardinality(U) + Cardinality(T) - Cardinality(U \cap T)
      BY <3>4, FS_Union
    <3>6. Cardinality(U \cap T) = 0 /\ Cardinality(U) \in Nat /\ Cardinality(T) \in Nat
      BY <3>2, <3>4, FS_EmptySet, FS_CardinalityType
    <3>7. ioCount = Cardinality(U \cup T)
      BY <3>1 DEF JInv, CountInv
    <3> QED
      BY SMT, <3>3, <3>5, <3>6, <3>7
  <2>5. QuietMeansDone
    <3> SUFFICES ASSUME Quiet
                 PROVE  /\ "close" \in once => cbCount = 1
                        /\ queClosed => "closeWrite" \in conn
                        /\ "close" \notin once => que = <<>>
      BY DEF QuietMeansDone
    <3>1. \A t \in Threads : pc[t] = "idle" /\ cpc[t] = "none"
      BY DEF Quiet
    <3>2. InIO = {}
      BY <3>1 DEF InIO, Counted
    <3>3. \A t \in Threads : ~Holds(t, pc[t]) /\ ~Tries(t, pc[t]) /\ ~EndsWrite(t, pc[t])
      BY <3>1 DEF Holds, Tries, EndsWrite
    <3>4. "close" \in once => cbCount = 1
      BY <3>1, <3>2 DEF JInv, ClosePending, Data
    <3>5. queClosed => "closeWrite" \in conn
      BY <3>1, <3>3 DEF JInv, WriteEnds, Quiet
    <3>6. "close" \notin once => que = <<>>
      BY <3>3 DEF IInv, Types, Locked, Attended
    <3> QED
      BY <3>4, <3>5, <3>6
  <2> QED
    BY <2>3, <2>4, <2>5 DEF IoAccounted
<1> QED
  BY <1>1, Invariance, Accounting, PTL
=============================================================================
