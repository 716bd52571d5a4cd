------------------------- MODULE StreamSocketProofs -------------------------
(***************************************************************************)
(* Proofs about StreamSocket for any number of goroutines, messages and    *)
(* settings.                                                               *)
(*                                                                         *)
(* closeCallBack is called at most once, with the reason of the Close that *)
(* counts, and is never left to nobody.  The invariant IInv says what      *)
(* ioCount counts, which needs that each goroutine of the session is       *)
(* started once, and in which order the goroutine in Close sets the flags  *)
(* the others test.                                                        *)
(*                                                                         *)
(* What Send accepts goes out in order and at most once, and a session     *)
(* drops nothing but what EnCode rejects while it is open or until the end *)
(* of a delayed Close.  The invariant KInv says where the messages are,    *)
(* and that a delayed Close keeps the connection open as long as the send  *)
(* goroutine has something to write.  What the encoding loop makes of a    *)
(* batch is shown by induction over the batch (EncodeResult).              *)
(***************************************************************************)
EXTENDS StreamSocket, SequenceTheorems, NaturalsInduction, WellFoundedInduction, TLAPS

(* Steps of logic and sets are for Zenon; those that need arithmetic,      *)
(* sequences or updates of functions cite SMT.                             *)
USE Zenon

Io == {"send", "recv"}

PCs == UserPCs \cup SendPCs \cup RecvPCs \cup EndPCs

(* A goroutine of the session that has yet to call ioDone.                 *)
Active(l) == l \notin {"off", "ioTest", "ioDoClose", "end"}

Counts(l) == IF Active(l) THEN 1 ELSE 0

Types ==
  /\ pc \in [Threads -> PCs]
  /\ \A u \in Users : pc[u] \in UserPCs
  /\ cpc \in [Threads -> ClosePCs]
  /\ ioCount = Counts(pc["send"]) + Counts(pc["recv"])
  /\ cbCount \in {0, 1}
  /\ cbCount = 0 <=> "doClose" \notin once

(* l is the place of a goroutine that is about to start the receive        *)
(* goroutine, or to decide on it.                                          *)
Begins(l) == l \in {"beginTest", "startRecv"}

StartedOnce ==
  /\ "send" \notin once => pc["send"] = "off"
  /\ "begin" \notin once => pc["recv"] = "off"
  /\ \A u \in Users : pc[u] = "startSend" => pc["send"] = "off" /\ "send" \in once
  /\ \A u \in Users : Begins(pc[u]) => pc["recv"] = "off" /\ "begin" \in once
  /\ \A u, v \in Users : pc[u] = "startSend" /\ pc[v] = "startSend" => u = v
  /\ \A u, v \in Users : Begins(pc[u]) /\ Begins(pc[v]) => u = v

(* The flags and the reason, as far as the goroutine in Close has got.     *)
InClose ==
  /\ "close" \notin once => "fdoclose" \notin flag /\ \A t \in Threads : cpc[t] = "none"
  /\ \A t \in Threads : cpc[t] # "none" => t = closer
  /\ \A t \in Threads : cpc[t] \notin {"none", "setClosed"} => "fclosed" \in flag
  /\ \A t \in Threads : cpc[t] = "setDoClose" => closeReason = t
  /\ \A t \in Threads : cpc[t] \in {"loadIO", "doClose"} => "fdoclose" \in flag
  /\ "fdoclose" \in flag => "fclosed" \in flag /\ closeReason = closer

Reported ==
  /\ \A t \in Io : pc[t] = "ioDoClose" => "fdoclose" \in flag
  /\ cbCount > 0 => "fdoclose" \in flag /\ cbReason = closer

(* Who finds ioCount at 0 after fdoclose is set finds no callback running. *)
CallbacksOver ==
  /\ \A t \in Threads : cpc[t] = "doClose" => \A s \in Io : pc[s] # "callback"
  /\ cbCount > 0 => \A s \in Io : pc[s] = "callback" => pc[Other(s)] = "end"

IInv == Types /\ StartedOnce /\ InClose /\ Reported /\ CallbacksOver /\ NoLostClose

-----------------------------------------------------------------------------
(* Nothing has been started, and Close has not been called.                *)
LEMMA InitIInv == Init => IInv
<1> SUFFICES ASSUME Init
             PROVE  IInv
  OBVIOUS
<1> USE StreamSocketAssumption DEF StreamSocketAssumption, Init, Threads, Io
<1>1. pc["send"] = "off" /\ pc["recv"] = "off" /\ \A u \in Users : pc[u] = "idle"
  OBVIOUS
<1>2. Types
  BY SMT, <1>1 DEF Types, PCs, UserPCs, EndPCs, ClosePCs, Counts, Active
<1>3. StartedOnce
  BY <1>1 DEF StartedOnce, Begins
<1>4. InClose /\ Reported /\ CallbacksOver /\ NoLostClose
  BY SMT, <1>1 DEF InClose, Reported, CallbacksOver, NoLostClose
<1> QED
  BY <1>2, <1>3, <1>4 DEF IInv

(* A step of t that moves it from one place to another outside Close, and  *)
(* may call Close: it neither starts a goroutine nor ends one, and enters  *)
(* a callback only if fclosed is not set.                                  *)
Moves(t, l) ==
  /\ l \in PCs
  /\ cpc[t] = "none"
  /\ pc' = [pc EXCEPT ![t] = l]
  /\ t \in Io => /\ Active(pc[t]) /\ Active(l)
                 /\ l = "callback" => "fclosed" \notin flag
  /\ t \in Users => /\ l \in UserPCs \ {"startSend", "beginTest"}
                    /\ l = "startRecv" => pc[t] = "beginTest"
  /\ NoCall \/ \E d \in BOOLEAN : CloseCall(t, d)
  /\ UNCHANGED <<ioCount, closeReason, cbVars>>
  /\ "fclosed" \in flag' <=> "fclosed" \in flag
  /\ "fdoclose" \in flag' <=> "fdoclose" \in flag

(* Such a step keeps the invariant.                                        *)
LEMMA MoveStep ==
  ASSUME IInv, NEW t \in Threads, NEW l, Moves(t, l)
  PROVE  IInv'
<1> USE StreamSocketAssumption DEF StreamSocketAssumption, Threads, Io, Moves, IInv, NoCall, CloseCall,
      GotoClose, cbVars
<1>1. Types'
  BY SMT DEF Types, PCs, UserPCs, EndPCs, SendPCs, RecvPCs, ClosePCs, Counts, Active
<1>2. StartedOnce'
  BY SMT DEF Types, StartedOnce, Begins, Active
<1>3. InClose'
  BY DEF Types, InClose
<1>4. Reported'
  BY DEF Types, InClose, Reported, Active
<1>5. CallbacksOver'
  BY DEF Types, InClose, Reported, CallbacksOver, Active, Other
<1>6. NoLostClose'
  <2>1. ("fdoclose" \in flag /\ cbCount = 0) => (ioCount > 0 \/ \E s \in Threads : Responsible(s))
    BY DEF NoLostClose
  <2>2. \A s \in Threads : Responsible(s) => Responsible(s)'
    BY DEF Types, UserPCs, Responsible, Active, InClose
  <2> QED
    BY <2>1, <2>2 DEF NoLostClose
<1> QED
  BY <1>1, <1>2, <1>3, <1>4, <1>5, <1>6

-----------------------------------------------------------------------------
(* The calls of the application, and what follows them.                    *)
LEMMA UserSteps ==
  ASSUME IInv, NEW u \in Users, UserCall(u) \/ UserStep(u)
  PROVE  IInv'
<1>t. /\ u \in Threads \ Io /\ Io \subseteq Threads /\ Users \subseteq Threads \ Io
      /\ pc \in [Threads -> PCs] /\ cpc \in [Threads -> ClosePCs] /\ UserPCs \subseteq PCs
  BY StreamSocketAssumption DEF StreamSocketAssumption, Threads, Io, IInv, Types, PCs
<1> USE DEF Goto, At, sessionVars, closeVars, cbVars
<1>1. ASSUME NEW k \in Kinds, Send(u, k)
      PROVE  IInv'
  <2>1. Moves(u, "sendOnce")
    BY <1>t, <1>1 DEF Send, Moves, NoCall, UserPCs
  <2> QED
    BY <1>t, <2>1, MoveStep
<1>2. CASE BeginRecv(u)
  <2> USE <1>t, <1>2 DEF BeginRecv, IInv
  <2>1. Types'
    BY DEF Types, UserPCs, PCs, Io
  <2>2. StartedOnce'
    BY DEF Types, StartedOnce, Begins, Io
  <2>3. InClose' /\ Reported' /\ CallbacksOver'
    BY DEF Types, InClose, Reported, CallbacksOver, Io, Other
  <2>4. NoLostClose'
    BY DEF Types, NoLostClose, Responsible, Io
  <2> QED
    BY <2>1, <2>2, <2>3, <2>4
<1>3. CASE ShutdownRead(u)
  <2>1. Moves(u, "closeRead")
    BY <1>t, <1>3 DEF ShutdownRead, Moves, NoCall, UserPCs
  <2> QED
    BY <1>t, <2>1, MoveStep
<1>4. CASE ShutdownWrite(u)
  <2>1. \E l \in {"closeWrite", "idle"} : Moves(u, l)
    BY <1>t, <1>4 DEF ShutdownWrite, Moves, NoCall, UserPCs
  <2> QED
    BY <1>t, <2>1, MoveStep
<1>5. CASE DirectSend(u)
  <2>1. Moves(u, "direct")
    BY <1>t, <1>5 DEF DirectSend, Moves, NoCall, UserPCs
  <2> QED
    BY <1>t, <2>1, MoveStep
<1>6. ASSUME NEW d \in BOOLEAN, Close(u, d)
      PROVE  IInv'
  <2>1. pc' = [pc EXCEPT ![u] = "idle"]
    BY <1>t, <1>6 DEF Close
  <2>2. Moves(u, "idle")
    BY <1>t, <1>6, <2>1 DEF Close, Moves, UserPCs
  <2> QED
    BY <1>t, <2>2, MoveStep
<1>7. CASE SendOnce(u)
  <2> USE <1>t, <1>7 DEF SendOnce, IInv
  <2>1. Types'
    BY DEF Types, UserPCs, PCs, Io
  <2>2. StartedOnce'
    BY DEF Types, StartedOnce, Begins, Io
  <2>3. InClose' /\ Reported' /\ CallbacksOver'
    BY DEF Types, InClose, Reported, CallbacksOver, Io, Other
  <2>4. NoLostClose'
    BY DEF Types, NoLostClose, Responsible, Io
  <2> QED
    BY <2>1, <2>2, <2>3, <2>4
<1>8. CASE StartSend(u)
  <2> USE <1>t, <1>8 DEF StartSend, IInv
  <2>1. pc["send"] = "off" /\ pc'["send"] = "get"
    BY DEF StartedOnce, Io
  <2>m. /\ pc' \in [Threads -> PCs]
        /\ pc'[u] = "idle" /\ pc'["recv"] = pc["recv"]
        /\ \A v \in Users \ {u} : pc'[v] = pc[v]
    <3>1. pc' = [pc EXCEPT ![u] = "idle", !["send"] = "get"]
      OBVIOUS
    <3>2. pc \in [Threads -> PCs] /\ u \in Threads /\ "send" \in Threads /\ u # "send"
      BY DEF Types, Threads, Io
    <3>3. "idle" \in PCs /\ "get" \in PCs
      BY DEF PCs, UserPCs, SendPCs
    <3> HIDE DEF StartSend, StartRecv, IInv
    <3> QED
      BY <1>t, <3>1, <3>2, <3>3 DEF Threads, Io
  <2>2. Types'
    BY SMT, <2>1, <2>m DEF Types, UserPCs, Counts, Active
  <2>3. StartedOnce'
    <3>s. StartedOnce /\ once' = once
      OBVIOUS
    <3> HIDE <1>8 DEF StartSend, IInv
    <3>1. \A v \in Users : pc'[v] # "startSend"
      BY <1>8, <2>m, <3>s DEF StartSend, At, StartedOnce
    <3>2. \A v \in Users : Begins(pc'[v]) => Begins(pc[v])
      BY <2>m DEF Begins
    <3>3. "send" \in once
      BY <1>8, <3>s DEF StartSend, At, StartedOnce
    <3> QED
      BY <2>m, <3>s, <3>1, <3>2, <3>3 DEF StartedOnce
  <2>4. InClose' /\ Reported'
    BY <2>1 DEF Types, InClose, Reported, Io
  <2>5. CallbacksOver'
    BY <2>1 DEF Types, CallbacksOver, Io, Other
  <2>6. ioCount' > 0
    BY SMT DEF Types, Counts
  <2>7. NoLostClose'
    BY <2>6 DEF NoLostClose
  <2> QED
    BY <2>2, <2>3, <2>4, <2>5, <2>7
<1>9. CASE BeginTest(u)
  <2>1. \E l \in {"idle", "startRecv"} : Moves(u, l)
    BY <1>t, <1>9 DEF BeginTest, Moves, NoCall, UserPCs
  <2> QED
    BY <1>t, <2>1, MoveStep
<1>10. CASE StartRecv(u)
  <2> USE <1>t, <1>10 DEF StartRecv, IInv
  <2>1. pc["recv"] = "off" /\ pc'["recv"] = "test"
    BY DEF StartedOnce, Begins, Io
  <2>m. /\ pc' \in [Threads -> PCs]
        /\ pc'[u] = "idle" /\ pc'["send"] = pc["send"]
        /\ \A v \in Users \ {u} : pc'[v] = pc[v]
    <3>1. pc' = [pc EXCEPT ![u] = "idle", !["recv"] = "test"]
      OBVIOUS
    <3>2. pc \in [Threads -> PCs] /\ u \in Threads /\ "recv" \in Threads /\ u # "recv"
      BY DEF Types, Threads, Io
    <3>3. "idle" \in PCs /\ "test" \in PCs
      BY DEF PCs, UserPCs, RecvPCs
    <3> HIDE DEF StartSend, StartRecv, IInv
    <3> QED
      BY <1>t, <3>1, <3>2, <3>3 DEF Threads, Io
  <2>2. Types'
    BY SMT, <2>1, <2>m DEF Types, UserPCs, Counts, Active
  <2>3. StartedOnce'
    <3>s. StartedOnce /\ once' = once
      OBVIOUS
    <3> HIDE <1>10 DEF StartRecv, IInv
    <3>1. \A v \in Users : ~Begins(pc'[v])
      BY <1>10, <2>m, <3>s DEF StartRecv, At, StartedOnce, Begins
    <3>2. \A v \in Users : pc'[v] = "startSend" => pc[v] = "startSend"
      BY <2>m
    <3>3. "begin" \in once
      BY <1>10, <3>s DEF StartRecv, At, StartedOnce, Begins
    <3> QED
      BY <2>m, <3>s, <3>1, <3>2, <3>3 DEF StartedOnce
  <2>4. InClose' /\ Reported'
    BY <2>1 DEF Types, InClose, Reported, Io
  <2>5. CallbacksOver'
    BY <2>1 DEF Types, CallbacksOver, Io, Other
  <2>6. ioCount' > 0
    BY SMT DEF Types, Counts
  <2>7. NoLostClose'
    BY <2>6 DEF NoLostClose
  <2> QED
    BY <2>2, <2>3, <2>4, <2>5, <2>7
<1>11. CASE ShutdownConn(u)
  <2>1. Moves(u, "idle")
    BY <1>t, <1>11 DEF ShutdownConn, Moves, NoCall, UserPCs
  <2> QED
    BY <1>t, <2>1, MoveStep
<1>12. CASE DirectWrite(u)
  <2>1. Moves(u, "idle")
    BY <1>t, <1>12 DEF DirectWrite, Moves, NoCall, UserPCs
  <2> QED
    BY <1>t, <2>1, MoveStep
<1> QED
  BY <1>1, <1>2, <1>3, <1>4, <1>5, <1>6, <1>7, <1>8, <1>9, <1>10, <1>11, <1>12 DEF UserCall, UserStep

(* The steps of Close.  After the one that sets fdoclose, the goroutine is *)
(* responsible for closeCallBack until it has seen ioCount positive.       *)
LEMMA CloseSteps ==
  ASSUME IInv, NEW t \in Threads, CloseStep(t)
  PROVE  IInv'
<1>t. Io \subseteq Threads
  BY DEF Io, Threads
<1> USE <1>t DEF IInv, GotoClose, cbVars, closeVars, sessionVars
<1>1. CASE CloseSetClosed(t) \/ CloseQueue(t) \/ CloseSetRClosed(t) \/ CloseRead(t) \/ CloseConn(t)
  <2> USE <1>1 DEF CloseSetClosed, CloseQueue, CloseSetRClosed, CloseRead, CloseConn
  <2>1. Types' /\ StartedOnce' /\ Reported'
    BY SMT DEF Types, ClosePCs, StartedOnce, Reported
  <2>2. InClose'
    BY DEF Types, InClose
  <2>3. CallbacksOver'
    BY DEF Types, CallbacksOver, Other
  <2>4. NoLostClose'
    BY SMT DEF Types, NoLostClose, Responsible
  <2> QED
    BY <2>1, <2>2, <2>3, <2>4
<1>2. CASE CloseSetReason(t)
  <2> USE <1>2 DEF CloseSetReason
  <2>1. Types' /\ StartedOnce' /\ Reported'
    BY DEF Types, ClosePCs, StartedOnce, Reported
  <2>2. InClose'
    BY DEF Types, InClose
  <2>3. CallbacksOver'
    BY DEF Types, CallbacksOver, Other
  <2>4. NoLostClose'
    BY DEF Types, NoLostClose, Responsible
  <2> QED
    BY <2>1, <2>2, <2>3, <2>4
<1>3. CASE CloseSetDoClose(t)
  <2> USE <1>3 DEF CloseSetDoClose
  <2>1. Types' /\ StartedOnce' /\ Reported'
    BY DEF Types, ClosePCs, StartedOnce, Reported
  <2>2. InClose'
    BY DEF Types, InClose
  <2>3. CallbacksOver'
    BY DEF Types, CallbacksOver, Other
  <2>4. NoLostClose'
    BY DEF Types, NoLostClose, Responsible
  <2> QED
    BY <2>1, <2>2, <2>3, <2>4
<1>4. CASE CloseLoadIO(t)
  <2> USE <1>4 DEF CloseLoadIO
  <2>1. Types' /\ StartedOnce' /\ Reported'
    BY DEF Types, ClosePCs, StartedOnce, Reported
  <2>2. InClose'
    BY DEF Types, InClose
  <2>3. CallbacksOver'
    <3>1. ioCount = 0 => \A s \in Io : pc[s] # "callback"
      BY SMT DEF Types, Counts, Active, Io
    <3> QED
      BY <3>1 DEF Types, CallbacksOver, Other
  <2>4. NoLostClose'
    <3>1. ioCount = 0 \/ ioCount > 0
      BY SMT DEF Types, Counts
    <3> QED
      BY <3>1 DEF Types, NoLostClose, Responsible
  <2> QED
    BY <2>1, <2>2, <2>3, <2>4
<1>5. CASE CloseDoClose(t)
  <2> USE <1>5 DEF CloseDoClose, DoClose
  <2>1. cbCount' = 1 /\ "doClose" \in once'
    BY SMT DEF Types
  <2>2. Types' /\ StartedOnce'
    BY SMT, <2>1 DEF Types, ClosePCs, StartedOnce
  <2>3. InClose'
    BY DEF Types, InClose
  <2>4. Reported'
    BY DEF Types, InClose, Reported
  <2>5. CallbacksOver'
    BY <2>1 DEF Types, CallbacksOver, Other
  <2>6. NoLostClose'
    BY SMT, <2>1 DEF NoLostClose
  <2> QED
    BY <2>2, <2>3, <2>4, <2>5, <2>6
<1> QED
  BY <1>1, <1>2, <1>3, <1>4, <1>5 DEF CloseStep

(* The steps of ioDone.  The goroutine whose decrement reaches 0 is        *)
(* responsible until it has seen fdoclose unset.                           *)
LEMMA IoSteps ==
  ASSUME IInv, NEW t \in Io, IoStep(t)
  PROVE  IInv'
<1>t. t \in Threads /\ Io \subseteq Threads /\ Users \subseteq Threads \ Io
  BY StreamSocketAssumption DEF StreamSocketAssumption, Io, Threads
<1>m. ASSUME NEW l \in EndPCs, pc' = [pc EXCEPT ![t] = l]
      PROVE  /\ pc' \in [Threads -> PCs]
             /\ pc'[t] = l
             /\ \A s \in Threads \ {t} : pc'[s] = pc[s]
  BY <1>t, <1>m DEF IInv, Types, PCs
<1> USE <1>t DEF IInv, At, Goto, cbVars, closeVars, sessionVars
<1>1. CASE IoDone(t)
  <2> USE <1>1 DEF IoDone
  <2> DEFINE l == IF ioCount' = 0 THEN "ioTest" ELSE "end"
  <2>1. /\ pc' \in [Threads -> PCs] /\ pc'[t] = l
        /\ \A s \in Threads \ {t} : pc'[s] = pc[s]
    BY <1>m DEF EndPCs
  <2>2. pc[t] = "ioDone" /\ Counts(pc[t]) = 1 /\ Counts(pc'[t]) = 0
    BY <2>1 DEF Counts, Active
  <2>3. Types'
    BY SMT, <2>1, <2>2 DEF Types, Io, Counts
  <2>4. StartedOnce'
    BY <2>1, <2>2 DEF StartedOnce, Begins, Io
  <2>5. InClose' /\ Reported'
    BY <2>1, <2>2 DEF InClose, Reported
  <2>6. CallbacksOver'
    BY <2>1, <2>2 DEF CallbacksOver, Other, Io
  <2>7. NoLostClose'
    <3>1. ioCount' = 0 \/ ioCount' > 0
      BY SMT, <2>3 DEF Types, Counts
    <3> QED
      BY <2>1, <3>1 DEF NoLostClose, Responsible
  <2> QED
    BY <2>3, <2>4, <2>5, <2>6, <2>7
<1>2. CASE IoTest(t)
  <2> USE <1>2 DEF IoTest
  <2> DEFINE l == IF "fdoclose" \in flag THEN "ioDoClose" ELSE "end"
  <2>1. /\ pc' \in [Threads -> PCs] /\ pc'[t] = l
        /\ \A s \in Threads \ {t} : pc'[s] = pc[s]
    BY <1>m DEF EndPCs
  <2>2. pc[t] = "ioTest" /\ Counts(pc[t]) = 0 /\ Counts(pc'[t]) = 0
    BY <2>1 DEF Counts, Active
  <2>3. Types'
    BY <2>1, <2>2 DEF Types, Io, Counts
  <2>4. StartedOnce'
    BY <2>1, <2>2 DEF StartedOnce, Begins, Io
  <2>5. InClose' /\ Reported'
    BY <2>1, <2>2 DEF InClose, Reported
  <2>6. CallbacksOver'
    BY <2>1, <2>2 DEF CallbacksOver, Other, Io
  <2>7. NoLostClose'
    BY <2>1 DEF NoLostClose, Responsible
  <2> QED
    BY <2>3, <2>4, <2>5, <2>6, <2>7
<1>3. CASE IoDoClose(t)
  <2> USE <1>3 DEF IoDoClose, DoClose
  <2>1. /\ pc' \in [Threads -> PCs] /\ pc'[t] = "end"
        /\ \A s \in Threads \ {t} : pc'[s] = pc[s]
    BY <1>m DEF EndPCs
  <2>2. pc[t] = "ioDoClose" /\ Counts(pc[t]) = 0 /\ Counts(pc'[t]) = 0
    BY <2>1 DEF Counts, Active
  <2>3. cbCount' = 1 /\ "doClose" \in once'
    BY SMT DEF Types
  <2>4. Types'
    BY SMT, <2>1, <2>2, <2>3 DEF Types, Io, Counts
  <2>5. StartedOnce'
    BY <2>1, <2>2 DEF StartedOnce, Begins, Io
  <2>6. InClose'
    BY <2>1, <2>2 DEF InClose
  <2>7. Reported'
    BY <2>1, <2>2 DEF Types, InClose, Reported
  <2>8. CallbacksOver'
    BY <2>1, <2>2 DEF CallbacksOver, Other, Io
  <2>9. NoLostClose'
    BY SMT, <2>3 DEF NoLostClose
  <2> QED
    BY <2>4, <2>5, <2>6, <2>7, <2>8, <2>9
<1> QED
  BY <1>1, <1>2, <1>3 DEF IoStep

(* The steps of the send goroutine and of the receive goroutine.           *)
LEMMA SendRecvSteps ==
  ASSUME IInv, SendStep \/ Write \/ RecvStep \/ Read
  PROVE  IInv'
<1>t. "send" \in Threads \ Users /\ "recv" \in Threads \ Users
  BY StreamSocketAssumption DEF StreamSocketAssumption, Threads
<1>p. SendPCs \subseteq PCs /\ RecvPCs \subseteq PCs /\ "ioDone" \in PCs
  BY DEF PCs, EndPCs
<1> USE <1>t, <1>p DEF Moves, Goto, At, Active, Io, NoCall, sessionVars, closeVars, cbVars,
         SendPCs, RecvPCs
<1>1. ASSUME SendGet \/ SendCloseWrite \/ SendLoop \/ SendFailedTest \/ SendCloseChan
      PROVE  \E l : Moves("send", l)
  BY <1>1 DEF SendGet, SendCloseWrite, SendLoop, SendFailedTest, SendCloseChan
<1>2. ASSUME SendFailed
      PROVE  \E l : Moves("send", l)
  BY <1>2 DEF SendFailed
<1>3. ASSUME SendCallback
      PROVE  \E l : Moves("send", l)
  BY <1>3 DEF SendCallback, CallbackReturns
<1>4. ASSUME Write
      PROVE  \E l : Moves("send", l)
  BY <1>4 DEF Write, SendWrite, SendWriteErr
<1>5. ASSUME RecvTest \/ Read
      PROVE  \E l : Moves("recv", l)
  BY <1>5 DEF RecvTest, Read, RecvRead
<1>6. ASSUME RecvCheck
      PROVE  \E l : Moves("recv", l)
  <2>1. CASE flag \cap Closing # {}
    <3>1. Moves("recv", "ioDone")
      BY <1>6, <2>1 DEF RecvCheck
    <3> QED
      BY <3>1
  <2>2. CASE flag \cap Closing = {}
    <3> DEFINE l == IF got = "msg" \/ opt.errorCallback THEN "callback" ELSE "test"
    <3>1. l \in {"callback", "test"} /\ Goto("recv", l)
      BY <1>6, <2>2 DEF RecvCheck
    <3>2. "fclosed" \notin flag
      BY <2>2 DEF Closing
    <3>3. "fclosed" \notin flag' /\ ("fdoclose" \in flag' <=> "fdoclose" \in flag)
      <4>1. flag' = flag \/ flag' = flag \cup {"frclosed"}
        BY <1>6, <2>2 DEF RecvCheck
      <4> QED
        BY <3>2, <4>1
    <3>4. NoCall \/ \E d \in BOOLEAN : CloseCall("recv", d)
      BY <1>6, <2>2 DEF RecvCheck
    <3>5. Moves("recv", l)
      BY <1>6, <3>1, <3>2, <3>3, <3>4 DEF RecvCheck
    <3> QED
      BY <3>5
  <2> QED
    BY <2>1, <2>2
<1>7. ASSUME RecvCallback
      PROVE  \E l : Moves("recv", l)
  BY <1>7 DEF RecvCallback, CallbackReturns
<1> HIDE DEF Moves
<1> QED
  BY <1>1, <1>2, <1>3, <1>4, <1>5, <1>6, <1>7, MoveStep DEF SendStep, RecvStep

-----------------------------------------------------------------------------
(* The invariant is inductive.  The goroutine of a delayed Close touches   *)
(* nothing the invariant speaks of.                                        *)
LEMMA NextIInv == IInv /\ [Next]_vars => IInv'
<1> SUFFICES ASSUME IInv, [Next]_vars
             PROVE  IInv'
  OBVIOUS
<1>1. CASE \E u \in Users : UserCall(u) \/ UserStep(u)
  BY <1>1, UserSteps
<1>2. CASE \E t \in Threads : CloseStep(t)
  BY <1>2, CloseSteps
<1>3. CASE \E t \in {"send", "recv"} : IoStep(t)
  BY <1>3, IoSteps DEF Io
<1>4. CASE SendStep \/ Write \/ RecvStep \/ Read
  BY <1>4, SendRecvSteps
<1>5. CASE (\E how \in {"sent", "expired"} : Waiter(how)) \/ UNCHANGED vars
  <2>1. UNCHANGED <<flag, once, ioCount, closeReason, pc, cpc, closer, cbCount, cbReason>>
    BY <1>5 DEF Waiter, vars, sessionVars, closeVars, cbVars
  <2> QED
    BY <2>1 DEF IInv, Types, StartedOnce, InClose, Reported, CallbacksOver, NoLostClose, Responsible
<1> QED
  BY <1>1, <1>2, <1>3, <1>4, <1>5 DEF Next

(* In every state a session reaches, ioCount counts its goroutines, and    *)
(* flags, reason and callback are where Close and ioDone have got.         *)
THEOREM Invariance == Spec => []IInv
  BY InitIInv, NextIInv, PTL DEF Spec

(* Once Close has set fdoclose, closeCallBack has been called or somebody  *)
(* is still going to: ioDone decrements and then tests fdoclose, Close     *)
(* sets fdoclose and then loads ioCount, and one of them sees the other.   *)
THEOREM CloseIsReported == Spec => []NoLostClose
<1>1. IInv => NoLostClose
  BY DEF IInv
<1> QED
  BY <1>1, Invariance, PTL

(* closeCallBack is called at most once, with the reason given to the      *)
(* Close that won closeOnce, and not while another callback of the session *)
(* runs, but for a goroutine whose ioDone saw 0 before the other goroutine *)
(* was started.                                                            *)
THEOREM ReportedOnce == Spec => []CloseCallbackOnce
<1>1. IInv => CloseCallbackOnce
  BY SMT DEF IInv, Types, Reported, CallbacksOver, CloseCallbackOnce, Io
<1> QED
  BY <1>1, Invariance, PTL
-----------------------------------------------------------------------------
(* The second invariant: where the messages are, and what a Close with a   *)
(* delay has to wait for.                                                  *)

(* The places in Close up to the close of the connection.                  *)
Early == {"setClosed", "closeQueue", "setRClosed", "closeRead", "netClose"}

(* The places of the send goroutine after its loop.                        *)
Ended == {"closeChan", "ioDone", "ioTest", "ioDoClose", "end"}

(* A Close with a delay has found messages in the queue, and the ticker    *)
(* has not fired.                                                          *)
Delaying ==
  \/ waiter \in {"wait", "sent"}
  \/ \E t \in Threads : cpc[t] \in {"setRClosed", "closeRead"}

(* Nothing else shuts the connection during a delayed Close before the     *)
(* send goroutine has found the closed queue empty.                        *)
Delays ==
  /\ "closeWrite" \in conn \/ (\E u \in Users : pc[u] = "closeWrite") => queClosed /\ que = <<>>
  /\ pc["send"] = "closeWrite" \/ pc["send"] \in Ended => queClosed /\ que = <<>>
  /\ sendCloseChan => pc["send"] \in Ended \ {"closeChan"}
  /\ waiter = "sent" => sendCloseChan
  /\ waiter # "off" \/ "close" \in conn =>
       "close" \in once /\ \A t \in Threads : cpc[t] \notin Early
  /\ Delaying => /\ queClosed
                 /\ \A u \in Users : pc[u] # "closeWrite"
                 /\ "close" \in conn => waiter = "sent"
                 /\ "closeWrite" \in conn => pc["send"] \in Ended

(* How many messages have been through the encoding loop.                  *)
Taken == Len(sent) - Len(que) - Len(batch)

(* A message is its number in sent; batch and then que are the end of it.  *)
Numbered ==
  /\ Len(sent) <= MaxMsgs
  /\ Len(que) + Len(batch) <= Len(sent)
  /\ \A i \in 1..Len(sent) : sent[i].id = i
  /\ \A i \in 1..Len(batch) : batch[i] = sent[Taken + i]
  /\ \A i \in 1..Len(que) : que[i] = sent[Taken + Len(batch) + i]
  /\ pc["send"] # "loop" => batch = <<>>

(* The send goroutine still has to deal with what is in b.                 *)
Holding == pc["send"] \in {"write", "failed", "callback", "failedTest"}

(* The units of queued messages in s are in order.                         *)
Ascending(s) ==
  \A i, j \in DOMAIN s : s[i][1] # 0 /\ s[j][1] # 0 /\ i < j => Before(s[i], s[j])

(* Those in r come before those in s.                                      *)
Precedes(r, s) ==
  \A i \in DOMAIN r, j \in DOMAIN s : r[i][1] # 0 /\ s[j][1] # 0 => Before(r[i], s[j])

(* A unit is of a message that was encoded and not rejected.               *)
Passed(x) == x[1] # 0 => x[1] <= Taken /\ sent[x[1]].kind # "bad"

(* All units of a list are.                                                *)
Accepted(s) == \A i \in DOMAIN s : Passed(s[i])

(* What is on the wire is in order, and what is in b continues it.         *)
Ordered ==
  /\ Ascending(wire) /\ Accepted(wire)
  /\ Holding => Ascending(b) /\ Accepted(b) /\ Precedes(wire, b)

(* An error of EnCode does not reach a message of another kind.            *)
NoStale == ~({"bytes", "bad"} \subseteq Kinds)

(* err was not set by a write, and its message was a rejected one.         *)
CleanErr(e) == e = "nil" \/ (e = "encode" /\ "bad" \in Kinds)

(* Unit k of message i is on the wire, or about to be written.             *)
Written(i, k) ==
  \/ \E j \in DOMAIN wire : wire[j] = <<i, k>>
  \/ pc["send"] = "write" /\ \E j \in DOMAIN b : b[j] = <<i, k>>

(* No write has failed, and no message was lost.                           *)
Complete ==
  NoStale /\ ~netErr /\ (Open \/ Delaying) =>
    /\ pc["send"] \notin {"failed", "callback", "failedTest"}
    /\ CleanErr(err)
    /\ \A i \in 1..Taken : sent[i].kind # "bad" => \A k \in 1..Units : Written(i, k)

(* The types of the lists of messages and units.                           *)
Lists ==
  /\ que \in Seq(Msgs) /\ batch \in Seq(Msgs) /\ sent \in Seq(Msgs)
  /\ b \in Seq((1..MaxMsgs) \X (1..Units))
  /\ wire \in Seq((0..MaxMsgs) \X (1..Units))

(* The other types.                                                        *)
Data ==
  /\ opt \in Options
  /\ flag \subseteq Closing \cup {"fdoclose"}
  /\ once \subseteq {"close", "begin", "send", "doClose"}
  /\ queClosed \in BOOLEAN /\ sendCloseChan \in BOOLEAN /\ delay \in BOOLEAN /\ netErr \in BOOLEAN
  /\ conn \subseteq {"close", "closeRead", "closeWrite"}
  /\ pc["send"] \in SendPCs \cup EndPCs /\ pc["recv"] \in RecvPCs \cup EndPCs
  /\ waiter \in {"off", "wait", "sent", "expired"}
  /\ err \in {"nil", "encode", "timeout", "io"}
  /\ got \in {"none", "msg", "unpack", "timeout", "io"}
  /\ {closeReason, closer, cbReason} \subseteq Threads \cup {"none"}

(* The invariant.                                                          *)
KInv == Data /\ Lists /\ Delays /\ Numbered /\ Ordered /\ Complete

-----------------------------------------------------------------------------
(* Lists of units.                                                         *)

(* q is r followed by s.                                                   *)
JoinSize(r, s, q) ==
  /\ DOMAIN r = 1..Len(r) /\ DOMAIN s = 1..Len(s) /\ DOMAIN q = 1..(Len(r) + Len(s))
  /\ Len(r) \in Nat /\ Len(s) \in Nat

(* The places of both lists in q.                                          *)
JoinKeeps(r, s, q) ==
  /\ \A i \in DOMAIN r : i \in DOMAIN q /\ q[i] = r[i]
  /\ \A i \in DOMAIN s : Len(r) + i \in DOMAIN q /\ q[Len(r) + i] = s[i]

(* Where an element of q comes from.                                       *)
JoinOnly(r, s, q) ==
  \A i \in DOMAIN q :
    \/ i \in DOMAIN r /\ q[i] = r[i]
    \/ i - Len(r) \in DOMAIN s /\ i > Len(r) /\ q[i] = s[i - Len(r)]

Join(r, s, q) == JoinSize(r, s, q) /\ JoinKeeps(r, s, q) /\ JoinOnly(r, s, q)

(* What a concatenation holds.                                             *)
LEMMA Joined ==
  ASSUME NEW S, NEW r \in Seq(S), NEW s \in Seq(S)
  PROVE  r \o s \in Seq(S) /\ Join(r, s, r \o s)
<1>1. /\ r \o s \in Seq(S) /\ Len(r \o s) = Len(r) + Len(s)
      /\ \A i \in 1..(Len(r) + Len(s)) : (r \o s)[i] = IF i <= Len(r) THEN r[i] ELSE s[i - Len(r)]
  BY SMT, ConcatProperties
<1> DEFINE q == r \o s
<1>2. DOMAIN r = 1..Len(r) /\ DOMAIN s = 1..Len(s) /\ Len(r) \in Nat /\ Len(s) \in Nat
  BY LenProperties
<1>3. DOMAIN q = 1..(Len(r) + Len(s))
  BY <1>1, LenProperties
<1>q. \A i \in 1..(Len(r) + Len(s)) : q[i] = IF i <= Len(r) THEN r[i] ELSE s[i - Len(r)]
  BY <1>1
<1> HIDE DEF q
<1>4. /\ \A i \in 1..Len(r) : i \in 1..(Len(r) + Len(s)) /\ i <= Len(r)
      /\ \A i \in 1..Len(s) : /\ Len(r) + i \in 1..(Len(r) + Len(s)) /\ ~(Len(r) + i <= Len(r))
                              /\ (Len(r) + i) - Len(r) = i
      /\ \A i \in 1..(Len(r) + Len(s)) :
           \/ i \in 1..Len(r) /\ i <= Len(r)
           \/ i - Len(r) \in 1..Len(s) /\ ~(i <= Len(r)) /\ i > Len(r)
  BY SMT, <1>2
<1>5. \A i \in DOMAIN r : i \in DOMAIN q /\ q[i] = r[i]
  BY <1>2, <1>3, <1>4, <1>q
<1>6. ASSUME NEW i \in DOMAIN s
      PROVE  Len(r) + i \in DOMAIN q /\ q[Len(r) + i] = s[i]
  <2>1. /\ Len(r) + i \in 1..(Len(r) + Len(s)) /\ ~(Len(r) + i <= Len(r))
        /\ (Len(r) + i) - Len(r) = i
    BY <1>2, <1>4
  <2>2. q[Len(r) + i] = s[(Len(r) + i) - Len(r)]
    BY <1>q, <2>1
  <2> QED
    BY <1>3, <2>1, <2>2
<1>7. ASSUME NEW i \in DOMAIN q
      PROVE  \/ i \in DOMAIN r /\ q[i] = r[i]
             \/ i - Len(r) \in DOMAIN s /\ i > Len(r) /\ q[i] = s[i - Len(r)]
  <2>1. q[i] = IF i <= Len(r) THEN r[i] ELSE s[i - Len(r)]
    BY <1>3, <1>q
  <2>2. \/ i \in 1..Len(r) /\ i <= Len(r)
        \/ i - Len(r) \in 1..Len(s) /\ ~(i <= Len(r)) /\ i > Len(r)
    BY <1>3, <1>4
  <2> QED
    BY <1>2, <2>1, <2>2
<1>8. Join(r, s, q)
  <2>1. JoinSize(r, s, q)
    BY <1>2, <1>3 DEF JoinSize
  <2>2. JoinKeeps(r, s, q)
    BY <1>5, <1>6 DEF JoinKeeps
  <2>3. JoinOnly(r, s, q)
    BY <1>7 DEF JoinOnly
  <2> QED
    BY <2>1, <2>2, <2>3 DEF Join
<1> QED
  BY <1>1, <1>8 DEF q

(* Lists in order, one before the other, are in order together.            *)
LEMMA Merge ==
  ASSUME NEW r, NEW s, NEW q, Join(r, s, q), Ascending(r), Ascending(s), Precedes(r, s)
  PROVE  Ascending(q)
<1> SUFFICES ASSUME NEW i \in DOMAIN q, NEW j \in DOMAIN q, q[i][1] # 0, q[j][1] # 0, i < j
             PROVE  Before(q[i], q[j])
  BY DEF Ascending
<1>1. \/ i \in DOMAIN r /\ q[i] = r[i]
      \/ i - Len(r) \in DOMAIN s /\ i > Len(r) /\ q[i] = s[i - Len(r)]
  BY DEF Join, JoinOnly
<1>2. \/ j \in DOMAIN r /\ q[j] = r[j]
      \/ j - Len(r) \in DOMAIN s /\ j > Len(r) /\ q[j] = s[j - Len(r)]
  BY DEF Join, JoinOnly
<1>3. DOMAIN r = 1..Len(r) /\ DOMAIN q = 1..(Len(r) + Len(s)) /\ Len(r) \in Nat /\ Len(s) \in Nat
  BY DEF Join, JoinSize
<1>4. i - Len(r) < j - Len(r) /\ ~(i > Len(r) /\ j \in DOMAIN r)
  BY SMT, <1>3
<1> QED
  <2>1. CASE i \in DOMAIN r /\ q[i] = r[i]
    BY <1>2, <2>1 DEF Ascending, Precedes
  <2>2. CASE i - Len(r) \in DOMAIN s /\ i > Len(r) /\ q[i] = s[i - Len(r)]
    BY <1>2, <1>4, <2>2 DEF Ascending
  <2> QED
    BY <1>1, <2>1, <2>2

(* What stands before a list stands before it as a part of a longer one.   *)
LEMMA PrecedesJoined ==
  ASSUME NEW r, NEW s, NEW q, Join(r, s, q), NEW z, Precedes(r, z), Precedes(s, z)
  PROVE  Precedes(q, z)
<1>1. \A i \in DOMAIN q : (\E k \in DOMAIN r : q[i] = r[k]) \/ (\E k \in DOMAIN s : q[i] = s[k])
  BY DEF Join, JoinOnly
<1> QED
  BY <1>1 DEF Precedes

(* s is p followed by r.                                                   *)
CutInTwo(s, n, p, r) ==
  /\ DOMAIN p = 1..n
  /\ \A i \in DOMAIN p : i \in DOMAIN s /\ p[i] = s[i]
  /\ DOMAIN r = 1..(Len(s) - n)
  /\ \A i \in DOMAIN r : n + i \in DOMAIN s /\ r[i] = s[n + i]

(* A list cut in two.                                                      *)
LEMMA Cut ==
  ASSUME NEW S, NEW s \in Seq(S), NEW n \in 0..Len(s)
  PROVE  /\ SubSeq(s, 1, n) \in Seq(S) /\ SubSeq(s, n + 1, Len(s)) \in Seq(S)
         /\ CutInTwo(s, n, SubSeq(s, 1, n), SubSeq(s, n + 1, Len(s)))
<1>1. /\ Len(s) \in Nat /\ n \in Int /\ n + 1 \in Int /\ Len(s) \in Int /\ 1 \in Int
      /\ \A i \in 1..n : i \in 1..Len(s)
      /\ \A i \in (n + 1)..Len(s) : i \in 1..Len(s)
      /\ \A i \in 1..(Len(s) - n) : n + i \in 1..Len(s)
  BY SMT
<1>2. (\A i \in 1..Len(s) : s[i] \in S) /\ DOMAIN s = 1..Len(s)
  BY LenProperties
<1> DEFINE p == SubSeq(s, 1, n)
           r == SubSeq(s, n + 1, Len(s))
<1>3. /\ p \in Seq(S) /\ Len(p) = IF 1 <= n THEN n - 1 + 1 ELSE 0
      /\ \A i \in 1..(n - 1 + 1) : p[i] = s[1 + i - 1]
  <2>1. \A i \in 1..n : s[i] \in S
    BY <1>1, <1>2
  <2> QED
    BY SMT, <1>1, <2>1, SubSeqProperties
<1>4. /\ r \in Seq(S)
      /\ Len(r) = IF n + 1 <= Len(s) THEN Len(s) - (n + 1) + 1 ELSE 0
      /\ \A i \in 1..(Len(s) - (n + 1) + 1) : r[i] = s[n + 1 + i - 1]
  <2>1. \A i \in (n + 1)..Len(s) : s[i] \in S
    BY <1>1, <1>2
  <2> QED
    BY SMT, <1>1, <2>1, SubSeqProperties
<1> HIDE DEF p, r
<1>5. Len(p) = n /\ \A i \in 1..n : p[i] = s[i]
  BY SMT, <1>1, <1>3
<1>6. Len(r) = Len(s) - n /\ \A i \in 1..(Len(s) - n) : r[i] = s[n + i]
  BY SMT, <1>1, <1>4
<1>7. DOMAIN p = 1..n /\ DOMAIN r = 1..(Len(s) - n)
  BY <1>3, <1>4, <1>5, <1>6, LenProperties
<1>8. CutInTwo(s, n, p, r)
  BY <1>1, <1>2, <1>5, <1>6, <1>7 DEF CutInTwo
<1> QED
  BY <1>3, <1>4, <1>8 DEF p, r

(* The parts of a list in order are in order.                              *)
LEMMA CutAscending ==
  ASSUME NEW s, NEW n \in Nat, Len(s) \in Nat, NEW p, NEW r, CutInTwo(s, n, p, r), Ascending(s)
  PROVE  Ascending(p) /\ Ascending(r) /\ Precedes(p, r)
<1>1. Ascending(p)
  BY DEF CutInTwo, Ascending
<1>2. /\ \A i, j \in DOMAIN r : i < j => n + i < n + j
      /\ \A i \in DOMAIN p, j \in DOMAIN r : i < n + j
  <2>1. DOMAIN p = 1..n /\ DOMAIN r = 1..(Len(s) - n)
    BY DEF CutInTwo
  <2> QED
    BY SMT, <2>1
<1>3. Ascending(r)
  <2> SUFFICES ASSUME NEW i \in DOMAIN r, NEW j \in DOMAIN r, r[i][1] # 0, r[j][1] # 0, i < j
               PROVE  Before(r[i], r[j])
    BY DEF Ascending
  <2>1. /\ n + i \in DOMAIN s /\ n + j \in DOMAIN s /\ r[i] = s[n + i] /\ r[j] = s[n + j]
        /\ n + i < n + j
    BY <1>2 DEF CutInTwo
  <2> QED
    BY <2>1 DEF Ascending
<1>4. Precedes(p, r)
  <2> SUFFICES ASSUME NEW i \in DOMAIN p, NEW j \in DOMAIN r, p[i][1] # 0, r[j][1] # 0
               PROVE  Before(p[i], r[j])
    BY DEF Precedes
  <2>1. i \in DOMAIN s /\ n + j \in DOMAIN s /\ p[i] = s[i] /\ r[j] = s[n + j] /\ i < n + j
    BY <1>2 DEF CutInTwo
  <2> QED
    BY <2>1 DEF Ascending
<1> QED
  BY <1>1, <1>3, <1>4

(* Induction over a set of numbers.                                        *)
LEMMA EveryNat ==
  ASSUME NEW S \in SUBSET Nat, 0 \in S, \A n \in S : n + 1 \in S
  PROVE  S = Nat
<1> DEFINE B == Nat \ S
<1> SUFFICES ASSUME B # {}
             PROVE  FALSE
  OBVIOUS
<1>1. PICK n \in B : \A k \in B : ~(<<k, n>> \in OpToRel(<, Nat))
  <2>1. B \subseteq Nat
    OBVIOUS
  <2> QED
    BY <2>1, WFMin, NatLessThanWellFounded
<1>2. \A k \in B : ~(k < n)
  BY <1>1 DEF OpToRel
<1>3. n # 0
  OBVIOUS
<1>4. n - 1 \in Nat /\ n - 1 < n /\ n - 1 + 1 = n
  BY SMT, <1>3
<1>5. n - 1 \in S
  BY <1>2, <1>4
<1>6. n \in S
  BY <1>4, <1>5
<1> QED
  BY <1>6

(* Encode applies EncodeOne to one message after the other.                *)
LEMMA EncodeIs ==
  ASSUME NEW ms, Len(ms) \in Nat, NEW e
  PROVE  \E f : /\ f[0] = [b |-> <<>>, err |-> e]
                /\ \A i \in 1..Len(ms) : f[i] = EncodeOne(f[i - 1], ms[i])
                /\ Encode(ms, e) = f[Len(ms)]
<1> DEFINE enc[i \in 0..Len(ms)] ==
             IF i = 0 THEN [b |-> <<>>, err |-> e] ELSE EncodeOne(enc[i - 1], ms[i])
           Is(f, n) == f = [i \in 0..n |-> IF i = 0 THEN [b |-> <<>>, err |-> e]
                                           ELSE EncodeOne(f[i - 1], ms[i])]
<1>1. Encode(ms, e) = enc[Len(ms)]
  BY DEF Encode
<1>2. enc = CHOOSE f : Is(f, Len(ms))
  OBVIOUS
<1>3. ASSUME NEW n \in Nat, NEW f, Is(f, n)
      PROVE  \E g : Is(g, n + 1)
  <2> DEFINE g == [i \in 0..(n + 1) |-> IF i = n + 1 THEN EncodeOne(f[n], ms[n + 1]) ELSE f[i]]
  <2>1. /\ n + 1 # 0 /\ n + 1 - 1 = n /\ n # n + 1 /\ n \in 0..(n + 1) /\ n + 1 \in 0..(n + 1)
        /\ \A i \in 0..(n + 1) : i # n + 1 => i \in 0..n
        /\ \A i \in 0..n : i # n + 1 /\ i - 1 # n + 1 /\ (i # 0 => i - 1 \in 0..(n + 1))
    BY SMT
  <2>2. \A i \in 0..(n + 1) : g[i] = IF i = 0 THEN [b |-> <<>>, err |-> e]
                                     ELSE EncodeOne(g[i - 1], ms[i])
    <3> SUFFICES ASSUME NEW i \in 0..(n + 1)
                 PROVE  g[i] = IF i = 0 THEN [b |-> <<>>, err |-> e] ELSE EncodeOne(g[i - 1], ms[i])
      OBVIOUS
    <3>1. CASE i = n + 1
      <4>1. g[n + 1] = EncodeOne(f[n], ms[n + 1])
        BY <2>1
      <4>2. g[n] = f[n]
        BY <2>1
      <4> HIDE DEF g
      <4>3. i - 1 = n /\ i # 0
        BY SMT, <3>1
      <4>4. g[i] = EncodeOne(g[i - 1], ms[i])
        BY <3>1, <4>1, <4>2, <4>3
      <4> QED
        BY <4>3, <4>4
    <3>2. CASE i # n + 1
      <4>1. i \in 0..n /\ g[i] = f[i] /\ (i # 0 => g[i - 1] = f[i - 1])
        BY <2>1, <3>2
      <4>2. f[i] = IF i = 0 THEN [b |-> <<>>, err |-> e] ELSE EncodeOne(f[i - 1], ms[i])
        BY <1>3, <4>1
      <4> QED
        BY <4>1, <4>2
    <3> QED
      BY <3>1, <3>2
  <2>3. g = [i \in 0..(n + 1) |-> g[i]]
    OBVIOUS
  <2> HIDE DEF g
  <2>4. Is(g, n + 1)
    BY <2>2, <2>3
  <2> QED
    BY <2>4
<1>4. \E f : Is(f, Len(ms))
  <2> DEFINE S == {n \in Nat : \E f : Is(f, n)}
  <2>1. 0 \in S
    <3>1. Is([i \in 0..0 |-> [b |-> <<>>, err |-> e]], 0)
      <4>1. \A i \in 0..0 : i = 0
        BY SMT
      <4> QED
        BY <4>1
    <3> HIDE DEF Is
    <3> QED
      BY <3>1
  <2> HIDE DEF Is
  <2>2. \A n \in S : n + 1 \in S
    <3>1. \A n \in Nat : n + 1 \in Nat
      BY SMT
    <3> QED
      BY <1>3, <3>1
  <2>3. S = Nat
    <3>1. S \in SUBSET Nat
      OBVIOUS
    <3> HIDE DEF S
    <3> QED
      BY <2>1, <2>2, <3>1, EveryNat
  <2> QED
    BY <2>3
<1> HIDE DEF enc
<1>5. Is(enc, Len(ms))
  <2> HIDE DEF Is
  <2> QED
    BY <1>2, <1>4
<1>6. /\ 0 \in 0..Len(ms)
      /\ \A i \in 1..Len(ms) : i \in 0..Len(ms) /\ i # 0
  BY SMT
<1>7. enc[0] = [b |-> <<>>, err |-> e] /\ \A i \in 1..Len(ms) : enc[i] = EncodeOne(enc[i - 1], ms[i])
  BY <1>5, <1>6
<1> QED
  BY <1>1, <1>7

-----------------------------------------------------------------------------
(* The encoding loop.                                                      *)

(* A unit of a queued message.                                             *)
Unit == (1..MaxMsgs) \X (1..Units)

(* The units of a message.                                                 *)
LEMMA UnitsAre ==
  ASSUME NEW i \in 1..MaxMsgs
  PROVE  /\ UnitsOf(i) \in Seq(Unit) /\ DOMAIN UnitsOf(i) = 1..Units
         /\ \A k \in 1..Units : UnitsOf(i)[k] = <<i, k>>
         /\ \A k \in DOMAIN UnitsOf(i) : UnitsOf(i)[k][1] = i
         /\ Ascending(UnitsOf(i))
<1>1. \A k \in 1..Units : <<i, k>> \in Unit /\ <<i, k>>[1] = i /\ <<i, k>>[2] = k
  BY DEF Unit
<1>2. DOMAIN UnitsOf(i) = 1..Units /\ \A k \in 1..Units : UnitsOf(i)[k] = <<i, k>>
  BY DEF UnitsOf
<1>3. UnitsOf(i) \in [1..Units -> Unit]
  BY <1>1 DEF UnitsOf
<1>4. Units \in Nat
  BY StreamSocketAssumption
<1>5. UnitsOf(i) \in Seq(Unit)
  BY SMT, <1>3, <1>4, SeqDef
<1>6. Ascending(UnitsOf(i))
  BY SMT, <1>1, <1>2 DEF Ascending, Before
<1> QED
  BY <1>1, <1>2, <1>5, <1>6

(* The buffer holds units of the first n messages, of none rejected.       *)
EncodedIn(ms, n, acc) ==
  /\ Ascending(acc.b)
  /\ \A x \in DOMAIN acc.b : \E j \in 1..n : ms[j].kind # "bad" /\ acc.b[x][1] = ms[j].id

(* Of the first n messages none is missing but the rejected ones.          *)
EncodedAll(ms, n, acc) ==
  /\ CleanErr(acc.err)
  /\ \A j \in 1..n : ms[j].kind # "bad" =>
       \A k \in 1..Units : \E x \in DOMAIN acc.b : acc.b[x] = <<ms[j].id, k>>

(* The values of err.                                                      *)
Errs == {"nil", "encode", "timeout", "io"}

(* What the loop has made of the first n messages, with err = e at first.  *)
Encoded(ms, n, e, acc) ==
  /\ acc.b \in Seq(Unit) /\ acc.err \in Errs
  /\ EncodedIn(ms, n, acc)
  /\ NoStale /\ CleanErr(e) => EncodedAll(ms, n, acc)

(* ms is a list of messages in the order of their numbers.                 *)
InOrder(ms) ==
  /\ ms \in Seq(Msgs)
  /\ \A i, j \in 1..Len(ms) : i < j => ms[i].id < ms[j].id

(* One iteration of the loop.                                              *)
LEMMA EncodeStep ==
  ASSUME NEW ms, InOrder(ms), NEW n \in Nat, n + 1 \in 1..Len(ms), NEW e, NEW acc,
         Encoded(ms, n, e, acc)
  PROVE  Encoded(ms, n + 1, e, EncodeOne(acc, ms[n + 1]))
<1> DEFINE m == ms[n + 1]
           next == EncodeOne(acc, m)
           e1 == IF m.kind = "bytes" THEN acc.err ELSE IF m.kind = "obj" THEN "nil" ELSE "encode"
<1>1. m \in Msgs
  BY LenProperties DEF InOrder
<1>2. m.id \in 1..MaxMsgs /\ m.kind \in Kinds /\ m.kind \in {"bytes", "obj", "bad"}
  BY <1>1, StreamSocketAssumption DEF Msgs
<1>3. /\ next.b = IF e1 = "nil" THEN acc.b \o UnitsOf(m.id) ELSE acc.b
      /\ next.err = e1
  BY DEF EncodeOne
<1>4. e1 \in Errs /\ (e1 = "nil" => m.kind # "bad")
  BY <1>2 DEF Encoded, Errs
<1>5. /\ \A j \in 1..n : j \in 1..(n + 1) /\ j \in 1..Len(ms) /\ j < n + 1
      /\ \A j \in 1..(n + 1) : j \in 1..n \/ j = n + 1
      /\ n + 1 \in 1..(n + 1)
  BY SMT
<1>6. NoStale /\ CleanErr(e) => CleanErr(e1) /\ (e1 # "nil" => m.kind = "bad")
  <2> SUFFICES ASSUME NoStale, CleanErr(e)
               PROVE  CleanErr(e1) /\ (e1 # "nil" => m.kind = "bad")
    OBVIOUS
  <2>1. CleanErr(acc.err)
    BY DEF Encoded, EncodedAll
  <2> QED
    BY <1>2, <2>1 DEF CleanErr, NoStale
<1>7. CASE e1 = "nil"
  <2> DEFINE u == UnitsOf(m.id)
             q == acc.b \o u
  <2>1. /\ u \in Seq(Unit) /\ DOMAIN u = 1..Units /\ (\A k \in 1..Units : u[k] = <<m.id, k>>)
        /\ (\A k \in DOMAIN u : u[k][1] = m.id) /\ Ascending(u)
    BY <1>2, UnitsAre
  <2>b. acc.b \in Seq(Unit)
    BY DEF Encoded
  <2> HIDE DEF m, u, next, e1
  <2>2. q \in Seq(Unit) /\ Join(acc.b, u, q)
    BY <2>1, <2>b, Joined
  <2>3. next.b = q /\ next.err = "nil"
    BY <1>3, <1>7 DEF u
  <2>4. Precedes(acc.b, u)
    <3>1. \A x \in DOMAIN acc.b : acc.b[x][1] < m.id
      BY <1>5 DEF Encoded, EncodedIn, InOrder, m
    <3> QED
      BY <2>1, <3>1 DEF Precedes, Before
  <2> HIDE DEF q
  <2>5. Ascending(q)
    BY <2>1, <2>2, <2>4, Merge DEF Encoded, EncodedIn
  <2>6. \A x \in DOMAIN q :
          (\E y \in DOMAIN acc.b : q[x] = acc.b[y]) \/ (\E y \in DOMAIN u : q[x] = u[y])
    BY <2>2 DEF Join, JoinOnly
  <2>7. /\ \A y \in DOMAIN acc.b : \E x \in DOMAIN q : q[x] = acc.b[y]
        /\ \A y \in DOMAIN u : \E x \in DOMAIN q : q[x] = u[y]
    BY <2>2 DEF Join, JoinKeeps
  <2>8. EncodedIn(ms, n + 1, next)
    <3>1. ASSUME NEW x \in DOMAIN q
          PROVE  \E j \in 1..(n + 1) : ms[j].kind # "bad" /\ q[x][1] = ms[j].id
      <4>1. ASSUME NEW y \in DOMAIN acc.b, q[x] = acc.b[y]
            PROVE  \E j \in 1..(n + 1) : ms[j].kind # "bad" /\ q[x][1] = ms[j].id
        BY <1>5, <4>1 DEF Encoded, EncodedIn
      <4>2. ASSUME NEW y \in DOMAIN u, q[x] = u[y]
            PROVE  \E j \in 1..(n + 1) : ms[j].kind # "bad" /\ q[x][1] = ms[j].id
        BY <1>4, <1>5, <1>7, <2>1, <4>2 DEF m
      <4> QED
        BY <2>6, <4>1, <4>2
    <3> QED
      BY <2>3, <2>5, <3>1 DEF EncodedIn
  <2>9. NoStale /\ CleanErr(e) => EncodedAll(ms, n + 1, next)
    <3> SUFFICES ASSUME NoStale, CleanErr(e)
                 PROVE  EncodedAll(ms, n + 1, next)
      OBVIOUS
    <3>1. ASSUME NEW j \in 1..(n + 1), ms[j].kind # "bad", NEW k \in 1..Units
          PROVE  \E x \in DOMAIN q : q[x] = <<ms[j].id, k>>
      <4>1. CASE j \in 1..n
        <5>1. PICK y \in DOMAIN acc.b : acc.b[y] = <<ms[j].id, k>>
          BY <3>1, <4>1 DEF Encoded, EncodedAll
        <5> QED
          BY <2>7, <5>1
      <4>2. CASE j = n + 1
        <5>1. k \in DOMAIN u /\ u[k] = <<ms[j].id, k>>
          BY <2>1, <4>2 DEF m
        <5> QED
          BY <2>7, <5>1
      <4> QED
        BY <1>5, <4>1, <4>2
    <3> QED
      BY <2>3, <3>1 DEF EncodedAll, CleanErr
  <2> QED
    BY <2>2, <2>3, <2>8, <2>9 DEF Encoded, next, m, Errs
<1>8. CASE e1 # "nil"
  <2>1. next.b = acc.b /\ next.err = e1
    BY <1>3, <1>8
  <2> HIDE DEF m, next, e1
  <2>2. EncodedIn(ms, n + 1, next)
    BY <1>5, <2>1 DEF Encoded, EncodedIn
  <2>3. NoStale /\ CleanErr(e) => EncodedAll(ms, n + 1, next)
    <3> SUFFICES ASSUME NoStale, CleanErr(e)
                 PROVE  EncodedAll(ms, n + 1, next)
      OBVIOUS
    <3>1. m.kind = "bad" /\ CleanErr(next.err)
      BY <1>6, <1>8, <2>1
    <3>2. \A j \in 1..(n + 1) : ms[j].kind # "bad" => j \in 1..n
      BY <1>5, <3>1 DEF m
    <3> QED
      BY <2>1, <3>1, <3>2 DEF Encoded, EncodedAll
  <2> QED
    BY <1>4, <2>1, <2>2, <2>3 DEF Encoded, next, m
<1> QED
  BY <1>7, <1>8

(* The loop: what it puts in b is in order and of messages it accepts, and *)
(* if err was not set by a write, and cannot be passed on from a message   *)
(* EnCode rejects to one it is not called for, of all of them.             *)
LEMMA EncodeResult ==
  ASSUME NEW ms, InOrder(ms), NEW e \in Errs
  PROVE  Encoded(ms, Len(ms), e, Encode(ms, e))
<1>1. Len(ms) \in Nat
  BY LenProperties DEF InOrder
<1>2. PICK f : /\ f[0] = [b |-> <<>>, err |-> e]
               /\ \A i \in 1..Len(ms) : f[i] = EncodeOne(f[i - 1], ms[i])
               /\ Encode(ms, e) = f[Len(ms)]
  BY <1>1, EncodeIs
<1>3. Encoded(ms, 0, e, f[0])
  <2>1. f[0].b = <<>> /\ f[0].err = e /\ <<>> \in Seq(Unit) /\ DOMAIN <<>> = {} /\ 1..0 = {}
    BY SMT, <1>2
  <2> QED
    BY <2>1 DEF Encoded, EncodedIn, EncodedAll, Ascending
<1>4. ASSUME NEW n \in Nat, n + 1 \in 1..Len(ms), Encoded(ms, n, e, f[n])
      PROVE  Encoded(ms, n + 1, e, f[n + 1])
  <2>1. (n + 1) - 1 = n
    BY SMT
  <2>2. f[n + 1] = EncodeOne(f[n], ms[n + 1])
    BY <1>2, <1>4, <2>1
  <2>3. Encoded(ms, n + 1, e, EncodeOne(f[n], ms[n + 1]))
    BY <1>4, EncodeStep
  <2> QED
    BY <2>2, <2>3
<1> DEFINE S == {n \in Nat : n <= Len(ms) => Encoded(ms, n, e, f[n])}
<1>5. S = Nat
  <2>1. S \in SUBSET Nat /\ 0 \in S
    BY <1>3
  <2>2. ASSUME NEW n \in S
        PROVE  n + 1 \in S
    <3>1. n \in Nat /\ n + 1 \in Nat /\ (n + 1 <= Len(ms) => n + 1 \in 1..Len(ms) /\ n <= Len(ms))
      BY SMT, <1>1
    <3> QED
      BY <1>4, <3>1
  <2> HIDE DEF S
  <2> QED
    BY <2>1, <2>2, EveryNat
<1>6. Len(ms) <= Len(ms)
  BY SMT, <1>1
<1> QED
  BY <1>1, <1>2, <1>5, <1>6

-----------------------------------------------------------------------------
(* How a step changes what Delays speaks of.                               *)

(* The send goroutine moves by its own steps, but for its start.           *)
LEMMA SendMoves ==
  ASSUME IInv, Next
  PROVE  \/ pc'["send"] = pc["send"]
         \/ pc["send"] = "off" /\ pc'["send"] = "get"
         \/ SendStep \/ Write \/ IoStep("send")
<1>t. /\ "send" \in Threads /\ "recv" \in Threads /\ "send" \notin Users /\ "recv" # "send"
      /\ pc \in [Threads -> PCs] /\ Users \subseteq Threads
  BY StreamSocketAssumption DEF Threads, IInv, Types
<1> USE DEF Goto, sessionVars
<1>1. ASSUME NEW u \in Users, UserCall(u)
      PROVE  pc'["send"] = pc["send"]
  <2>u. u # "send"
    BY <1>t
  <2>1. ASSUME NEW k \in Kinds, Send(u, k)
        PROVE  pc'["send"] = pc["send"]
    BY <1>t, <2>u, <2>1 DEF Send
  <2>2. ASSUME NEW d \in BOOLEAN, Close(u, d)
        PROVE  pc'["send"] = pc["send"]
    BY <2>2 DEF Close
  <2>3. ASSUME BeginRecv(u) \/ ShutdownRead(u) \/ ShutdownWrite(u) \/ DirectSend(u)
        PROVE  pc'["send"] = pc["send"]
    BY <1>t, <2>u, <2>3 DEF BeginRecv, ShutdownRead, ShutdownWrite, DirectSend
  <2> QED
    BY <1>1, <2>1, <2>2, <2>3 DEF UserCall
<1>2. ASSUME NEW u \in Users, UserStep(u)
      PROVE  pc'["send"] = pc["send"] \/ (pc["send"] = "off" /\ pc'["send"] = "get")
  <2>u. u # "send"
    BY <1>t
  <2>1. CASE StartSend(u)
    <3>1. pc["send"] = "off"
      BY <2>1 DEF StartSend, At, IInv, StartedOnce
    <3>2. pc'["send"] = "get"
      BY <1>t, <2>u, <2>1 DEF StartSend
    <3> QED
      BY <3>1, <3>2
  <2>2. CASE StartRecv(u)
    BY <1>t, <2>u, <2>2 DEF StartRecv
  <2>3. CASE SendOnce(u) \/ BeginTest(u) \/ ShutdownConn(u) \/ DirectWrite(u)
    BY <1>t, <2>u, <2>3 DEF SendOnce, BeginTest, ShutdownConn, DirectWrite
  <2> QED
    BY <1>2, <2>1, <2>2, <2>3 DEF UserStep
<1>3. ASSUME NEW t \in Threads, CloseStep(t)
      PROVE  pc' = pc
  BY <1>3 DEF CloseStep, CloseSetClosed, CloseQueue, CloseSetRClosed, CloseRead, CloseConn,
       CloseSetReason, CloseSetDoClose, CloseLoadIO, CloseDoClose
<1>4. ASSUME IoStep("recv")
      PROVE  pc'["send"] = pc["send"]
  BY <1>t, <1>4 DEF IoStep, IoDone, IoTest, IoDoClose
<1>5. ASSUME RecvStep
      PROVE  pc'["send"] = pc["send"]
  BY <1>t, <1>5 DEF RecvStep, RecvTest, RecvCheck, RecvCallback
<1>6. ASSUME Read
      PROVE  pc'["send"] = pc["send"]
  BY <1>t, <1>6 DEF Read, RecvRead
<1>7. ASSUME NEW how, Waiter(how)
      PROVE  pc' = pc
  BY <1>7 DEF Waiter
<1> QED
  BY <1>1, <1>2, <1>3, <1>4, <1>5, <1>6, <1>7 DEF Next

(* It leaves its loop when it has found the closed queue empty, and then   *)
(* goes on to its end.                                                     *)
LEMMA SendEnds ==
  ASSUME IInv, Next
  PROVE  /\ pc["send"] \in Ended => pc'["send"] \in Ended
         /\ pc["send"] \in Ended \ {"closeChan"} => pc'["send"] \in Ended \ {"closeChan"}
         /\ pc'["send"] \in Ended \cup {"closeWrite"} =>
              pc["send"] \in Ended \cup {"closeWrite"} \/ (SendGet /\ que = <<>>)
<1>t. "send" \in Threads /\ pc \in [Threads -> PCs]
  BY DEF Threads, IInv, Types
<1> USE DEF Goto, At
<1>1. CASE pc'["send"] = pc["send"] \/ (pc["send"] = "off" /\ pc'["send"] = "get")
  BY <1>1 DEF Ended
<1>2. CASE SendGet
  BY <1>t, <1>2 DEF SendGet, Ended
<1>3. CASE SendCloseWrite \/ SendCloseChan
  BY <1>t, <1>3 DEF SendCloseWrite, SendCloseChan, Ended
<1>4. CASE SendLoop
  <2>1. pc["send"] = "loop" /\ pc'["send"] \in {"get", "write"}
    BY <1>t, <1>4 DEF SendLoop
  <2> QED
    BY <2>1 DEF Ended
<1>5. CASE SendFailed \/ SendCallback \/ SendFailedTest
  BY <1>t, <1>5 DEF SendFailed, SendCallback, SendFailedTest, Ended
<1>6. CASE Write
  BY <1>t, <1>6 DEF Write, SendWrite, SendWriteErr, Ended
<1>7. CASE IoStep("send")
  BY <1>t, <1>7 DEF IoStep, IoDone, IoTest, IoDoClose, Ended
<1> QED
  BY <1>1, <1>2, <1>3, <1>4, <1>5, <1>6, <1>7, SendMoves DEF SendStep

(* The queue, once closed, stays so, and does not grow.                    *)
LEMMA QueueStep ==
  ASSUME IInv, Next
  PROVE  /\ queClosed => queClosed'
         /\ queClosed /\ que = <<>> => que' = <<>>
         /\ \A u \in Users : pc'[u] = "closeWrite" =>
              pc[u] = "closeWrite" \/ (ShutdownWrite(u) /\ Len(que) = 0)
<1>t. /\ "send" \in Threads /\ "recv" \in Threads /\ "send" \notin Users /\ "recv" \notin Users
      /\ pc \in [Threads -> PCs] /\ Users \subseteq Threads
  BY StreamSocketAssumption DEF Threads, IInv, Types
<1> DEFINE Quiet == queClosed' = queClosed /\ que' = que
           Own(t) == \A u \in Users : u # t => pc'[u] = pc[u]
<1> USE DEF Goto, sessionVars
<1>1. ASSUME NEW u \in Users, UserCall(u)
      PROVE  /\ queClosed' \in {queClosed, TRUE} /\ (queClosed => que' = que)
             /\ Own(u)
             /\ pc'[u] = "closeWrite" => pc[u] = "closeWrite" \/ (ShutdownWrite(u) /\ Len(que) = 0)
  <2>1. ASSUME NEW k \in Kinds, Send(u, k)
        PROVE  ~queClosed /\ queClosed' = queClosed /\ Own(u) /\ pc'[u] # "closeWrite"
    BY <1>t, <2>1 DEF Send
  <2>2. ASSUME NEW d \in BOOLEAN, Close(u, d)
        PROVE  Quiet /\ pc' = pc
    BY <2>2 DEF Close
  <2>3. ASSUME BeginRecv(u) \/ ShutdownRead(u) \/ DirectSend(u)
        PROVE  Quiet /\ Own(u) /\ pc'[u] # "closeWrite"
    BY <1>t, <2>3 DEF BeginRecv, ShutdownRead, DirectSend
  <2>4. ASSUME ShutdownWrite(u)
        PROVE  /\ queClosed' = TRUE /\ que' = que /\ Own(u)
               /\ pc'[u] = "closeWrite" => Len(que) = 0
    BY <1>t, <2>4 DEF ShutdownWrite
  <2> QED
    BY <1>1, <2>1, <2>2, <2>3, <2>4 DEF UserCall
<1>2. ASSUME NEW u \in Users, UserStep(u)
      PROVE  Quiet /\ Own(u) /\ pc'[u] # "closeWrite"
  <2>1. CASE StartSend(u)
    BY <1>t, <2>1 DEF StartSend
  <2>2. CASE StartRecv(u)
    BY <1>t, <2>2 DEF StartRecv
  <2>3. CASE SendOnce(u) \/ BeginTest(u) \/ ShutdownConn(u) \/ DirectWrite(u)
    BY <1>t, <2>3 DEF SendOnce, BeginTest, ShutdownConn, DirectWrite
  <2> QED
    BY <1>2, <2>1, <2>2, <2>3 DEF UserStep
<1>3. ASSUME NEW t \in Threads, CloseStep(t)
      PROVE  queClosed' \in {queClosed, TRUE} /\ que' = que /\ pc' = pc
  BY <1>3 DEF CloseStep, CloseSetClosed, CloseQueue, CloseSetRClosed, CloseRead, CloseConn,
       CloseSetReason, CloseSetDoClose, CloseLoadIO, CloseDoClose
<1>4. ASSUME NEW t \in {"send", "recv"}, IoStep(t)
      PROVE  Quiet /\ Own(t)
  BY <1>t, <1>4 DEF IoStep, IoDone, IoTest, IoDoClose
<1>5. ASSUME RecvStep
      PROVE  Quiet /\ Own("recv")
  BY <1>t, <1>5 DEF RecvStep, RecvTest, RecvCheck, RecvCallback
<1>6. ASSUME Read
      PROVE  Quiet /\ Own("recv")
  BY <1>t, <1>6 DEF Read, RecvRead
<1>7. ASSUME NEW how, Waiter(how)
      PROVE  Quiet /\ pc' = pc
  BY <1>7 DEF Waiter
<1>8. ASSUME SendStep
      PROVE  queClosed' = queClosed /\ (que' = que \/ que' = <<>>) /\ Own("send")
  <2>1. CASE SendGet \/ SendCloseWrite \/ SendCloseChan
    BY <1>t, <2>1 DEF SendGet, SendCloseWrite, SendCloseChan
  <2>2. CASE SendLoop
    BY <1>t, <2>2 DEF SendLoop
  <2>3. CASE SendFailed \/ SendCallback \/ SendFailedTest
    BY <1>t, <2>3 DEF SendFailed, SendCallback, SendFailedTest
  <2> QED
    BY <1>8, <2>1, <2>2, <2>3 DEF SendStep
<1>9. ASSUME Write
      PROVE  Quiet /\ Own("send")
  BY <1>t, <1>9 DEF Write, SendWrite, SendWriteErr
<1>q. queClosed' \in {queClosed, TRUE}
  BY <1>3, <1>4, <1>5, <1>6, <1>7, <1>8, <1>9, <1>1, <1>2 DEF Next
<1>12. queClosed => queClosed'
  <2>1. CASE queClosed' = TRUE
    BY <2>1
  <2>2. CASE queClosed' = queClosed
    BY SMT, <2>2
  <2> QED
    BY <1>q, <2>1, <2>2
<1>13. queClosed => que' = que \/ que' = <<>>
  BY <1>3, <1>4, <1>5, <1>6, <1>7, <1>8, <1>9, <1>1, <1>2 DEF Next
<1>14. \A u \in Users : pc'[u] = "closeWrite" =>
         pc[u] = "closeWrite" \/ (ShutdownWrite(u) /\ Len(que) = 0)
  BY <1>t, <1>3, <1>4, <1>5, <1>6, <1>7, <1>8, <1>9, <1>1, <1>2 DEF Next
<1> QED
  BY <1>12, <1>13, <1>14

(* Close starts once, and delays only if it finds messages in the queue.   *)
LEMMA CloseMoves ==
  ASSUME IInv, Next
  PROVE  /\ "close" \in once => "close" \in once'
         /\ "close" \in once => \A t \in Threads : cpc'[t] \in Early => cpc[t] \in Early
         /\ \A t \in Threads : cpc'[t] \in {"setRClosed", "closeRead"} =>
              cpc[t] \in {"setRClosed", "closeRead"} \/ (CloseQueue(t) /\ Len(que) > 0)
<1>t. /\ "send" \in Threads /\ "recv" \in Threads /\ Users \subseteq Threads
      /\ cpc \in [Threads -> ClosePCs]
  BY DEF Threads, IInv, Types
<1> DEFINE Calls == NoCall \/ \E t \in Threads, d \in BOOLEAN : CloseCall(t, d)
           Same == cpc' = cpc /\ ("close" \in once => "close" \in once')
<1>1. ASSUME Calls
      PROVE  /\ "close" \in once => "close" \in once' /\ cpc' = cpc
             /\ \A t \in Threads : cpc'[t] \in {"setRClosed", "closeRead"} =>
                  cpc[t] \in {"setRClosed", "closeRead"}
  BY <1>t, <1>1 DEF NoCall, CloseCall, GotoClose
<1>2. ASSUME NEW u \in Users, UserCall(u)
      PROVE  Calls \/ Same
  <2>1. ASSUME NEW k \in Kinds, Send(u, k)
        PROVE  Same
    BY <2>1 DEF Send
  <2>2. ASSUME NEW d \in BOOLEAN, Close(u, d)
        PROVE  Calls
    BY <1>t, <2>2 DEF Close
  <2>3. ASSUME BeginRecv(u) \/ ShutdownRead(u) \/ DirectSend(u) \/ ShutdownWrite(u)
        PROVE  Same
    BY <2>3 DEF BeginRecv, ShutdownRead, DirectSend, ShutdownWrite, sessionVars
  <2> QED
    BY <1>2, <2>1, <2>2, <2>3 DEF UserCall
<1>3. ASSUME NEW u \in Users, UserStep(u)
      PROVE  Same
  BY <1>3 DEF UserStep, StartSend, StartRecv, SendOnce, BeginTest, ShutdownConn, DirectWrite,
         sessionVars
<1>4. ASSUME NEW t \in {"send", "recv"}, IoStep(t)
      PROVE  Same
  BY <1>4 DEF IoStep, IoDone, IoTest, IoDoClose, DoClose, sessionVars
<1>5. ASSUME SendStep \/ Write
      PROVE  Calls \/ Same
  <2>1. CASE SendGet \/ SendCloseWrite \/ SendCloseChan \/ SendLoop \/ SendFailedTest
    BY <2>1 DEF SendGet, SendCloseWrite, SendCloseChan, SendLoop, SendFailedTest, sessionVars
  <2>2. CASE SendFailed
    BY <1>t, <2>2 DEF SendFailed
  <2>3. CASE SendCallback
    BY <1>t, <2>3 DEF SendCallback, CallbackReturns
  <2>4. CASE Write
    BY <2>4 DEF Write, SendWrite, SendWriteErr, sessionVars
  <2> QED
    BY <1>5, <2>1, <2>2, <2>3, <2>4 DEF SendStep
<1>6. ASSUME RecvStep \/ Read
      PROVE  Calls \/ Same
  <2>1. CASE RecvTest \/ Read
    BY <2>1 DEF RecvTest, Read, RecvRead, sessionVars
  <2>2. CASE RecvCheck
    BY <1>t, <2>2 DEF RecvCheck
  <2>3. CASE RecvCallback
    BY <1>t, <2>3 DEF RecvCallback, CallbackReturns
  <2> QED
    BY <1>6, <2>1, <2>2, <2>3 DEF RecvStep
<1>7. ASSUME NEW how, Waiter(how)
      PROVE  Same
  BY <1>7 DEF Waiter
<1>8. ASSUME NEW t \in Threads, CloseStep(t)
      PROVE  /\ "close" \in once => "close" \in once'
             /\ \A s \in Threads : cpc'[s] \in Early => cpc[s] \in Early
             /\ \A s \in Threads : cpc'[s] \in {"setRClosed", "closeRead"} =>
                  cpc[s] \in {"setRClosed", "closeRead"} \/ (CloseQueue(s) /\ Len(que) > 0)
  <2> USE DEF GotoClose
  <2>s. \A s \in Threads : s # t => cpc'[s] = cpc[s]
    BY <1>t, <1>8 DEF CloseStep, CloseSetClosed, CloseQueue, CloseSetRClosed, CloseRead, CloseConn,
         CloseSetReason, CloseSetDoClose, CloseLoadIO, CloseDoClose
  <2>1. CASE CloseQueue(t)
    BY <1>t, <2>s, <2>1 DEF CloseQueue, Early
  <2>2. CASE CloseSetClosed(t) \/ CloseSetRClosed(t) \/ CloseRead(t) \/ CloseConn(t)
    BY <1>t, <2>s, <2>2 DEF CloseSetClosed, CloseSetRClosed, CloseRead, CloseConn, Early
  <2>3. CASE CloseSetReason(t) \/ CloseSetDoClose(t) \/ CloseLoadIO(t) \/ CloseDoClose(t)
    <3>1. cpc'[t] \in {"setDoClose", "loadIO", "doClose", "none"}
      BY <1>t, <2>3 DEF CloseSetReason, CloseSetDoClose, CloseLoadIO, CloseDoClose
    <3>2. "close" \in once => "close" \in once'
      BY <2>3 DEF CloseSetReason, CloseSetDoClose, CloseLoadIO, CloseDoClose, DoClose, sessionVars
    <3> QED
      BY <2>s, <3>1, <3>2 DEF Early
  <2> QED
    BY <1>8, <2>1, <2>2, <2>3 DEF CloseStep
<1> HIDE DEF Calls
<1>9. CASE Calls
  BY <1>1, <1>9
<1>10. CASE Same
  BY <1>10
<1> QED
  BY <1>2, <1>3, <1>4, <1>5, <1>6, <1>7, <1>8, <1>9, <1>10 DEF Next

(* Who shuts the connection.                                               *)
LEMMA ConnStep ==
  ASSUME IInv, Next
  PROVE  /\ conn \subseteq conn'
         /\ "close" \in conn' =>
              \/ "close" \in conn
              \/ \E t \in Threads : CloseConn(t)
              \/ \E how \in {"sent", "expired"} : Waiter(how)
         /\ "closeWrite" \in conn' =>
              \/ "closeWrite" \in conn
              \/ SendCloseWrite
              \/ \E u \in Users : pc[u] = "closeWrite"
<1>1. ASSUME NEW u \in Users, UserCall(u)
      PROVE  conn' = conn
  BY <1>1 DEF UserCall, Send, Close, BeginRecv, ShutdownRead, DirectSend, ShutdownWrite, sessionVars
<1>2. ASSUME NEW u \in Users, StartSend(u) \/ StartRecv(u) \/ SendOnce(u) \/ BeginTest(u) \/ DirectWrite(u)
      PROVE  conn' = conn
  BY <1>2 DEF StartSend, StartRecv, SendOnce, BeginTest, DirectWrite, sessionVars
<1>3. ASSUME NEW u \in Users, ShutdownConn(u)
      PROVE  /\ conn \subseteq conn' /\ ("close" \in conn' => "close" \in conn)
             /\ "closeWrite" \in conn' => "closeWrite" \in conn \/ pc[u] = "closeWrite"
  BY <1>3 DEF ShutdownConn, At
<1>4. ASSUME NEW t \in Threads, CloseStep(t)
      PROVE  conn' = conn \/ CloseRead(t) \/ CloseConn(t)
  BY <1>4 DEF CloseStep, CloseSetClosed, CloseQueue, CloseSetRClosed,
       CloseSetReason, CloseSetDoClose, CloseLoadIO, CloseDoClose, sessionVars
<1>5. ASSUME NEW t, CloseRead(t) \/ CloseConn(t)
      PROVE  /\ conn \subseteq conn' /\ ("closeWrite" \in conn' => "closeWrite" \in conn)
             /\ "close" \in conn' => "close" \in conn \/ CloseConn(t)
  BY <1>5 DEF CloseRead, CloseConn
<1>6. ASSUME NEW t \in {"send", "recv"}, IoStep(t)
      PROVE  conn' = conn
  BY <1>6 DEF IoStep, IoDone, IoTest, IoDoClose, sessionVars
<1>7. ASSUME SendStep
      PROVE  conn' = conn \/ SendCloseWrite
  BY <1>7 DEF SendStep, SendGet, SendCloseChan, SendLoop, SendFailed, SendCallback, SendFailedTest,
         sessionVars
<1>8. ASSUME SendCloseWrite
      PROVE  conn \subseteq conn' /\ ("close" \in conn' => "close" \in conn)
  BY <1>8 DEF SendCloseWrite
<1>9. ASSUME Write \/ Read \/ RecvStep
      PROVE  conn' = conn
  BY <1>9 DEF Write, SendWrite, SendWriteErr, Read, RecvRead, RecvStep, RecvTest, RecvCheck,
         RecvCallback,
       sessionVars
<1>10. ASSUME NEW how, Waiter(how)
       PROVE  conn \subseteq conn' /\ ("closeWrite" \in conn' => "closeWrite" \in conn)
  BY <1>10 DEF Waiter
<1> QED
  BY <1>1, <1>2, <1>3, <1>4, <1>5, <1>6, <1>7, <1>8, <1>9, <1>10 DEF Next, UserStep

(* The goroutine of a delayed Close, and the end of the send goroutine.    *)
LEMMA WaiterStep ==
  ASSUME Next
  PROVE  /\ \/ waiter' = waiter
            \/ (\E t \in Threads : CloseRead(t)) /\ waiter' = "wait"
            \/ \E how \in {"sent", "expired"} : Waiter(how)
         /\ sendCloseChan' = sendCloseChan \/ (SendCloseChan /\ sendCloseChan' = TRUE)
<1>1. ASSUME NEW u \in Users, UserCall(u) \/ UserStep(u)
      PROVE  waiter' = waiter /\ sendCloseChan' = sendCloseChan
  BY <1>1 DEF UserCall, Send, Close, BeginRecv, ShutdownRead, DirectSend, ShutdownWrite, UserStep,
       StartSend, StartRecv, SendOnce, BeginTest, DirectWrite, ShutdownConn, sessionVars, closeVars
<1>2. ASSUME NEW t \in Threads, CloseStep(t)
      PROVE  sendCloseChan' = sendCloseChan /\ (waiter' = waiter \/ (CloseRead(t) /\ waiter' = "wait"))
  BY <1>2 DEF CloseStep, CloseSetClosed, CloseQueue, CloseSetRClosed, CloseRead, CloseConn,
       CloseSetReason, CloseSetDoClose, CloseLoadIO, CloseDoClose, sessionVars, closeVars
<1>3. ASSUME NEW t \in {"send", "recv"}, IoStep(t)
      PROVE  waiter' = waiter /\ sendCloseChan' = sendCloseChan
  BY <1>3 DEF IoStep, IoDone, IoTest, IoDoClose, sessionVars, closeVars
<1>4. ASSUME SendStep
      PROVE  waiter' = waiter /\ (sendCloseChan' = sendCloseChan \/ (SendCloseChan /\ sendCloseChan' = TRUE))
  BY <1>4 DEF SendStep, SendGet, SendCloseWrite, SendCloseChan, SendLoop, SendFailed, SendCallback,
       SendFailedTest, sessionVars, closeVars
<1>5. ASSUME Write \/ Read \/ RecvStep
      PROVE  waiter' = waiter /\ sendCloseChan' = sendCloseChan
  BY <1>5 DEF Write, SendWrite, SendWriteErr, Read, RecvRead, RecvStep, RecvTest, RecvCheck,
         RecvCallback,
       sessionVars, closeVars
<1>6. ASSUME NEW how \in {"sent", "expired"}, Waiter(how)
      PROVE  sendCloseChan' = sendCloseChan
  BY <1>6 DEF Waiter
<1> QED
  BY <1>1, <1>2, <1>3, <1>4, <1>5, <1>6 DEF Next

(* A delayed Close is one that found messages in the queue.                *)
LEMMA DelayStarts ==
  ASSUME IInv, Next, Delaying', ~Delaying
  PROVE  \E t \in Threads : CloseQueue(t) /\ Len(que) > 0
<1>1. \A t \in Threads : ~CloseRead(t)
  BY DEF CloseRead, Delaying
<1>2. \A how \in {"sent", "expired"} : ~Waiter(how)
  BY DEF Waiter, Delaying
<1>3. waiter' = waiter
  BY <1>1, <1>2, WaiterStep
<1>4. PICK t \in Threads : cpc'[t] \in {"setRClosed", "closeRead"}
  BY <1>3 DEF Delaying
<1> QED
  BY <1>4, CloseMoves DEF Delaying

(* During a delayed Close nobody else shuts the connection: a Close that   *)
(* counts is alone, and ShutdownWrite does nothing on a closed queue.      *)
LEMMA DelaysStep ==
  ASSUME IInv, Lists, Delays, Next
  PROVE  Delays'
<1>t. "send" \in Threads /\ cpc \in [Threads -> ClosePCs] /\ pc \in [Threads -> PCs]
  BY DEF Threads, IInv, Types
<1>e. (Len(que) = 0 => que = <<>>) /\ (que = <<>> => ~(Len(que) > 0))
  BY SMT DEF Lists
<1>c. \A s, t \in Threads : cpc[s] # "none" /\ cpc[t] # "none" => s = t
  BY DEF IInv, InClose
<1>o. \A t \in Threads : cpc[t] # "none" => "close" \in once
  BY DEF IInv, InClose
<1>1. "closeWrite" \in conn' \/ (\E u \in Users : pc'[u] = "closeWrite") => queClosed' /\ que' = <<>>
  <2>1. ASSUME queClosed, que = <<>>
        PROVE  queClosed' /\ que' = <<>>
    BY <2>1, QueueStep
  <2>2. ASSUME NEW u \in Users, ShutdownWrite(u), Len(que) = 0
        PROVE  queClosed' /\ que' = <<>>
    BY <1>e, <2>2 DEF ShutdownWrite
  <2>3. ASSUME SendCloseWrite
        PROVE  queClosed /\ que = <<>>
    BY <2>3 DEF SendCloseWrite, At, Delays
  <2>4. ASSUME "closeWrite" \in conn'
        PROVE  queClosed /\ que = <<>>
    BY <2>3, <2>4, ConnStep DEF Delays
  <2>5. ASSUME NEW u \in Users, pc'[u] = "closeWrite"
        PROVE  queClosed' /\ que' = <<>>
    BY <2>1, <2>2, <2>5, QueueStep DEF Delays
  <2> QED
    BY <2>1, <2>4, <2>5
<1>2. pc'["send"] = "closeWrite" \/ pc'["send"] \in Ended => queClosed' /\ que' = <<>>
  <2>1. ASSUME SendGet, que = <<>>
        PROVE  queClosed
    BY <2>1 DEF SendGet
  <2>2. ASSUME pc'["send"] = "closeWrite" \/ pc'["send"] \in Ended
        PROVE  queClosed /\ que = <<>>
    BY <2>1, <2>2, SendEnds DEF Delays
  <2> QED
    BY <2>2, QueueStep
<1>3. sendCloseChan' => pc'["send"] \in Ended \ {"closeChan"}
  <2>1. CASE SendCloseChan
    BY <1>t, <2>1 DEF SendCloseChan, Goto, Ended
  <2>2. CASE sendCloseChan' = sendCloseChan
    BY <2>2, SendEnds DEF Delays
  <2> QED
    BY <2>1, <2>2, WaiterStep
<1>4. waiter' = "sent" => sendCloseChan'
  <2>1. ASSUME waiter' = "sent"
        PROVE  sendCloseChan
    <3>1. CASE waiter' = waiter
      BY <2>1, <3>1 DEF Delays
    <3>2. ASSUME NEW how \in {"sent", "expired"}, Waiter(how)
          PROVE  sendCloseChan
      BY <2>1, <3>2 DEF Waiter
    <3> QED
      BY <2>1, <3>1, <3>2, WaiterStep
  <2>2. sendCloseChan => sendCloseChan'
    <3>1. CASE sendCloseChan' = sendCloseChan
      BY SMT, <3>1
    <3> QED
      BY <3>1, WaiterStep
  <2> QED
    BY <2>1, <2>2
<1>5. waiter' # "off" \/ "close" \in conn' =>
        "close" \in once' /\ \A t \in Threads : cpc'[t] \notin Early
  <2>1. ASSUME "close" \in once, \A t \in Threads : cpc[t] \notin Early
        PROVE  "close" \in once' /\ \A t \in Threads : cpc'[t] \notin Early
    BY <2>1, CloseMoves
  <2>2. ASSUME NEW t \in Threads, CloseRead(t) \/ CloseConn(t)
        PROVE  "close" \in once' /\ \A s \in Threads : cpc'[s] \notin Early
    <3>1. cpc[t] # "none" /\ cpc'[t] = "setReason"
      BY <1>t, <2>2 DEF CloseRead, CloseConn, GotoClose
    <3>2. "close" \in once'
      BY <1>o, <3>1, CloseMoves
    <3>3. ASSUME NEW s \in Threads, s # t
          PROVE  cpc'[s] = "none"
      <4>1. cpc[s] = "none"
        BY <1>c, <3>1, <3>3
      <4>2. cpc'[s] = cpc[s]
        BY <1>t, <2>2, <3>3 DEF CloseRead, CloseConn, GotoClose
      <4> QED
        BY <4>1, <4>2
    <3> QED
      BY <3>1, <3>2, <3>3 DEF Early
  <2>3. ASSUME NEW how \in {"sent", "expired"}, Waiter(how)
        PROVE  "close" \in once /\ \A t \in Threads : cpc[t] \notin Early
    BY <2>3 DEF Waiter, Delays
  <2>4. CASE waiter' # "off"
    <3>1. CASE waiter' = waiter
      BY <2>1, <2>4, <3>1 DEF Delays
    <3> QED
      BY <2>1, <2>2, <2>3, <3>1, WaiterStep
  <2>5. CASE "close" \in conn'
    <3>1. CASE "close" \in conn
      BY <2>1, <3>1 DEF Delays
    <3> QED
      BY <2>1, <2>2, <2>3, <2>5, <3>1, ConnStep
  <2> QED
    BY <2>4, <2>5
<1>6. ASSUME Delaying'
      PROVE  /\ queClosed'
             /\ \A u \in Users : pc'[u] # "closeWrite"
             /\ "close" \in conn' => waiter' = "sent"
             /\ "closeWrite" \in conn' => pc'["send"] \in Ended
  <2>1. CASE Delaying
    <3>d. /\ queClosed /\ \A u \in Users : pc[u] # "closeWrite"
          /\ "close" \in conn => waiter = "sent"
          /\ "closeWrite" \in conn => pc["send"] \in Ended
      BY <2>1 DEF Delays
    <3>1. \A u \in Users : pc'[u] # "closeWrite"
      BY <3>d, QueueStep DEF ShutdownWrite
    <3>2. "closeWrite" \in conn' => pc'["send"] \in Ended
      <4>1. CASE "closeWrite" \in conn
        BY <3>d, <4>1, SendEnds
      <4>2. CASE SendCloseWrite
        BY <1>t, <4>2 DEF SendCloseWrite, Goto, Ended
      <4> QED
        BY <3>d, <4>1, <4>2, ConnStep
    <3>3. "close" \in conn' => waiter' = "sent"
      <4>1. CASE "close" \in conn
        <5>1. waiter = "sent" /\ \A t \in Threads : cpc[t] \notin Early
          BY <3>d, <4>1 DEF Delays
        <5>2. \A t \in Threads : ~CloseRead(t)
          BY <5>1 DEF CloseRead, Early
        <5>3. \A how \in {"sent", "expired"} : ~Waiter(how)
          BY <5>1 DEF Waiter
        <5> QED
          BY <5>1, <5>2, <5>3, WaiterStep
      <4>2. \A t \in Threads : ~CloseConn(t)
        <5>1. ASSUME NEW t \in Threads, CloseConn(t)
              PROVE  FALSE
          <6>1. cpc[t] = "netClose" /\ cpc[t] \in Early
            BY <5>1 DEF CloseConn, Early
          <6>2. waiter = "off"
            BY <6>1 DEF Delays
          <6>3. PICK s \in Threads : cpc[s] \in {"setRClosed", "closeRead"}
            BY <2>1, <6>2 DEF Delaying
          <6>4. s = t
            BY <1>c, <6>1, <6>3
          <6> QED
            BY <6>1, <6>3, <6>4
        <5> QED
          BY <5>1
      <4>3. ASSUME NEW how \in {"sent", "expired"}, Waiter(how)
            PROVE  waiter' = "sent"
        <5>1. waiter' = how
          BY <4>3 DEF Waiter
        <5>2. waiter' # "off"
          BY <5>1
        <5>3. waiter' \in {"wait", "sent"}
          BY <1>5, <1>6, <5>2 DEF Delaying, Early
        <5> QED
          BY <5>1, <5>3
      <4> QED
        BY <4>1, <4>2, <4>3, ConnStep
    <3> QED
      BY <3>d, <3>1, <3>2, <3>3, QueueStep
  <2>2. CASE ~Delaying
    <3>1. PICK t \in Threads : CloseQueue(t) /\ Len(que) > 0
      BY <1>6, <2>2, DelayStarts
    <3>2. /\ queClosed' /\ conn' = conn /\ pc' = pc /\ cpc[t] \in Early
      BY <3>1 DEF CloseQueue, Early
    <3>3. "closeWrite" \notin conn /\ \A u \in Users : pc[u] # "closeWrite"
      BY <1>e, <3>1 DEF Delays
    <3>4. "close" \notin conn
      BY <3>2 DEF Delays
    <3> QED
      BY <3>2, <3>3, <3>4
  <2> QED
    BY <2>1, <2>2
<1> QED
  BY <1>1, <1>2, <1>3, <1>4, <1>5, <1>6 DEF Delays

(* A connection that is open, or kept open by a delayed Close, was.        *)
LEMMA StillOpen ==
  ASSUME IInv, Lists, Delays, Next, Open' \/ Delaying'
  PROVE  Open \/ Delaying
<1>1. CASE Open'
  <2>1. conn \subseteq conn'
    BY ConnStep
  <2> QED
    BY <1>1, <2>1 DEF Open
<1>2. CASE Delaying' /\ ~Delaying
  <2>1. PICK t \in Threads : CloseQueue(t) /\ Len(que) > 0
    BY <1>2, DelayStarts
  <2>2. cpc[t] \in Early
    BY <2>1 DEF CloseQueue, Early
  <2>3. que # <<>>
    BY SMT, <2>1 DEF Lists
  <2> QED
    BY <2>2, <2>3 DEF Delays, Open
<1> QED
  BY <1>1, <1>2

(* The send goroutine writes to an open connection during a delayed Close. *)
LEMMA WritesOpen ==
  ASSUME Delays, Delaying, pc["send"] = "write"
  PROVE  Open
  BY DEF Delays, Ended, Open

-----------------------------------------------------------------------------
(* How a step changes the lists.                                           *)

(* The steps that touch messages.                                          *)
DataStep ==
  \/ \E u \in Users : (\E k \in Kinds : Send(u, k)) \/ DirectWrite(u)
  \/ SendGet \/ SendLoop \/ SendFailed \/ SendFailedTest
  \/ Write

(* The others leave them, and do not move the send goroutine into or out   *)
(* of the places where it has some.                                        *)
LEMMA OtherSteps ==
  ASSUME IInv, Next, ~DataStep
  PROVE  /\ UNCHANGED <<que, batch, b, err, sent, wire, netErr>>
         /\ pc'["send"] = "loop" <=> pc["send"] = "loop"
         /\ pc'["send"] = "write" <=> pc["send"] = "write"
         /\ pc'["send"] \in {"failed", "callback", "failedTest"} =>
              pc["send"] \in {"failed", "callback", "failedTest"}
<1>t. "send" \in Threads /\ pc \in [Threads -> PCs]
  BY DEF Threads, IInv, Types
<1>1. UNCHANGED <<que, batch, b, err, sent, wire, netErr>>
  <2> USE DEF sendVars, sessionVars
  <2>1. ASSUME NEW u \in Users, UserCall(u) \/ UserStep(u)
        PROVE  UNCHANGED <<que, batch, b, err, sent, wire, netErr>>
    BY <2>1 DEF DataStep, UserCall, Close, BeginRecv, ShutdownRead, DirectSend, ShutdownWrite, UserStep,
         StartSend, StartRecv, SendOnce, BeginTest, ShutdownConn
  <2>2. ASSUME NEW t \in Threads, CloseStep(t)
        PROVE  UNCHANGED <<que, batch, b, err, sent, wire, netErr>>
    BY <2>2 DEF CloseStep, CloseSetClosed, CloseQueue, CloseSetRClosed, CloseRead, CloseConn,
         CloseSetReason, CloseSetDoClose, CloseLoadIO, CloseDoClose
  <2>3. ASSUME NEW t \in {"send", "recv"}, IoStep(t)
        PROVE  UNCHANGED <<que, batch, b, err, sent, wire, netErr>>
    BY <2>3 DEF IoStep, IoDone, IoTest, IoDoClose
  <2>4. ASSUME SendStep \/ Write
        PROVE  UNCHANGED <<que, batch, b, err, sent, wire, netErr>>
    BY <2>4 DEF DataStep, SendStep, SendCloseWrite, SendCloseChan, SendCallback
  <2>5. ASSUME Read \/ RecvStep
        PROVE  UNCHANGED <<que, batch, b, err, sent, wire, netErr>>
    BY <2>5 DEF Read, RecvRead, RecvStep, RecvTest, RecvCheck, RecvCallback
  <2>6. ASSUME NEW how \in {"sent", "expired"}, Waiter(how)
        PROVE  UNCHANGED <<que, batch, b, err, sent, wire, netErr>>
    BY <2>6 DEF Waiter
  <2> QED
    BY <2>1, <2>2, <2>3, <2>4, <2>5, <2>6 DEF Next
<1>2. CASE pc'["send"] = pc["send"] \/ (pc["send"] = "off" /\ pc'["send"] = "get")
  BY <1>1, <1>2
<1>3. CASE SendCloseWrite \/ SendCloseChan \/ SendCallback
  BY <1>t, <1>1, <1>3 DEF SendCloseWrite, SendCloseChan, SendCallback, At, Goto
<1>4. CASE IoStep("send")
  <2>1. /\ pc["send"] \in {"ioDone", "ioTest", "ioDoClose"}
        /\ pc'["send"] \in {"ioTest", "ioDoClose", "end"}
    BY <1>t, <1>4 DEF IoStep, IoDone, IoTest, IoDoClose, At, Goto
  <2> QED
    BY <1>1, <2>1
<1> QED
  BY <1>2, <1>3, <1>4, SendMoves DEF SendStep, DataStep

(* A message goes to the end of a list.                                    *)
LEMMA Appended ==
  ASSUME NEW S, NEW s \in Seq(S), NEW x
  PROVE  /\ Len(Append(s, x)) = Len(s) + 1
         /\ \A i \in 1..Len(s) : Append(s, x)[i] = s[i]
         /\ Append(s, x)[Len(s) + 1] = x
         /\ x \in S => Append(s, x) \in Seq(S)
  BY SMT

(* What a list holds, a list over a larger set may hold.                   *)
LEMMA LargerSet ==
  ASSUME NEW S, NEW T, S \subseteq T, NEW s \in Seq(S)
  PROVE  s \in Seq(T)
  BY SMT

(* A list of zeros: what DirectSend writes.                                *)
LEMMA DirectUnitsAre ==
  ASSUME NEW n \in 0..Units
  PROVE  /\ UnitsOf(0) \in Seq({0} \X (1..Units)) /\ Len(UnitsOf(0)) = Units
         /\ SubSeq(UnitsOf(0), 1, n) \in Seq({0} \X (1..Units))
<1>1. Units \in Nat
  BY StreamSocketAssumption
<1>2. UnitsOf(0) \in [1..Units -> {0} \X (1..Units)]
  BY DEF UnitsOf
<1>3. UnitsOf(0) \in Seq({0} \X (1..Units)) /\ Len(UnitsOf(0)) = Units
  BY SMT, <1>1, <1>2
<1> QED
  BY <1>3, Cut

(* DirectWrite puts zeros on the wire.                                     *)
LEMMA DirectWritten ==
  ASSUME NEW u, DirectWrite(u)
  PROVE  \E z \in Seq({0} \X (1..Units)) : wire' = wire \o z
<1>1. Units \in Nat /\ Units \in 0..Units /\ 0..Units - 1 \subseteq 0..Units
  BY SMT, StreamSocketAssumption
<1>2. CASE WriteAll(UnitsOf(0))
  BY <1>1, <1>2, DirectUnitsAre DEF WriteAll
<1>3. CASE \E n \in 0..Units - 1 : WriteSome(UnitsOf(0), n)
  BY <1>1, <1>3, DirectUnitsAre DEF WriteSome
<1> QED
  BY <1>2, <1>3 DEF DirectWrite

(* Write puts a part of b on the wire and leaves the rest.                 *)
LEMMA WriteDoes ==
  ASSUME Lists, Write
  PROVE  /\ pc["send"] = "write"
         /\ \E n \in 0..Len(b) :
              /\ wire' = wire \o SubSeq(b, 1, n)
              /\ b' = SubSeq(b, n + 1, Len(b))
              /\ UNCHANGED <<que, batch, sent>>
              /\ \/ n = Len(b) /\ err' = "nil" /\ netErr' = netErr /\ Goto("send", "loop")
                 \/ (netErr' <=> netErr \/ Open) /\ conn' = conn /\ Goto("send", "failed")
                    /\ err' \in {"timeout", "io"}
<1> USE DEF At, sessionVars
<1>1. CASE SendWrite
  <2>1. Len(b) \in 0..Len(b) /\ SubSeq(b, 1, Len(b)) = b /\ SubSeq(b, Len(b) + 1, Len(b)) = <<>>
    BY SMT DEF Lists
  <2> QED
    BY <1>1, <2>1 DEF SendWrite, WriteAll
<1>2. ASSUME NEW e \in {"timeout", "io"}, NEW n \in 0..Len(b) - 1, SendWriteErr(e, n)
      PROVE  /\ pc["send"] = "write"
             /\ wire' = wire \o SubSeq(b, 1, n)
             /\ b' = SubSeq(b, n + 1, Len(b))
             /\ UNCHANGED <<que, batch, sent>>
             /\ (netErr' <=> netErr \/ Open) /\ conn' = conn /\ Goto("send", "failed")
             /\ err' \in {"timeout", "io"}
  BY <1>2 DEF SendWriteErr, WriteSome
<1>3. 0..Len(b) - 1 \subseteq 0..Len(b)
  BY SMT DEF Lists
<1> QED
  BY <1>1, <1>2, <1>3 DEF Write

(* What SendLoop does with a batch.                                        *)
LEMMA LoopDoes ==
  ASSUME Lists, Numbered, err \in Errs, SendLoop
  PROVE  /\ pc["send"] = "loop" /\ UNCHANGED <<que, sent, wire, netErr>> /\ batch' = <<>>
         /\ \/ batch = <<>> /\ b' = <<>> /\ err' = err /\ Goto("send", "get")
            \/ /\ \E acc : Encoded(batch, Len(batch), err, acc) /\ b' = acc.b /\ err' = acc.err
               /\ Goto("send", IF b' = <<>> THEN "get" ELSE "write")
<1>1. pc["send"] = "loop" /\ UNCHANGED <<que, sent, wire, netErr>>
  BY DEF SendLoop, At, sessionVars
<1>2. CASE batch = <<>>
  BY <1>1, <1>2 DEF SendLoop
<1>3. CASE batch # <<>>
  <2>1. InOrder(batch)
    <3>1. batch \in Seq(Msgs) /\ Len(batch) \in Nat /\ Len(que) \in Nat /\ Len(sent) \in Nat
      BY LenProperties DEF Lists
    <3>2. \A i \in 1..Len(batch) : batch[i].id = Taken + i
      <4>1. \A i \in 1..Len(batch) : Taken + i \in 1..Len(sent)
        BY SMT, <3>1 DEF Numbered, Taken
      <4> QED
        BY <4>1 DEF Numbered
    <3>3. \A i, j \in 1..Len(batch) : i < j => Taken + i < Taken + j
      BY SMT, <3>1 DEF Taken
    <3> QED
      BY <3>1, <3>2, <3>3 DEF InOrder
  <2>2. Encoded(batch, Len(batch), err, Encode(batch, err))
    BY <2>1, EncodeResult
  <2>3. /\ b' = Encode(batch, err).b /\ err' = Encode(batch, err).err /\ batch' = <<>>
        /\ Goto("send", IF Encode(batch, err).b = <<>> THEN "get" ELSE "write")
    BY <1>3 DEF SendLoop
  <2> QED
    BY <1>1, <2>2, <2>3
<1> QED
  BY <1>2, <1>3

(* The lists keep their types.                                             *)
LEMMA ListsStep ==
  ASSUME IInv, Lists, Numbered, err \in Errs, Next
  PROVE  Lists'
<1> DEFINE Q == Seq(Msgs)
           W == (0..MaxMsgs) \X (1..Units)
<1>l. que \in Q /\ batch \in Q /\ sent \in Q /\ b \in Seq(Unit) /\ wire \in Seq(W)
  BY DEF Lists, Unit
<1>e. <<>> \in Q /\ <<>> \in Seq(Unit)
  BY SMT
<1>s. {0} \X (1..Units) \subseteq W /\ Unit \subseteq W
  BY SMT, StreamSocketAssumption DEF Unit
<1> SUFFICES que' \in Q /\ batch' \in Q /\ sent' \in Q /\ b' \in Seq(Unit) /\ wire' \in Seq(W)
  BY DEF Lists, Unit
<1> HIDE DEF Q, W
<1>1. CASE ~DataStep
  BY <1>1, <1>l, OtherSteps
<1>2. ASSUME NEW u \in Users, NEW k \in Kinds, Send(u, k)
      PROVE  que' \in Q /\ batch' \in Q /\ sent' \in Q /\ b' \in Seq(Unit) /\ wire' \in Seq(W)
  <2> DEFINE m == [id |-> Len(sent) + 1, kind |-> k]
  <2>1. m \in Msgs
    <3>1. Len(sent) \in Nat /\ Len(sent) < MaxMsgs /\ MaxMsgs \in Nat
      BY <1>2, <1>l, LenProperties, StreamSocketAssumption DEF Send, Q
    <3>2. Len(sent) + 1 \in 1..MaxMsgs
      BY SMT, <3>1
    <3> QED
      BY <3>2 DEF Msgs
  <2>2. que' = Append(que, m) /\ sent' = Append(sent, m) /\ UNCHANGED <<batch, b, wire>>
    BY <1>2 DEF Send, sendVars
  <2> HIDE DEF m
  <2>3. Append(que, m) \in Q /\ Append(sent, m) \in Q
    BY <1>l, <2>1, Appended DEF Q
  <2> QED
    BY <1>l, <2>2, <2>3
<1>3. ASSUME NEW u \in Users, DirectWrite(u)
      PROVE  que' \in Q /\ batch' \in Q /\ sent' \in Q /\ b' \in Seq(Unit) /\ wire' \in Seq(W)
  <2>1. PICK z \in Seq({0} \X (1..Units)) : wire' = wire \o z
    BY <1>3, DirectWritten
  <2>2. z \in Seq(W)
    BY <1>s, LargerSet
  <2>3. wire \o z \in Seq(W)
    BY <1>l, <2>2, Joined
  <2> QED
    BY <1>3, <1>l, <2>1, <2>3 DEF DirectWrite, sessionVars
<1>4. CASE SendGet
  BY <1>4, <1>l, <1>e DEF SendGet
<1>5. CASE SendLoop
  <2>1. b' = <<>> \/ b' \in Seq(Unit)
    BY <1>5, LoopDoes DEF Encoded
  <2> QED
    BY <1>5, <1>l, <1>e, <2>1, LoopDoes
<1>6. CASE SendFailed \/ SendFailedTest
  BY <1>6, <1>l, <1>e DEF SendFailed, SendFailedTest, sessionVars
<1>7. CASE Write
  <2>1. PICK n \in 0..Len(b) : /\ wire' = wire \o SubSeq(b, 1, n)
                               /\ b' = SubSeq(b, n + 1, Len(b))
                               /\ UNCHANGED <<que, batch, sent>>
    BY <1>7, WriteDoes
  <2>2. SubSeq(b, 1, n) \in Seq(Unit) /\ SubSeq(b, n + 1, Len(b)) \in Seq(Unit)
    BY <1>l, Cut
  <2>3. SubSeq(b, 1, n) \in Seq(W)
    BY <1>s, <2>2, LargerSet
  <2>4. wire \o SubSeq(b, 1, n) \in Seq(W)
    BY <1>l, <2>3, Joined
  <2> QED
    BY <1>l, <2>1, <2>2, <2>4
<1> QED
  BY <1>1, <1>2, <1>3, <1>4, <1>5, <1>6, <1>7 DEF DataStep

(* The messages stay numbered, and only the encoding loop takes some.      *)
LEMMA NumberedStep ==
  ASSUME IInv, Lists, Numbered, err \in Errs, Next
  PROVE  /\ Numbered'
         /\ Taken \in Nat /\ Taken <= Len(sent) /\ Len(sent) \in Nat
         /\ Taken' = IF SendLoop THEN Taken + Len(batch) ELSE Taken
         /\ \A i \in 1..Len(sent) : sent'[i] = sent[i]
<1>t. /\ "send" \in Threads /\ pc \in [Threads -> PCs] /\ "send" \notin Users /\ Users \subseteq Threads
  BY StreamSocketAssumption DEF Threads, IInv, Types
<1>n. /\ Len(que) \in Nat /\ Len(batch) \in Nat /\ Len(sent) \in Nat /\ Len(<<>>) = 0
      /\ Taken \in Nat /\ Taken <= Len(sent) /\ Len(que) + Len(batch) <= Len(sent)
      /\ Taken = Len(sent) - Len(que) - Len(batch)
  <2>1. Len(que) \in Nat /\ Len(batch) \in Nat /\ Len(sent) \in Nat
    BY LenProperties DEF Lists
  <2> QED
    BY SMT, <2>1 DEF Numbered, Taken
<1>0. 1..0 = {}
  BY SMT
<1> DEFINE Goal == /\ Numbered'
                   /\ Taken' = IF SendLoop THEN Taken + Len(batch) ELSE Taken
                   /\ \A i \in 1..Len(sent) : sent'[i] = sent[i]
<1>1. ASSUME UNCHANGED <<que, batch, sent>>, pc'["send"] # "loop" => batch = <<>>, ~SendLoop
      PROVE  Goal
  BY <1>1 DEF Numbered, Taken
<1> SUFFICES Goal
  BY <1>n
<1> HIDE DEF Goal
<1>2. CASE ~DataStep
  <2>1. UNCHANGED <<que, batch, sent>> /\ (pc'["send"] # "loop" => pc["send"] # "loop")
    BY <1>2, OtherSteps
  <2>2. ~SendLoop
    BY <1>2 DEF DataStep
  <2>3. pc'["send"] # "loop" => batch = <<>>
    BY <2>1 DEF Numbered
  <2> QED
    BY <1>1, <2>1, <2>2, <2>3
<1>3. ASSUME NEW u \in Users, NEW k \in Kinds, Send(u, k)
      PROVE  Goal
  <2> DEFINE m == [id |-> Len(sent) + 1, kind |-> k]
  <2>1. que' = Append(que, m) /\ sent' = Append(sent, m) /\ batch' = batch /\ Len(sent) < MaxMsgs
    BY <1>3 DEF Send, sendVars
  <2>2. m.id = Len(sent) + 1
    OBVIOUS
  <2>3. pc'["send"] = pc["send"]
    BY <1>3, <1>t DEF Send, Goto
  <2> HIDE DEF m
  <2>4. /\ Len(que') = Len(que) + 1 /\ que'[Len(que) + 1] = m
        /\ \A i \in 1..Len(que) : que'[i] = que[i]
    BY SMT, <2>1 DEF Lists
  <2>5. /\ Len(sent') = Len(sent) + 1 /\ sent'[Len(sent) + 1] = m
        /\ \A i \in 1..Len(sent) : sent'[i] = sent[i]
    BY SMT, <2>1 DEF Lists
  <2>6. Taken' = Taken
    BY SMT, <1>n, <2>1, <2>4, <2>5 DEF Taken
  <2>7. /\ Len(sent') <= MaxMsgs /\ Len(que') + Len(batch') <= Len(sent')
        /\ \A i \in 1..Len(batch) : Taken + i \in 1..Len(sent)
        /\ \A i \in 1..Len(que) : Taken + Len(batch) + i \in 1..Len(sent)
        /\ \A i \in 1..Len(que') : i \in 1..Len(que) \/ i = Len(que) + 1
        /\ \A i \in 1..Len(sent') : i \in 1..Len(sent) \/ i = Len(sent) + 1
        /\ Taken + Len(batch) + (Len(que) + 1) = Len(sent) + 1
    BY SMT, <1>n, <2>1, <2>4, <2>5, StreamSocketAssumption
  <2>8. \A i \in 1..Len(sent') : sent'[i].id = i
    BY <2>2, <2>5, <2>7 DEF Numbered
  <2>9. \A i \in 1..Len(batch') : batch'[i] = sent'[Taken' + i]
    BY <2>1, <2>5, <2>6, <2>7 DEF Numbered
  <2>10. \A i \in 1..Len(que') : que'[i] = sent'[Taken' + Len(batch') + i]
    <3>1. ASSUME NEW i \in 1..Len(que)
          PROVE  que'[i] = sent'[Taken' + Len(batch') + i]
      BY <2>1, <2>4, <2>5, <2>6, <2>7 DEF Numbered
    <3>2. que'[Len(que) + 1] = sent'[Taken' + Len(batch') + (Len(que) + 1)]
      BY <2>1, <2>4, <2>5, <2>6, <2>7
    <3> QED
      BY <2>7, <3>1, <3>2
  <2>11. ~SendLoop
    BY <1>t, <2>3 DEF SendLoop, At, Goto
  <2> QED
    BY <2>1, <2>3, <2>5, <2>6, <2>7, <2>8, <2>9, <2>10, <2>11 DEF Numbered, Goal
<1>4. ASSUME NEW u \in Users, DirectWrite(u)
      PROVE  Goal
  <2>1. UNCHANGED <<que, batch, sent>> /\ pc'["send"] = pc["send"]
    BY <1>4, <1>t DEF DirectWrite, Goto, sessionVars
  <2>2. ~SendLoop
    BY <1>t, <2>1 DEF SendLoop, At, Goto
  <2>3. pc'["send"] # "loop" => batch = <<>>
    BY <2>1 DEF Numbered
  <2> QED
    BY <1>1, <2>1, <2>2, <2>3
<1>5. CASE SendGet
  <2>1. /\ batch = <<>> /\ batch' = que /\ que' = <<>> /\ sent' = sent
        /\ pc'["send"] # "loop" => que = <<>>
    BY <1>5, <1>t DEF SendGet, At, Goto, Numbered
  <2>2. ~SendLoop
    BY <1>5 DEF SendGet, SendLoop, At
  <2>3. Taken' = Taken /\ Len(que') + Len(batch') <= Len(sent') /\ Taken + Len(batch) = Taken
        /\ Len(que') = 0
    BY SMT, <1>n, <2>1 DEF Taken
  <2>4. \A i \in 1..Len(batch') : batch'[i] = sent'[Taken' + i]
    BY <2>1, <2>3 DEF Numbered
  <2>5. 1..Len(que') = {}
    BY <1>0, <2>3
  <2>6. \A i \in 1..Len(que') : que'[i] = sent'[Taken' + Len(batch') + i]
    BY <2>5
  <2>7. Numbered'
    BY <2>1, <2>3, <2>4, <2>6 DEF Numbered
  <2> QED
    BY <2>1, <2>2, <2>3, <2>7 DEF Goal
<1>6. CASE SendLoop
  <2>1. UNCHANGED <<que, sent>> /\ batch' = <<>>
    BY <1>6, LoopDoes
  <2>2. Taken' = Taken + Len(batch) /\ Len(que') + Len(batch') <= Len(sent') /\ Len(batch') = 0
        /\ Taken' + Len(batch') = Taken + Len(batch)
    BY SMT, <1>n, <2>1 DEF Taken
  <2>3. \A i \in 1..Len(que') : que'[i] = sent'[Taken' + Len(batch') + i]
    BY <2>1, <2>2 DEF Numbered
  <2>4. 1..Len(batch') = {}
    BY <1>0, <2>2
  <2>5. \A i \in 1..Len(batch') : batch'[i] = sent'[Taken' + i]
    BY <2>4
  <2>6. Numbered'
    BY <2>1, <2>2, <2>3, <2>5 DEF Numbered
  <2> QED
    BY <1>6, <2>1, <2>2, <2>6 DEF Goal
<1>7. CASE SendFailed \/ SendFailedTest
  <2>1. UNCHANGED <<que, batch, sent>> /\ pc["send"] # "loop"
    BY <1>7 DEF SendFailed, SendFailedTest, At, sessionVars
  <2>2. ~SendLoop
    BY <2>1 DEF SendLoop, At
  <2>3. batch = <<>>
    BY <2>1 DEF Numbered
  <2> QED
    BY <1>1, <2>1, <2>2, <2>3
<1>8. CASE Write
  <2>1. UNCHANGED <<que, batch, sent>> /\ pc["send"] # "loop"
    BY <1>8, WriteDoes
  <2>2. ~SendLoop
    BY <2>1 DEF SendLoop, At
  <2>3. batch = <<>>
    BY <2>1 DEF Numbered
  <2> QED
    BY <1>1, <2>1, <2>2, <2>3
<1> QED
  BY <1>2, <1>3, <1>4, <1>5, <1>6, <1>7, <1>8 DEF DataStep

(* A unit of a message that was encoded and not rejected, after a step.    *)
Passes(x) == x[1] # 0 => x[1] <= Taken' /\ sent'[x[1]].kind # "bad"

(* What was encoded stays encoded.                                         *)
LEMMA PassedStep ==
  ASSUME IInv, Lists, Numbered, err \in Errs, Next
  PROVE  \A x \in (0..MaxMsgs) \X (1..Units) : Passed(x) => Passes(x)
<1>1. /\ Taken \in Nat /\ Taken <= Len(sent) /\ Len(sent) \in Nat
      /\ \A i \in 1..Len(sent) : sent'[i] = sent[i]
  BY NumberedStep
<1>2. Taken' = Taken \/ Taken' = Taken + Len(batch)
  BY NumberedStep
<1>3. Len(batch) \in Nat
  BY LenProperties DEF Lists
<1> TAKE x \in (0..MaxMsgs) \X (1..Units)
<1>4. x[1] \in 0..MaxMsgs
  OBVIOUS
<1>5. x[1] # 0 /\ x[1] <= Taken => x[1] \in 1..Len(sent) /\ x[1] <= Taken'
  BY SMT, <1>1, <1>2, <1>3, <1>4, StreamSocketAssumption
<1> QED
  BY <1>1, <1>5 DEF Passed, Passes

(* The order of the units is kept.                                         *)
LEMMA OrderedStep ==
  ASSUME IInv, Lists, Numbered, err \in Errs, Ordered, Next
  PROVE  Ordered'
<1> DEFINE W == (0..MaxMsgs) \X (1..Units)
<1>l. b \in Seq(Unit) /\ wire \in Seq(W)
  BY DEF Lists, Unit
<1>s. {0} \X (1..Units) \subseteq W /\ Unit \subseteq W
  BY SMT, StreamSocketAssumption DEF Unit
<1>p. \A x \in W : Passed(x) => Passes(x)
  BY PassedStep
<1> HIDE DEF W
<1>u. b \in Seq(W)
  BY <1>l, <1>s, LargerSet
<1>a. /\ \A i \in DOMAIN wire : Passes(wire[i])
      /\ Holding => \A i \in DOMAIN b : Passes(b[i])
  <2>1. /\ \A i \in DOMAIN wire : wire[i] \in W
        /\ \A i \in DOMAIN b : b[i] \in W
    BY SMT, <1>l, <1>u
  <2> QED
    BY <1>p, <2>1 DEF Ordered, Accepted
<1>0. ASSUME Ascending(wire)', \A i \in DOMAIN wire' : Passes(wire'[i]),
             Holding' => Ascending(b)' /\ Precedes(wire, b)' /\ \A i \in DOMAIN b' : Passes(b'[i])
      PROVE  Ordered'
  BY <1>0 DEF Ordered, Accepted, Passed, Passes
<1>1. ASSUME wire' = wire, Holding' => Holding /\ b' = b
      PROVE  Ordered'
  <2>1. Ascending(wire)'
    BY <1>1 DEF Ordered, Ascending
  <2>2. Holding' => Ascending(b)' /\ Precedes(wire, b)'
    BY <1>1 DEF Ordered, Ascending, Precedes
  <2> QED
    BY <1>0, <1>1, <1>a, <2>1, <2>2
<1>2. CASE ~DataStep
  <2>1. wire' = wire /\ b' = b /\ (Holding' => Holding)
    BY <1>2, OtherSteps DEF Holding
  <2> QED
    BY <1>1, <2>1
<1>t. /\ "send" \in Threads /\ pc \in [Threads -> PCs] /\ "send" \notin Users /\ Users \subseteq Threads
  BY StreamSocketAssumption DEF Threads, IInv, Types
<1>3. ASSUME NEW u \in Users, NEW k \in Kinds, Send(u, k)
      PROVE  Ordered'
  <2>1. wire' = wire /\ b' = b /\ pc'["send"] = pc["send"]
    BY <1>3, <1>t DEF Send, Goto, sendVars
  <2> QED
    BY <1>1, <2>1 DEF Holding
<1>4. CASE SendGet
  <2>1. wire' = wire /\ pc'["send"] \in {"loop", "closeWrite"}
    BY <1>4, <1>t DEF SendGet, Goto
  <2>2. ~Holding'
    BY SMT, <2>1 DEF Holding
  <2> QED
    BY <1>1, <2>1, <2>2
<1>5. CASE SendFailed \/ SendFailedTest
  <2>1. wire' = wire /\ Holding
    BY <1>5 DEF SendFailed, SendFailedTest, At, Holding, sessionVars
  <2>2. b' = b \/ pc'["send"] = "get"
    BY <1>5, <1>t DEF SendFailed, SendFailedTest, Goto
  <2>3. pc'["send"] = "get" => ~Holding'
    BY SMT DEF Holding
  <2> QED
    BY <1>1, <2>1, <2>2, <2>3
<1>6. CASE SendLoop
  <2>1. wire' = wire /\ (pc'["send"] = "get" \/ \E acc : Encoded(batch, Len(batch), err, acc) /\ b' = acc.b)
    BY <1>6, <1>t, LoopDoes DEF Goto
  <2>2. CASE pc'["send"] = "get"
    <3>1. ~Holding'
      BY SMT, <2>2 DEF Holding
    <3> QED
      BY <1>1, <2>1, <3>1
  <2>3. ASSUME NEW acc, Encoded(batch, Len(batch), err, acc), b' = acc.b
        PROVE  Ordered'
    <3>1. Ascending(acc.b) /\ \A x \in DOMAIN acc.b : \E j \in 1..Len(batch) :
            batch[j].kind # "bad" /\ acc.b[x][1] = batch[j].id
      BY <2>3 DEF Encoded, EncodedIn
    <3>2. /\ Taken \in Nat /\ Len(batch) \in Nat /\ Len(que) \in Nat /\ Len(sent) \in Nat
          /\ Taken' = Taken + Len(batch) /\ Taken + Len(batch) <= Len(sent)
      <4>1. Len(batch) \in Nat /\ Len(que) \in Nat /\ Len(sent) \in Nat
        BY LenProperties DEF Lists
      <4>2. Taken \in Nat /\ Taken' = Taken + Len(batch)
        BY <1>6, NumberedStep
      <4>3. Taken + Len(batch) <= Len(sent)
        BY SMT, <4>1 DEF Taken, Numbered
      <4> QED
        BY <4>1, <4>2, <4>3
    <3>3. \A j \in 1..Len(batch) : /\ Taken + j \in 1..Len(sent) /\ Taken + j <= Taken'
                                   /\ \A i \in Nat : i <= Taken => i < Taken + j
      BY SMT, <3>2
    <3>4. \A j \in 1..Len(batch) : batch[j].id = Taken + j /\ sent'[Taken + j] = batch[j]
      BY <1>6, <3>3, LoopDoes DEF Numbered
    <3>5. \A x \in DOMAIN acc.b : \E j \in 1..Len(batch) :
            batch[j].kind # "bad" /\ acc.b[x][1] = Taken + j /\ sent'[Taken + j] = batch[j]
      BY <3>1, <3>4
    <3>6. \A x \in DOMAIN acc.b : Passes(acc.b[x])
      BY <3>3, <3>5 DEF Passes
    <3>7. \A i \in DOMAIN wire : wire[i][1] # 0 => wire[i][1] \in Nat /\ wire[i][1] <= Taken
      <4>1. \A i \in DOMAIN wire : wire[i][1] \in Nat
        BY SMT, <1>l DEF W
      <4> QED
        BY <4>1 DEF Ordered, Accepted, Passed
    <3>8. Precedes(wire, acc.b)
      BY <3>3, <3>5, <3>7 DEF Precedes, Before
    <3>9. Ascending(wire)' /\ Ascending(b)' /\ Precedes(wire, b)'
      BY <2>1, <2>3, <3>1, <3>8 DEF Ascending, Precedes, Ordered
    <3> QED
      BY <1>0, <1>a, <2>1, <2>3, <3>6, <3>9
  <2> QED
    BY <2>1, <2>2, <2>3
<1>7. ASSUME NEW u \in Users, DirectWrite(u)
      PROVE  Ordered'
  <2>1. PICK z \in Seq({0} \X (1..Units)) : wire' = wire \o z
    BY <1>7, DirectWritten
  <2>2. b' = b /\ pc'["send"] = pc["send"]
    BY <1>7, <1>t DEF DirectWrite, Goto
  <2>3. z \in Seq(W)
    BY <1>s, LargerSet
  <2>4. Join(wire, z, wire \o z)
    BY <1>l, <2>3, Joined
  <2>5. \A i \in DOMAIN z : z[i][1] = 0
    BY SMT
  <2>6. Ascending(z) /\ Precedes(wire, z) /\ Precedes(z, b)
    BY <2>5 DEF Ascending, Precedes
  <2>7. Ascending(wire \o z)
    BY <2>4, <2>6, Merge DEF Ordered
  <2>8. Holding => Precedes(wire \o z, b)
    BY <2>4, <2>6, PrecedesJoined DEF Ordered
  <2>9. \A i \in DOMAIN (wire \o z) : Passes((wire \o z)[i])
    BY <1>a, <2>4, <2>5 DEF Passes, Join, JoinOnly
  <2>10. Ascending(wire)' /\ (Holding' => Ascending(b)' /\ Precedes(wire, b)')
    BY <2>1, <2>2, <2>7, <2>8 DEF Ascending, Precedes, Holding, Ordered
  <2> QED
    BY <1>0, <1>a, <2>1, <2>2, <2>9, <2>10 DEF Holding
<1>8. CASE Write
  <2>1. PICK n \in 0..Len(b) : /\ wire' = wire \o SubSeq(b, 1, n)
                               /\ b' = SubSeq(b, n + 1, Len(b))
    BY <1>8, WriteDoes
  <2> DEFINE p == SubSeq(b, 1, n)
             q == SubSeq(b, n + 1, Len(b))
  <2>2. Ascending(b) /\ Precedes(wire, b) /\ \A i \in DOMAIN b : Passes(b[i])
    <3>1. Holding
      BY <1>8, WriteDoes DEF Holding
    <3> QED
      BY <1>a, <3>1 DEF Ordered
  <2>3. p \in Seq(W) /\ CutInTwo(b, n, p, q)
    BY <1>u, Cut
  <2>4. Len(b) \in Nat /\ n \in Nat
    <3>1. Len(b) \in Nat
      BY <1>l, LenProperties
    <3> QED
      BY SMT, <3>1
  <2>w. wire' = wire \o p /\ b' = q
    BY <2>1
  <2> HIDE DEF p, q
  <2>5. Ascending(p) /\ Ascending(q) /\ Precedes(p, q)
    BY <2>2, <2>3, <2>4, CutAscending
  <2>6. Precedes(wire, p) /\ Precedes(wire, q)
    BY <2>2, <2>3 DEF CutInTwo, Precedes
  <2>7. Join(wire, p, wire \o p)
    BY <1>l, <2>3, Joined
  <2>8. Ascending(wire \o p)
    BY <2>5, <2>6, <2>7, Merge DEF Ordered
  <2>9. Precedes(wire \o p, q)
    BY <2>5, <2>6, <2>7, PrecedesJoined
  <2>10. (\A i \in DOMAIN p : Passes(p[i])) /\ (\A i \in DOMAIN q : Passes(q[i]))
    BY <2>2, <2>3 DEF CutInTwo
  <2>11. \A i \in DOMAIN (wire \o p) : Passes((wire \o p)[i])
    BY <1>a, <2>7, <2>10 DEF Join, JoinOnly
  <2>12. Ascending(wire)' /\ Ascending(b)' /\ Precedes(wire, b)'
    BY <2>w, <2>5, <2>8, <2>9 DEF Ascending, Precedes
  <2> QED
    BY <1>0, <2>w, <2>10, <2>11, <2>12
<1> QED
  BY <1>2, <1>3, <1>4, <1>5, <1>6, <1>7, <1>8 DEF DataStep

(* Without a failed write, no message is lost.                             *)
LEMMA CompleteStep ==
  ASSUME IInv, Lists, Delays, Numbered, err \in Errs, Complete, Next
  PROVE  Complete'
<1> DEFINE Fails == {"failed", "callback", "failedTest"}
           Gone(i, k) == \E j \in DOMAIN wire : wire[j] = <<i, k>>
           GoneThen(i, k) == \E j \in DOMAIN wire' : wire'[j] = <<i, k>>
           InB(i, k) == \E j \in DOMAIN b : b[j] = <<i, k>>
           InBThen(i, k) == \E j \in DOMAIN b' : b'[j] = <<i, k>>
           Then(i, k) == GoneThen(i, k) \/ (pc'["send"] = "write" /\ InBThen(i, k))
<1> SUFFICES ASSUME NoStale, ~netErr', Open' \/ Delaying'
             PROVE  /\ pc'["send"] \notin Fails /\ CleanErr(err')
                    /\ \A i \in 1..Taken' : sent'[i].kind # "bad" => \A k \in 1..Units : Then(i, k)
  BY DEF Complete, Written, CleanErr, NoStale
<1>o. Open \/ Delaying
  BY StillOpen
<1>t. /\ "send" \in Threads /\ pc \in [Threads -> PCs] /\ "send" \notin Users /\ Users \subseteq Threads
  BY StreamSocketAssumption DEF Threads, IInv, Types
<1>n. /\ Taken \in Nat /\ Taken <= Len(sent) /\ Len(sent) \in Nat
      /\ \A i \in 1..Len(sent) : sent'[i] = sent[i]
      /\ Taken' = IF SendLoop THEN Taken + Len(batch) ELSE Taken
  BY NumberedStep
<1>e. ~netErr
  <2>1. CASE Write
    BY <2>1, WriteDoes
  <2>2. CASE ~DataStep
    BY <2>2, OtherSteps
  <2>3. CASE DataStep /\ ~Write
    BY <2>3 DEF DataStep, Send, DirectWrite, SendGet, SendLoop, SendFailed, SendFailedTest, sendVars
  <2> QED
    BY <2>1, <2>2, <2>3
<1>c. /\ pc["send"] \notin Fails /\ CleanErr(err)
      /\ \A i \in 1..Taken : sent[i].kind # "bad" =>
           \A k \in 1..Units : Gone(i, k) \/ (pc["send"] = "write" /\ InB(i, k))
  BY <1>e, <1>o DEF Complete, Written
<1>s. \A i \in 1..Taken : sent'[i] = sent[i]
  <2>1. \A i \in 1..Taken : i \in 1..Len(sent)
    BY SMT, <1>n
  <2> QED
    BY <1>n, <2>1
<1> DEFINE Goal == /\ pc'["send"] \notin Fails /\ CleanErr(err')
                   /\ \A i \in 1..Taken' : sent'[i].kind # "bad" => \A k \in 1..Units : Then(i, k)
<1> SUFFICES Goal
  OBVIOUS
<1>1. ASSUME pc'["send"] \notin Fails, CleanErr(err'), ~SendLoop,
             \A i, k : Gone(i, k) => GoneThen(i, k),
             \A i, k : pc["send"] = "write" /\ InB(i, k) => Then(i, k)
      PROVE  Goal
  <2> HIDE DEF Gone, GoneThen, InB, InBThen
  <2>1. Taken' = Taken
    BY <1>1, <1>n
  <2> QED
    BY <1>1, <1>c, <1>s, <2>1
<1> HIDE DEF Goal
<1>2. CASE ~DataStep
  <2>1. /\ UNCHANGED <<b, err, wire>> /\ (pc["send"] = "write" => pc'["send"] = "write")
        /\ (pc'["send"] \in Fails => pc["send"] \in Fails)
    BY <1>2, OtherSteps
  <2>2. ~SendLoop
    BY <1>2 DEF DataStep
  <2> QED
    BY <1>1, <1>c, <2>1, <2>2
<1>3. ASSUME NEW u \in Users, NEW k \in Kinds, Send(u, k)
      PROVE  Goal
  <2>1. UNCHANGED <<b, err, wire>> /\ pc'["send"] = pc["send"]
    BY <1>3, <1>t DEF Send, Goto, sendVars
  <2>2. ~SendLoop
    BY <1>t, <2>1 DEF SendLoop, At, Goto
  <2> QED
    BY <1>1, <1>c, <2>1, <2>2
<1>4. ASSUME NEW u \in Users, DirectWrite(u)
      PROVE  Goal
  <2>1. UNCHANGED <<b, err>> /\ pc'["send"] = pc["send"]
    BY <1>4, <1>t DEF DirectWrite, Goto
  <2>2. ~SendLoop
    BY <1>t, <2>1 DEF SendLoop, At, Goto
  <2>3. PICK z \in Seq({0} \X (1..Units)) : wire' = wire \o z
    BY <1>4, DirectWritten
  <2> DEFINE W == (0..MaxMsgs) \X (1..Units)
  <2>4. {0} \X (1..Units) \subseteq W /\ wire \in Seq(W)
    BY SMT, StreamSocketAssumption DEF Lists
  <2> HIDE DEF W
  <2>5. z \in Seq(W)
    BY <2>4, LargerSet
  <2>6. Join(wire, z, wire')
    BY <2>3, <2>4, <2>5, Joined
  <2>7. \A i, k : Gone(i, k) => GoneThen(i, k)
    BY <2>6 DEF Join, JoinKeeps
  <2> QED
    BY <1>1, <1>c, <2>1, <2>2, <2>7
<1>5. CASE SendGet
  <2>1. /\ UNCHANGED <<err, wire>> /\ pc["send"] = "get" /\ pc'["send"] \in {"loop", "closeWrite"}
    BY <1>5, <1>t DEF SendGet, At, Goto
  <2>2. ~SendLoop /\ pc["send"] # "write" /\ pc'["send"] \notin Fails
    BY SMT, <2>1 DEF SendLoop, At
  <2> QED
    BY <1>1, <1>c, <2>1, <2>2
<1>6. CASE SendFailed \/ SendFailedTest
  BY <1>6, <1>c DEF SendFailed, SendFailedTest, At
<1>7. CASE Write
  <2>1. pc["send"] = "write"
    BY <1>7, WriteDoes
  <2>2. Open
    BY <1>o, <2>1, WritesOpen
  <2>3. PICK n \in 0..Len(b) : /\ wire' = wire \o SubSeq(b, 1, n)
                               /\ n = Len(b) /\ err' = "nil" /\ Goto("send", "loop")
    BY <1>7, <2>2, WriteDoes
  <2>4. pc'["send"] = "loop" /\ err' = "nil"
    BY <1>t, <2>3 DEF Goto
  <2>5. ~SendLoop /\ pc'["send"] \notin Fails /\ CleanErr(err')
    BY SMT, <2>1, <2>4 DEF SendLoop, At, CleanErr
  <2>6. wire' = wire \o b
    <3>1. SubSeq(b, 1, Len(b)) = b
      BY SMT DEF Lists
    <3> QED
      BY <2>3, <3>1
  <2>7. Unit \subseteq (0..MaxMsgs) \X (1..Units)
    BY SMT, StreamSocketAssumption DEF Unit
  <2>8. b \in Seq((0..MaxMsgs) \X (1..Units)) /\ wire \in Seq((0..MaxMsgs) \X (1..Units))
    <3>1. b \in Seq(Unit)
      BY DEF Lists, Unit
    <3>2. b \in Seq((0..MaxMsgs) \X (1..Units))
      BY <2>7, <3>1, LargerSet
    <3> QED
      BY <3>2 DEF Lists
  <2>9. Join(wire, b, wire')
    BY <2>6, <2>8, Joined
  <2>10. \A i, k : Gone(i, k) \/ InB(i, k) => GoneThen(i, k)
    BY <2>9 DEF Join, JoinKeeps
  <2> QED
    BY <1>1, <2>5, <2>10
<1>8. CASE SendLoop
  <2>1. pc["send"] = "loop" /\ wire' = wire
    BY <1>8, LoopDoes
  <2>2. \A i \in 1..Taken : sent'[i].kind # "bad" => \A k \in 1..Units : GoneThen(i, k)
    BY <1>c, <1>s, <2>1
  <2>3. Len(batch) \in Nat /\ Taken' = Taken + Len(batch)
    BY <1>8, <1>n, LenProperties DEF Lists
  <2>4. CASE batch = <<>> /\ err' = err /\ Goto("send", "get")
    <3>1. pc'["send"] = "get"
      BY <1>t, <2>4 DEF Goto
    <3>2. pc'["send"] \notin Fails
      BY SMT, <3>1
    <3>3. Taken' = Taken
      BY SMT, <1>n, <2>3, <2>4
    <3> QED
      BY <1>c, <2>2, <2>4, <3>2, <3>3 DEF Goal
  <2>5. ASSUME NEW acc, Encoded(batch, Len(batch), err, acc), b' = acc.b, err' = acc.err,
               Goto("send", IF b' = <<>> THEN "get" ELSE "write")
        PROVE  Goal
    <3>1. EncodedAll(batch, Len(batch), acc)
      BY <1>c, <2>5 DEF Encoded
    <3>2. CleanErr(err')
      BY <2>5, <3>1 DEF EncodedAll
    <3>3. pc'["send"] = (IF b' = <<>> THEN "get" ELSE "write")
      BY <1>t, <2>5 DEF Goto
    <3>4. pc'["send"] \notin Fails
      BY SMT, <3>3
    <3>5. \A j \in 1..Len(batch) : batch[j].kind # "bad" => \A k \in 1..Units : InBThen(batch[j].id, k)
      BY <2>5, <3>1 DEF EncodedAll
    <3>6. \A i \in 1..Taken' : i \in 1..Taken \/ (i - Taken \in 1..Len(batch) /\ Taken + (i - Taken) = i)
      BY SMT, <1>n, <2>3
    <3>7. Taken + Len(batch) <= Len(sent)
      <4>1. Len(batch) \in Nat /\ Len(que) \in Nat /\ Len(sent) \in Nat
        BY LenProperties DEF Lists
      <4> QED
        BY SMT, <4>1 DEF Taken, Numbered
    <3>8. \A j \in 1..Len(batch) : Taken + j \in 1..Len(sent)
      BY SMT, <1>n, <2>3, <3>7
    <3>9. \A j \in 1..Len(batch) : batch[j] = sent'[Taken + j] /\ batch[j].id = Taken + j
      BY <1>n, <3>8 DEF Numbered
    <3>10. \A i, k : InBThen(i, k) => pc'["send"] = "write"
      <4>1. b' = <<>> => DOMAIN b' = {}
        BY SMT
      <4> QED
        BY <3>3, <4>1
    <3>11. ASSUME NEW i \in 1..Taken', sent'[i].kind # "bad", NEW k \in 1..Units
           PROVE  Then(i, k)
      <4>1. CASE i \in 1..Taken
        BY <2>2, <3>11, <4>1
      <4>2. CASE i - Taken \in 1..Len(batch) /\ Taken + (i - Taken) = i
        <5>1. batch[i - Taken].kind # "bad" /\ batch[i - Taken].id = i
          BY <3>9, <3>11, <4>2
        <5>2. InBThen(i, k)
          BY <3>5, <4>2, <5>1
        <5> QED
          BY <3>10, <5>2
      <4> QED
        BY <3>6, <4>1, <4>2
    <3> QED
      BY <3>2, <3>4, <3>11 DEF Goal
  <2> QED
    BY <1>8, <2>4, <2>5, LoopDoes
<1> QED
  BY <1>2, <1>3, <1>4, <1>5, <1>6, <1>7, <1>8 DEF DataStep

(* What a step may do to the variables other than the lists.               *)
Flags ==
  /\ opt' = opt
  /\ flag' = flag \/ \E f \in Closing \cup {"fdoclose"} : flag' = flag \cup {f}
  /\ once' = once \/ \E o \in {"close", "begin", "send", "doClose"} : once' = once \cup {o}
  /\ conn' = conn \/ \E c \in {"close", "closeRead", "closeWrite"} : conn' = conn \cup {c}

Switches ==
  /\ queClosed' = queClosed \/ queClosed' = TRUE
  /\ sendCloseChan' = sendCloseChan \/ sendCloseChan' = TRUE
  /\ delay' = delay \/ delay' \in BOOLEAN
  /\ netErr' = netErr \/ netErr' = (netErr \/ Open)

Places ==
  /\ pc'["send"] = pc["send"] \/ pc'["send"] \in SendPCs \/ pc'["send"] \in EndPCs
  /\ pc'["recv"] = pc["recv"] \/ pc'["recv"] \in RecvPCs \/ pc'["recv"] \in EndPCs

Results ==
  /\ waiter' = waiter \/ waiter' = "wait" \/ waiter' \in {"sent", "expired"}
  /\ err' = err \/ err' \in Errs
  /\ got' = got \/ got' \in {"none", "msg", "unpack", "timeout", "io"}

Reasons ==
  /\ closeReason' = closeReason \/ closeReason' \in Threads
  /\ closer' = closer \/ closer' \in Threads
  /\ cbReason' = cbReason \/ cbReason' = closeReason \/ cbReason' \in Threads

(* Every step moves the variables within their types.                      *)
LEMMA StepMoves ==
  ASSUME IInv, Lists, Numbered, err \in Errs, Next
  PROVE  Flags /\ Switches /\ Places /\ Results /\ Reasons
<1>t. /\ {"send", "recv"} \subseteq Threads /\ pc \in [Threads -> PCs] /\ Users \subseteq Threads
      /\ "send" \notin Users /\ "recv" \notin Users
  BY StreamSocketAssumption DEF Threads, IInv, Types
<1>l. SendLoop => err' \in Errs
  BY LoopDoes DEF Encoded
<1>e. "close" \in {"close", "begin", "send", "doClose"} /\ {"timeout", "io", "nil"} \subseteq Errs
  BY DEF Errs
<1> USE DEF sessionVars, sendVars, closeVars, cbVars
<1>1. ASSUME NEW u \in Users, UserCall(u)
      PROVE  Flags /\ Switches /\ Places /\ Results /\ Reasons
  <2>1. Flags
    BY <1>1, <1>t DEF UserCall, Send, BeginRecv, ShutdownRead, ShutdownWrite, DirectSend, Close,
         CloseCall,
         Flags, Closing
  <2>2. Switches
    BY <1>1, <1>t DEF UserCall, Send, BeginRecv, ShutdownRead, ShutdownWrite, DirectSend, Close,
         CloseCall,
         Switches
  <2>3. Places
    BY <1>1, <1>t DEF UserCall, Send, BeginRecv, ShutdownRead, ShutdownWrite, DirectSend, Close,
         CloseCall,
         Places, Goto, SendPCs, RecvPCs, EndPCs
  <2>4. Results
    BY <1>1, <1>t, <1>l, <1>e DEF UserCall, Send, BeginRecv, ShutdownRead, ShutdownWrite,
         DirectSend, Close, CloseCall,
         Results
  <2>5. Reasons
    BY <1>1, <1>t DEF UserCall, Send, BeginRecv, ShutdownRead, ShutdownWrite, DirectSend, Close,
         CloseCall,
         Reasons
  <2> QED
    BY <2>1, <2>2, <2>3, <2>4, <2>5
<1>2. ASSUME NEW u \in Users, UserStep(u)
      PROVE  Flags /\ Switches /\ Places /\ Results /\ Reasons
  <2>1. Flags
    BY <1>2, <1>t DEF UserStep, SendOnce, StartSend, BeginTest, StartRecv, ShutdownConn, DirectWrite,
         Flags, Closing
  <2>2. Switches
    BY <1>2, <1>t DEF UserStep, SendOnce, StartSend, BeginTest, StartRecv, ShutdownConn, DirectWrite,
         Switches
  <2>3. Places
    BY <1>2, <1>t DEF UserStep, SendOnce, StartSend, BeginTest, StartRecv, ShutdownConn, DirectWrite,
         Places, Goto, SendPCs, RecvPCs, EndPCs
  <2>4. Results
    BY <1>2, <1>t, <1>l, <1>e DEF UserStep, SendOnce, StartSend, BeginTest, StartRecv,
         ShutdownConn, DirectWrite,
         Results
  <2>5. Reasons
    BY <1>2, <1>t DEF UserStep, SendOnce, StartSend, BeginTest, StartRecv, ShutdownConn, DirectWrite,
         Reasons
  <2> QED
    BY <2>1, <2>2, <2>3, <2>4, <2>5
<1>3. ASSUME NEW t \in Threads, CloseStep(t)
      PROVE  Flags /\ Switches /\ Places /\ Results /\ Reasons
  <2>1. Flags
    BY <1>3, <1>t DEF CloseStep, CloseSetClosed, CloseQueue, CloseSetRClosed, CloseRead, CloseConn,
           CloseSetReason, CloseSetDoClose, CloseLoadIO, CloseDoClose, DoClose,
         Flags, Closing
  <2>2. Switches
    BY <1>3, <1>t DEF CloseStep, CloseSetClosed, CloseQueue, CloseSetRClosed, CloseRead, CloseConn,
           CloseSetReason, CloseSetDoClose, CloseLoadIO, CloseDoClose, DoClose,
         Switches
  <2>3. Places
    BY <1>3, <1>t DEF CloseStep, CloseSetClosed, CloseQueue, CloseSetRClosed, CloseRead, CloseConn,
           CloseSetReason, CloseSetDoClose, CloseLoadIO, CloseDoClose, DoClose,
         Places, Goto, SendPCs, RecvPCs, EndPCs
  <2>4. Results
    BY <1>3, <1>t, <1>l, <1>e DEF CloseStep, CloseSetClosed, CloseQueue, CloseSetRClosed,
         CloseRead, CloseConn,
           CloseSetReason, CloseSetDoClose, CloseLoadIO, CloseDoClose, DoClose,
         Results
  <2>5. Reasons
    BY <1>3, <1>t DEF CloseStep, CloseSetClosed, CloseQueue, CloseSetRClosed, CloseRead, CloseConn,
           CloseSetReason, CloseSetDoClose, CloseLoadIO, CloseDoClose, DoClose,
         Reasons
  <2> QED
    BY <2>1, <2>2, <2>3, <2>4, <2>5
<1>4. ASSUME NEW t \in {"send", "recv"}, IoStep(t)
      PROVE  Flags /\ Switches /\ Places /\ Results /\ Reasons
  <2>1. Flags
    BY <1>4, <1>t DEF IoStep, IoDone, IoTest, IoDoClose, DoClose,
         Flags, Closing
  <2>2. Switches
    BY <1>4, <1>t DEF IoStep, IoDone, IoTest, IoDoClose, DoClose,
         Switches
  <2>3. Places
    BY <1>4, <1>t DEF IoStep, IoDone, IoTest, IoDoClose, DoClose,
         Places, Goto, SendPCs, RecvPCs, EndPCs
  <2>4. Results
    BY <1>4, <1>t, <1>l, <1>e DEF IoStep, IoDone, IoTest, IoDoClose, DoClose,
         Results
  <2>5. Reasons
    BY <1>4, <1>t DEF IoStep, IoDone, IoTest, IoDoClose, DoClose,
         Reasons
  <2> QED
    BY <2>1, <2>2, <2>3, <2>4, <2>5
<1>5. CASE SendStep
  <2>1. Flags
    BY <1>5, <1>t DEF SendStep, SendGet, SendCloseWrite, SendLoop, SendFailed, SendCallback,
           SendFailedTest, SendCloseChan, CallbackReturns, CloseCall, NoCall,
         Flags, Closing
  <2>2. Switches
    BY <1>5, <1>t DEF SendStep, SendGet, SendCloseWrite, SendLoop, SendFailed, SendCallback,
           SendFailedTest, SendCloseChan, CallbackReturns, CloseCall, NoCall,
         Switches
  <2>3. Places
    BY <1>5, <1>t DEF SendStep, SendGet, SendCloseWrite, SendLoop, SendFailed, SendCallback,
           SendFailedTest, SendCloseChan, CallbackReturns, CloseCall, NoCall,
         Places, Goto, SendPCs, RecvPCs, EndPCs
  <2>4. Results
    BY <1>5, <1>t, <1>l, <1>e DEF SendStep, SendGet, SendCloseWrite, SendLoop, SendFailed, SendCallback,
           SendFailedTest, SendCloseChan, CallbackReturns, CloseCall, NoCall,
         Results
  <2>5. Reasons
    BY <1>5, <1>t DEF SendStep, SendGet, SendCloseWrite, SendLoop, SendFailed, SendCallback,
           SendFailedTest, SendCloseChan, CallbackReturns, CloseCall, NoCall,
         Reasons
  <2> QED
    BY <2>1, <2>2, <2>3, <2>4, <2>5
<1>6. CASE Write
  <2>1. Flags
    BY <1>6, <1>t DEF Write, SendWrite, SendWriteErr,
         Flags, Closing
  <2>2. Switches
    BY <1>6, <1>t DEF Write, SendWrite, SendWriteErr,
         Switches
  <2>3. Places
    BY <1>6, <1>t DEF Write, SendWrite, SendWriteErr,
         Places, Goto, SendPCs, RecvPCs, EndPCs
  <2>4. Results
    BY <1>6, <1>t, <1>l, <1>e DEF Write, SendWrite, SendWriteErr,
         Results
  <2>5. Reasons
    BY <1>6, <1>t DEF Write, SendWrite, SendWriteErr,
         Reasons
  <2> QED
    BY <2>1, <2>2, <2>3, <2>4, <2>5
<1>7. CASE RecvStep
  <2>1. Flags
    BY <1>7, <1>t DEF RecvStep, RecvTest, RecvCheck, RecvCallback, CallbackReturns, CloseCall, NoCall,
         Flags, Closing
  <2>2. Switches
    BY <1>7, <1>t DEF RecvStep, RecvTest, RecvCheck, RecvCallback, CallbackReturns, CloseCall, NoCall,
         Switches
  <2>3. Places
    BY <1>7, <1>t DEF RecvStep, RecvTest, RecvCheck, RecvCallback, CallbackReturns, CloseCall, NoCall,
         Places, Goto, SendPCs, RecvPCs, EndPCs
  <2>4. Results
    BY <1>7, <1>t, <1>l, <1>e DEF RecvStep, RecvTest, RecvCheck, RecvCallback, CallbackReturns,
         CloseCall, NoCall,
         Results
  <2>5. Reasons
    BY <1>7, <1>t DEF RecvStep, RecvTest, RecvCheck, RecvCallback, CallbackReturns, CloseCall, NoCall,
         Reasons
  <2> QED
    BY <2>1, <2>2, <2>3, <2>4, <2>5
<1>8. CASE Read
  <2>1. Flags
    BY <1>8, <1>t DEF Read, RecvRead,
         Flags, Closing
  <2>2. Switches
    BY <1>8, <1>t DEF Read, RecvRead,
         Switches
  <2>3. Places
    BY <1>8, <1>t DEF Read, RecvRead,
         Places, Goto, SendPCs, RecvPCs, EndPCs
  <2>4. Results
    BY <1>8, <1>t, <1>l, <1>e DEF Read, RecvRead,
         Results
  <2>5. Reasons
    BY <1>8, <1>t DEF Read, RecvRead,
         Reasons
  <2> QED
    BY <2>1, <2>2, <2>3, <2>4, <2>5
<1>9. ASSUME NEW how \in {"sent", "expired"}, Waiter(how)
      PROVE  Flags /\ Switches /\ Places /\ Results /\ Reasons
  <2>1. Flags
    BY <1>9, <1>t DEF Waiter,
         Flags, Closing
  <2>2. Switches
    BY <1>9, <1>t DEF Waiter,
         Switches
  <2>3. Places
    BY <1>9, <1>t DEF Waiter,
         Places, Goto, SendPCs, RecvPCs, EndPCs
  <2>4. Results
    BY <1>9, <1>t, <1>l, <1>e DEF Waiter,
         Results
  <2>5. Reasons
    BY <1>9, <1>t DEF Waiter,
         Reasons
  <2> QED
    BY <2>1, <2>2, <2>3, <2>4, <2>5
<1> QED
  BY <1>1, <1>2, <1>3, <1>4, <1>5, <1>6, <1>7, <1>8, <1>9 DEF Next

(* The types are kept by what stays within them.                           *)
LEMMA DataKept ==
  ASSUME Data, Flags, Switches, Places, Results, Reasons
  PROVE  Data'
<1>3. /\ opt' \in Options
      /\ flag' \subseteq Closing \cup {"fdoclose"}
      /\ once' \subseteq {"close", "begin", "send", "doClose"}
      /\ conn' \subseteq {"close", "closeRead", "closeWrite"}
  BY DEF Data, Flags
<1>4. queClosed' \in BOOLEAN /\ sendCloseChan' \in BOOLEAN /\ delay' \in BOOLEAN /\ netErr' \in BOOLEAN
  BY DEF Data, Switches
<1>5. pc'["send"] \in SendPCs \cup EndPCs /\ pc'["recv"] \in RecvPCs \cup EndPCs
  BY DEF Data, Places
<1>6. /\ waiter' \in {"off", "wait", "sent", "expired"}
      /\ err' \in {"nil", "encode", "timeout", "io"}
      /\ got' \in {"none", "msg", "unpack", "timeout", "io"}
  BY DEF Data, Results, Errs
<1>7. {closeReason', closer', cbReason'} \subseteq Threads \cup {"none"}
  BY DEF Data, Reasons
<1> QED
  BY <1>3, <1>4, <1>5, <1>6, <1>7 DEF Data

-----------------------------------------------------------------------------
(* Nothing has been sent.                                                  *)
LEMMA InitKInv == Init => KInv
<1> SUFFICES ASSUME Init
             PROVE  KInv
  OBVIOUS
<1>1. pc["send"] = "off" /\ pc["recv"] = "off" /\ \A u \in Users : pc[u] = "idle"
  BY StreamSocketAssumption DEF Init, Threads
<1>2. \A t \in Threads : cpc[t] = "none"
  BY DEF Init
<1>3. Data
  BY <1>1 DEF Init, Data, EndPCs
<1>4. Lists
  BY SMT DEF Init, Lists
<1>5. Delays
  <2>1. /\ queClosed = FALSE /\ conn = {} /\ sendCloseChan = FALSE /\ waiter = "off"
        /\ pc["send"] # "closeWrite" /\ pc["send"] \notin Ended
    BY SMT, <1>1 DEF Init, Ended
  <2>2. ~Delaying
    BY <1>2, <2>1 DEF Delaying
  <2> QED
    BY <1>1, <2>1, <2>2 DEF Delays
<1>6. Taken = 0 /\ Len(sent) = 0 /\ Len(que) = 0 /\ Len(batch) = 0
  <2>1. sent = <<>> /\ que = <<>> /\ batch = <<>>
    BY DEF Init
  <2>2. Len(<<>>) = 0 /\ (0 - 0) - 0 = 0
    BY SMT
  <2> QED
    BY <2>1, <2>2 DEF Taken
<1>7. 1..0 = {} /\ DOMAIN wire = {}
  BY SMT DEF Init
<1>8. Numbered
  BY SMT, <1>1, <1>6, StreamSocketAssumption DEF Numbered, Init
<1>9. ~Holding /\ pc["send"] \notin {"failed", "callback", "failedTest"}
  BY SMT, <1>1 DEF Holding
<1>10. Ordered
  BY <1>7, <1>9 DEF Ordered, Ascending, Accepted
<1>11. CleanErr(err)
  BY DEF Init, CleanErr
<1>12. Complete
  BY <1>6, <1>7, <1>9, <1>11 DEF Complete
<1> QED
  BY <1>3, <1>4, <1>5, <1>8, <1>10, <1>12 DEF KInv

(* Every step keeps the second invariant.                                  *)
LEMMA NextKInv == IInv /\ KInv /\ [Next]_vars => KInv'
<1> SUFFICES ASSUME IInv, KInv, [Next]_vars
             PROVE  KInv'
  OBVIOUS
<1>1. CASE Next
  <2>1. Data /\ Lists /\ Delays /\ Numbered /\ Ordered /\ Complete
    BY DEF KInv
  <2>2. err \in Errs
    BY <2>1 DEF Data, Errs
  <2>3. Data'
    BY <1>1, <2>1, <2>2, StepMoves, DataKept
  <2>4. Lists'
    BY <1>1, <2>1, <2>2, ListsStep
  <2>5. Delays'
    BY <1>1, <2>1, DelaysStep
  <2>6. Numbered'
    BY <1>1, <2>1, <2>2, NumberedStep
  <2>7. Ordered'
    BY <1>1, <2>1, <2>2, OrderedStep
  <2>8. Complete'
    BY <1>1, <2>1, <2>2, CompleteStep
  <2> QED
    BY <2>3, <2>4, <2>5, <2>6, <2>7, <2>8 DEF KInv
<1>2. CASE UNCHANGED vars
  <2> USE <1>2 DEF vars, sessionVars, sendVars, closeVars, cbVars
  <2>0. Taken' = Taken
    BY DEF Taken
  <2>1. Lists'
    BY DEF KInv, Lists
  <2>d. Data
    BY DEF KInv
  <2>6. Data'
    BY <2>d, DataKept DEF Flags, Switches, Places, Results, Reasons
  <2>2. Delays'
    BY DEF KInv, Delays, Delaying
  <2>3. Numbered'
    BY <2>0 DEF KInv, Numbered
  <2>4. Ordered'
    BY <2>0 DEF KInv, Ordered, Holding, Ascending, Accepted, Passed, Precedes
  <2>5. Complete'
    BY <2>0 DEF KInv, Complete, Open, Delaying, Written
  <2> QED
    BY <2>1, <2>2, <2>3, <2>4, <2>5, <2>6 DEF KInv
<1> QED
  BY <1>1, <1>2

(* In every state a session reaches, a message is in the queue, in the     *)
(* batch, in the buffer, on the wire or was dropped for a reason, and a    *)
(* delayed Close has not shut the connection under the send goroutine.     *)
THEOREM MessagesAccounted == Spec => []KInv
<1>1. Init => IInv /\ KInv
  BY InitIInv, InitKInv
<1>2. IInv /\ KInv /\ [Next]_vars => IInv' /\ KInv'
  BY NextIInv, NextKInv
<1> QED
  BY <1>1, <1>2, PTL DEF Spec

(* What Send accepted goes out in order and at most once, and nothing of a *)
(* message that EnCode rejected goes out, whatever a failed write, a       *)
(* timeout or a Close drops.                                               *)
THEOREM SentInOrder == Spec => []WireInOrder
<1>1. KInv => WireInOrder
  BY DEF KInv, Ordered, Ascending, Accepted, Passed, WireInOrder
<1> QED
  BY <1>1, MessagesAccounted, PTL

(* What Complete says of the first n messages, when none is about to be    *)
(* written.                                                                *)
LEMMA AllWritten ==
  ASSUME NoStale, KInv, ~netErr, Open \/ Delaying, pc["send"] # "write"
  PROVE  OnWire(Taken)
<1>1. DOMAIN wire = 1..Len(wire)
  BY LenProperties DEF KInv, Lists
<1>2. \A i \in 1..Taken : sent[i].kind # "bad" => \A k \in 1..Units : Written(i, k)
  BY DEF KInv, Complete
<1>3. \A i, k : Written(i, k) => \E j \in 1..Len(wire) : wire[j] = <<i, k>>
  BY <1>1 DEF Written
<1> QED
  BY <1>2, <1>3 DEF OnWire

(* A session that is open, and whose network failed no write, drops only   *)
(* what EnCode rejected.  An error of EnCode is kept in err, and the loop  *)
(* passes it on to a []byte that follows: the theorem is about sessions    *)
(* that do not send both a []byte and a message EnCode rejects.            *)
THEOREM DroppedWereRejected == ASSUME NoStale PROVE Spec => []DropsOnlyRejected
<1>1. KInv => DropsOnlyRejected
  <2> SUFFICES ASSUME KInv, pc["send"] = "get", conn = {}, ~netErr
               PROVE  OnWire(Len(sent) - Len(que))
    BY DEF DropsOnlyRejected
  <2>1. Open
    BY DEF Open
  <2>2. OnWire(Taken)
    BY <2>1, AllWritten
  <2>3. batch = <<>>
    BY DEF KInv, Numbered
  <2>4. Len(sent) \in Nat /\ Len(que) \in Nat
    BY LenProperties DEF KInv, Lists
  <2>5. Taken = Len(sent) - Len(que)
    BY SMT, <2>3, <2>4 DEF Taken
  <2> QED
    BY <2>2, <2>5
<1> QED
  BY <1>1, MessagesAccounted, PTL

(* Every variable of a session has its type, ioCount is 0, 1 or 2.         *)
LEMMA Typed == IInv /\ KInv => TypeOK
<1> SUFFICES ASSUME IInv, KInv
             PROVE  TypeOK
  OBVIOUS
<1>1. ioCount \in 0..2 /\ cbCount \in Nat
  BY SMT DEF IInv, Types, Counts
<1>2. \A x \in {closeReason, closer, cbReason} : x \in Threads \cup {"none"}
  BY DEF KInv, Data
<1> QED
  BY <1>1, <1>2 DEF KInv, Data, Lists, IInv, Types, TypeOK

(* A Close with a delay that ends because the send goroutine has, after no *)
(* failed write, leaves everything Send accepted on the wire, again for    *)
(* sessions where an error of EnCode does not reach a []byte.              *)
THEOREM DelayDrains == ASSUME NoStale PROVE Spec => []DelayedCloseDrains
<1>1. IInv /\ KInv => DelayedCloseDrains
  <2> SUFFICES ASSUME IInv, KInv
               PROVE  DelayedCloseDrains
    OBVIOUS
  <2>1. ASSUME waiter = "sent", ~netErr
        PROVE  OnWire(Len(sent))
    <3>1. Delaying /\ pc["send"] \in Ended
      BY <2>1 DEF KInv, Delays, Delaying
    <3>2. pc["send"] # "write" /\ pc["send"] # "loop"
      BY SMT, <3>1 DEF Ended
    <3>3. OnWire(Taken)
      BY <2>1, <3>1, <3>2, AllWritten
    <3>4. que = <<>> /\ batch = <<>>
      BY <3>1, <3>2 DEF KInv, Delays, Numbered
    <3>5. Len(sent) \in Nat
      BY LenProperties DEF KInv, Lists
    <3>6. Taken = Len(sent)
      BY SMT, <3>4, <3>5 DEF Taken
    <3> QED
      BY <3>3, <3>6
  <2> QED
    BY <2>1, Typed DEF DelayedCloseDrains
<1> QED
  BY <1>1, Invariance, MessagesAccounted, PTL
=============================================================================
