------------------------------ MODULE CondImpl ------------------------------
(***************************************************************************)
(* The condition variable of socket/sendqueue.go with its wait lists and   *)
(* its pooled list nodes (stWait).                                         *)
(*                                                                         *)
(* A wait pushes a node that carries its channel; popping or removing a    *)
(* node unlinks it, clears its channel and gives it back to stWaitPool,    *)
(* from which any goroutine may take it for its next wait.  A linked list  *)
(* is the sequence of its nodes.  c.Lock regions are atomic.  broadcast    *)
(* detaches the list under c.Lock but pops the nodes without it, while an  *)
(* expired waitWithTimeout may be removing the same node: its reads and    *)
(* its removal of a node are three actions.  removeWait is one step.       *)
(***************************************************************************)
EXTENDS Integers, Sequences, Functions

CONSTANTS
  Conds,     \* the condition variables that share stWaitPool
  Threads,   \* the goroutines that use them
  TimedSets, \* which goroutines may call waitWithTimeout: the sets tried
  Nodes,     \* the stWait objects
  None       \* a nil channel, no node, no condition

(* A goroutine waits on one channel at a time, so its current channel goes *)
(* by its name.  A channel whose goroutine has left is one of these two.   *)
Left == {"leftOpen", "leftClosed"}

Channels == Threads \cup Left \cup {None}

ASSUME CondImplAssumption ==
  /\ TimedSets \subseteq SUBSET Threads
  /\ None \notin Threads \cup Nodes \cup Conds \cup Left
  /\ Left \cap Threads = {}

VARIABLES
  timed,     \* the goroutines that may call waitWithTimeout, fixed in Init
  waitList,  \* waitList[c]: the nodes on c's list
  detached,  \* detached[t]: the list a broadcast of t has taken over
  orphans,   \* the nodes on lists that an earlier broadcast has abandoned
  ch,        \* ch[n]: the channel in node n
  open,      \* open[t]: the channel t waits on has not been closed
  pc,        \* where each goroutine is
  waitsOn,   \* the condition a goroutine waits on
  node,      \* waitWithTimeout's w, popWait's first
  got,       \* popWait's ch
  panicked   \* a closed channel was closed again: the program is dead

vars == <<timed, waitList, detached, orphans, ch, open, pc, waitsOn, node, got, panicked>>

PCs == {"idle", "wait", "timedWait", "pop", "read", "unlink"}

Init ==
  /\ timed \in TimedSets
  /\ waitList = [c \in Conds |-> <<>>]
  /\ detached = [t \in Threads |-> <<>>]
  /\ orphans = {}
  /\ ch = [n \in Nodes |-> None]
  /\ open = [t \in Threads |-> FALSE]
  /\ pc = [t \in Threads |-> "idle"]
  /\ waitsOn = [t \in Threads |-> None]
  /\ node = [t \in Threads |-> None]
  /\ got = [t \in Threads |-> None]
  /\ panicked = FALSE

Set(f, t, v) == [f EXCEPT ![t] = v]

(* A node is linked when it is on some list; the others are in the pool,   *)
(* or not yet allocated, which is the same to getStWait.                   *)
Linked ==
  UNION ({Range(waitList[c]) : c \in Conds} \cup {Range(detached[t]) : t \in Threads} \cup {orphans})

pushWait(c, t, n) ==
  /\ n \in Nodes \ Linked
  /\ ch' = Set(ch, n, t)
  /\ waitList' = Set(waitList, c, Append(waitList[c], n))

(* A node is on a list once.                                               *)
Unlink(s, n) ==
  IF n \notin Range(s) THEN s
  ELSE LET k == CHOOSE i \in DOMAIN s : s[i] = n
       IN  SubSeq(s, 1, k - 1) \o SubSeq(s, k + 1, Len(s))

(* n leaves whatever list it is on now; a node on no list is left alone.   *)
removeWait(n) ==
  /\ waitList' = [c \in Conds |-> Unlink(waitList[c], n)]
  /\ detached' = [t \in Threads |-> Unlink(detached[t], n)]
  /\ orphans' = orphans \ {n}
  /\ ch' = IF n \in Linked THEN Set(ch, n, None) ELSE ch

IsClosed(x) == x = "leftClosed" \/ (x \in Threads /\ ~open[x])

CloseChan(x) ==
  /\ open' = IF x \in Threads THEN Set(open, x, FALSE) ELSE open
  /\ panicked' = IsClosed(x)

(* t's wait is over: its channel is known only to a broadcast that has     *)
(* read it.                                                                *)
LeaveWait(t) ==
  /\ pc' = Set(pc, t, "idle")
  /\ open' = Set(open, t, FALSE)
  /\ waitsOn' = Set(waitsOn, t, None)
  /\ node' = Set(node, t, None)
  /\ got' = [u \in Threads |-> IF got[u] # t THEN got[u]
                               ELSE IF open[t] THEN "leftOpen" ELSE "leftClosed"]

-----------------------------------------------------------------------------
Wait(c, t, l) ==
  /\ pc[t] = "idle"
  /\ \E n \in Nodes : /\ pushWait(c, t, n)
                      /\ node' = Set(node, t, IF l = "timedWait" THEN n ELSE None)
  /\ open' = Set(open, t, TRUE)
  /\ waitsOn' = Set(waitsOn, t, c)
  /\ pc' = Set(pc, t, l)
  /\ UNCHANGED <<detached, orphans, got, panicked>>

wait(c, t) == Wait(c, t, "wait")

waitWithTimeout(c, t) == t \in timed /\ Wait(c, t, "timedWait")

(* <-ch                                                                    *)
Woken(t) ==
  /\ pc[t] \in {"wait", "timedWait"}
  /\ ~open[t]
  /\ LeaveWait(t)
  /\ UNCHANGED <<waitList, detached, orphans, ch, panicked>>

(* Mutant: the node stays on the list.                                     *)
ExpiredKeepsNode(t) ==
  /\ pc[t] = "timedWait"
  /\ LeaveWait(t)
  /\ UNCHANGED <<waitList, detached, orphans, ch, panicked>>

(* <-ticker.C, which the select may choose although ch is closed too.      *)
Expired(t) ==
  /\ pc[t] = "timedWait"
  /\ removeWait(node[t])
  /\ LeaveWait(t)
  /\ UNCHANGED panicked

(* Mutant: signal pops and closes twice.                                   *)
signalTwice(c, t) ==
  LET k == IF Len(waitList[c]) < 2 THEN Len(waitList[c]) ELSE 2
      popped == {waitList[c][i] : i \in 1..k}
  IN  /\ pc[t] = "idle"
      /\ waitList' = Set(waitList, c, SubSeq(waitList[c], k + 1, Len(waitList[c])))
      /\ open' = [u \in Threads |-> open[u] /\ \A n \in popped : ch[n] # u]
      /\ ch' = [n \in Nodes |-> IF n \in popped THEN None ELSE ch[n]]
      /\ UNCHANGED <<detached, orphans, panicked, pc, waitsOn, node, got>>

signal(c, t) ==
  /\ pc[t] = "idle"
  /\ \/ /\ waitList[c] = <<>>
        /\ UNCHANGED <<waitList, detached, orphans, ch, open, panicked>>
     \/ /\ waitList[c] # <<>>
        /\ CloseChan(ch[Head(waitList[c])])
        /\ removeWait(Head(waitList[c]))
  /\ UNCHANGED <<pc, waitsOn, node, got>>

(* broadcast, first part: the list is taken over.                          *)
broadcast(c, t) ==
  /\ pc[t] = "idle"
  /\ detached' = Set(detached, t, waitList[c])
  /\ orphans' = orphans \cup Range(detached[t])
  /\ waitList' = Set(waitList, c, <<>>)
  /\ pc' = Set(pc, t, "pop")
  /\ UNCHANGED <<ch, open, waitsOn, node, got, panicked>>

(* popWait: head.nnext is read; broadcast ends on an empty list.           *)
PopFirst(t) ==
  /\ pc[t] = "pop"
  /\ \/ /\ detached[t] = <<>>
        /\ pc' = Set(pc, t, "idle")
        /\ UNCHANGED node
     \/ /\ detached[t] # <<>>
        /\ pc' = Set(pc, t, "read")
        /\ node' = Set(node, t, Head(detached[t]))
  /\ UNCHANGED <<waitList, detached, orphans, ch, open, waitsOn, got, panicked>>

(* popWait: first.ch is read.                                              *)
PopRead(t) ==
  /\ pc[t] = "read"
  /\ got' = Set(got, t, ch[node[t]])
  /\ pc' = Set(pc, t, "unlink")
  /\ UNCHANGED <<waitList, detached, orphans, ch, open, waitsOn, node, panicked>>

(* popWait: first is removed; broadcast closes the channel and goes on, or *)
(* stops at a nil one, leaving what is left of the list where it is.       *)
PopUnlink(t) ==
  /\ pc[t] = "unlink"
  /\ removeWait(node[t])
  /\ CloseChan(got[t])
  /\ pc' = Set(pc, t, IF got[t] = None THEN "idle" ELSE "pop")
  /\ node' = Set(node, t, None)
  /\ got' = Set(got, t, None)
  /\ UNCHANGED waitsOn

-----------------------------------------------------------------------------
Step(t) == ~panicked /\ UNCHANGED timed /\ (Woken(t) \/ PopFirst(t) \/ PopRead(t) \/ PopUnlink(t))

Call(t) ==
  /\ ~panicked
  /\ \E c \in Conds : wait(c, t) \/ waitWithTimeout(c, t) \/ signal(c, t) \/ broadcast(c, t)

Tick(t) == ~panicked /\ Expired(t)

Next ==
  /\ \E t \in Threads : Call(t) \/ Tick(t) \/ Step(t)
  /\ UNCHANGED timed

(* Goroutines are scheduled; nobody is obliged to make a call.             *)
Spec == Init /\ [][Next]_vars /\ \A t \in Threads : WF_vars(Step(t))

-----------------------------------------------------------------------------
(* Properties.                                                             *)

(* The types, and that exactly the nodes in the pool hold no channel.      *)
TypeOK ==
  /\ timed \in TimedSets
  /\ waitList \in [Conds -> Seq(Nodes)]
  /\ detached \in [Threads -> Seq(Nodes)]
  /\ orphans \subseteq Nodes
  /\ ch \in [Nodes -> Threads \cup {None}]
  /\ \A n \in Nodes : ch[n] = None <=> n \notin Linked
  /\ open \in [Threads -> BOOLEAN]
  /\ pc \in [Threads -> PCs]
  /\ waitsOn \in [Threads -> Conds \cup {None}]
  /\ node \in [Threads -> Nodes \cup {None}]
  /\ got \in [Threads -> Channels]
  /\ panicked \in BOOLEAN

Waiting(t) == pc[t] \in {"wait", "timedWait"} /\ open[t]

Broadcasting(t) == pc[t] \in {"pop", "read", "unlink"}

(* A node on a list always carries the channel of a goroutine that still   *)
(* waits on it, no two nodes carry the same, and a node outside the lists  *)
(* carries none: no wake-up is spent on a goroutine that has left, and     *)
(* none is spent twice.                                                    *)
LinkedNodesLive ==
  /\ TypeOK
  /\ \A n \in Linked : ch[n] \in Threads /\ Waiting(ch[n])
  /\ \A m, n \in Linked : ch[m] = ch[n] => m = n

(* A goroutine that waits on a channel nobody has closed is stranded when  *)
(* its channel is neither in a node of the list of the condition it waits  *)
(* on, where the next broadcast finds it, nor in a node of a list that a   *)
(* broadcast is working through, nor has just been read by one.            *)
Stranded(t) ==
  /\ Waiting(t)
  /\ \A n \in Range(waitList[waitsOn[t]]) : ch[n] # t
  /\ \A u \in Threads : Broadcasting(u) =>
       got[u] # t /\ \A n \in Range(detached[u]) : ch[n] # t

(* Every wait can still be woken, whichever nodes signals, broadcasts and  *)
(* other waits take and give back.                                         *)
NoStrandedWaiter == \A t \in Threads : ~Stranded(t)

(* The wait sets this implements: who is on a condition's own list.  The   *)
(* mapping is constant in behaviours with timed waits, for which the       *)
(* implementation does not hold (NoStrandedWaiter).                        *)
WaitSets ==
  [c \in Conds |-> IF timed = {} THEN {ch[n] : n \in Range(waitList[c])} ELSE {}]

BlockedSets ==
  [c \in Conds |-> IF timed = {} THEN {t \in Threads : pc[t] = "wait" /\ waitsOn[t] = c} ELSE {}]

Ideal == INSTANCE Cond WITH waiters <- WaitSets, blocked <- BlockedSets

(* Without timed waits, the wait lists implement the condition variable    *)
(* SendQueue relies on: signal wakes one waiter, broadcast all, and a      *)
(* woken waiter returns.                                                   *)
IdealCond == Ideal!Spec
=============================================================================
