-------------------------- MODULE ExecutorsProofs ---------------------------
(***************************************************************************)
(* Proofs about the parts that run functions of the application, GoPool    *)
(* and Timer.  They share nothing.                                         *)
(*                                                                         *)
(* GoPool, for any callers, routines, tasks and Options: routineCount is   *)
(* the number of routines until Close, the free list holds each routine    *)
(* that waits for nobody once, and tasks queue only when no routine is     *)
(* free and no more may be made.  A task moves from one place to the next. *)
(*                                                                         *)
(* Timer, for any goroutines that cancel, reset and run the timer, and any *)
(* time.Timers: the status word is "waitting" only while no goroutine is   *)
(* between the compare-and-swap that begins a callback and the one, or the *)
(* store, that ends it, and it never leaves "removed".                     *)
(***************************************************************************)
EXTENDS GoPool, Timer, SequenceTheorems, FiniteSetTheorems, TLAPS

(* Steps of logic and sets are for Zenon; those that need arithmetic,      *)
(* sequences or updates of functions cite SMT.                             *)
USE Zenon

(* The goroutine pool.  No member of a sequence occurs twice.              *)
Distinct(s) == \A i, j \in 1..Len(s) : s[i] = s[j] => i = j

(* A sequence without repetition grows at its end by something new, ...    *)
LEMMA AppendNew ==
  ASSUME NEW S, NEW s \in Seq(S), Distinct(s), NEW x \in S, x \notin Members(s)
  PROVE  /\ Append(s, x) \in Seq(S) /\ Distinct(Append(s, x))
         /\ Members(Append(s, x)) = Members(s) \cup {x}
         /\ Len(Append(s, x)) = Len(s) + 1
<1>1. /\ Append(s, x) \in Seq(S) /\ Len(Append(s, x)) = Len(s) + 1 /\ Len(s) \in Nat
      /\ \A i \in 1..Len(s) : Append(s, x)[i] = s[i]
      /\ Append(s, x)[Len(s) + 1] = x
  BY SMT
<1>2. Distinct(Append(s, x))
  BY SMT, <1>1 DEF Distinct, Members
<1>3. \A y : y \in Members(Append(s, x)) <=> y \in Members(s) \/ y = x
  BY SMT, <1>1 DEF Members
<1> QED
  BY <1>1, <1>2, <1>3

(* ... and loses its head.                                                 *)
LEMMA TakeHead ==
  ASSUME NEW S, NEW s \in Seq(S), Distinct(s), s # <<>>
  PROVE  /\ Head(s) \in S /\ Head(s) \in Members(s)
         /\ Tail(s) \in Seq(S) /\ Distinct(Tail(s))
         /\ Members(Tail(s)) = Members(s) \ {Head(s)}
         /\ Len(Tail(s)) = Len(s) - 1
<1>1. /\ Len(s) \in Nat /\ Len(s) > 0 /\ Head(s) = s[1] /\ s[1] \in S
      /\ Tail(s) \in Seq(S) /\ Len(Tail(s)) = Len(s) - 1
      /\ \A i \in 1..(Len(s) - 1) : Tail(s)[i] = s[i + 1]
  BY SMT
<1>2. Distinct(Tail(s))
  <2> SUFFICES ASSUME NEW i \in 1..(Len(s) - 1), NEW j \in 1..(Len(s) - 1), Tail(s)[i] = Tail(s)[j]
               PROVE  i = j
    BY <1>1 DEF Distinct
  <2>1. i + 1 \in 1..Len(s) /\ j + 1 \in 1..Len(s) /\ s[i + 1] = s[j + 1]
    BY SMT, <1>1
  <2>2. i + 1 = j + 1
    BY <2>1 DEF Distinct
  <2> QED
    BY SMT, <2>2
<1>3. Head(s) \in Members(s)
  BY SMT, <1>1 DEF Members
<1>4. ASSUME NEW y \in Members(Tail(s))
      PROVE  y \in Members(s) /\ y # Head(s)
  <2>1. PICK i \in 1..(Len(s) - 1) : y = Tail(s)[i]
    BY <1>1 DEF Members
  <2>2. i + 1 \in 1..Len(s) /\ y = s[i + 1] /\ 1 \in 1..Len(s) /\ i + 1 # 1
    BY SMT, <1>1, <2>1
  <2> QED
    BY <1>1, <2>2 DEF Members, Distinct
<1>5. ASSUME NEW y \in Members(s), y # Head(s)
      PROVE  y \in Members(Tail(s))
  <2>1. PICK i \in 1..Len(s) : y = s[i]
    BY DEF Members
  <2>2. i - 1 \in 1..(Len(s) - 1) /\ (i - 1) + 1 = i
    BY SMT, <1>1, <1>5, <2>1
  <2>3. y = Tail(s)[i - 1]
    BY <1>1, <2>1, <2>2
  <2> QED
    BY <1>1, <2>2, <2>3 DEF Members
<1> QED
  BY <1>1, <1>2, <1>3, <1>4, <1>5

(* It is no longer than a set that holds its members.                      *)
LEMMA NoLonger ==
  ASSUME NEW s, Len(s) \in Nat, Distinct(s), NEW T, IsFiniteSet(T), Members(s) \subseteq T
  PROVE  Len(s) <= Cardinality(T)
<1> DEFINE f == [i \in 1..Len(s) |-> s[i]]
<1>1. f \in Injection(1..Len(s), T)
  <2>1. f \in [1..Len(s) -> T]
    BY DEF Members
  <2>2. \A i, j \in 1..Len(s) : f[i] = f[j] => i = j
    BY DEF Distinct
  <2> QED
    BY <2>1, <2>2 DEF Injection, IsInjective
<1>2. Cardinality(1..Len(s)) <= Cardinality(T)
  BY <1>1, FS_Injection
<1>3. Cardinality(1..Len(s)) = Len(s)
  <2>1. Len(s) \in Nat /\ Len(s) \in Int /\ 1 \in Int
    BY SMT
  <2>2. Cardinality(1..Len(s)) = IF 1 > Len(s) THEN 0 ELSE Len(s) - 1 + 1
    BY <2>1, FS_Interval
  <2> QED
    BY SMT, <2>1, <2>2
<1> QED
  BY <1>2, <1>3

-----------------------------------------------------------------------------
(* The inductive invariant.                                                *)

(* routineCount counts the routines until Close, and bounds them after it. *)
Counted ==
  /\ IsFiniteSet(Live)
  /\ Cardinality(Live) <= routineCount
  /\ ~die => routineCount = Cardinality(Live) /\ chClosed = {}
  /\ o.max > 0 => routineCount <= o.max

(* The free list holds routines that wait in their range, each once, and   *)
(* is empty for good after Close.                                          *)
FreeWait ==
  /\ Distinct(freeRoutines)
  /\ \A r \in Members(freeRoutines) : rpc[r] = "recv"
  /\ freeRoutines # <<>> => Len(freeRoutines) <= o.reserve
  /\ die => freeRoutines = <<>>

(* Tasks wait only when no routine is free and no more may be made.        *)
Backlog ==
  ~die /\ taskQueue # <<>> => freeRoutines = <<>> /\ o.max > 0 /\ routineCount = o.max

(* No two calls hand over, and no two routines run, the same task.         *)
Sole ==
  /\ Distinct(taskQueue)
  /\ \A c, d \in Callers : hand[c].task = hand[d].task /\ hand[c].task # Nil => c = d
  /\ \A r, q \in Routines : rtask[r] = rtask[q] /\ rtask[r] # Nil => r = q

Finished == {k \in Tasks : runs[k] > 0}

(* A task is queued, handed over, running, started by itself or finished.  *)
OnePlace ==
  /\ Members(taskQueue) \cap (InHand \cup Running \cup plain \cup Finished) = {}
  /\ InHand \cap (Running \cup plain \cup Finished) = {}
  /\ Running \cap (plain \cup Finished) = {}
  /\ plain \cap Finished = {}
  /\ \A k \in Tasks : runs[k] <= 1

PoolInv ==
  PoolTypeOK /\ Counted /\ FreeWait /\ Backlog /\ HandoffSafe /\ Sole /\ OnePlace

-----------------------------------------------------------------------------
(* The options are integers, and Nil is neither a task nor a routine.      *)
LEMMA PoolParts ==
  ASSUME PoolTypeOK
  PROVE  /\ o.max \in Int /\ o.reserve \in Int /\ o.queue \in Int
         /\ Nil \notin Tasks /\ Nil \notin Routines
         /\ \A c \in Callers : hand[c] # Idle =>
              hand[c].task \in Tasks /\ hand[c].to \in Routines
         /\ \A c \in Callers : hand[c] = Idle => hand[c].task = Nil /\ hand[c].to = Nil
         /\ Running \subseteq Tasks /\ InHand \subseteq Tasks
         /\ Members(taskQueue) \subseteq Tasks /\ Members(freeRoutines) \subseteq Routines
         /\ Len(taskQueue) \in Nat /\ Len(freeRoutines) \in Nat
<1>1. /\ o.max \in Int /\ o.reserve \in Int /\ o.queue \in Int
      /\ Nil \notin Tasks /\ Nil \notin Routines
  BY GoPoolAssumption DEF PoolTypeOK
<1>2. \A c \in Callers : hand[c] # Idle =>
        hand[c].task \in Tasks /\ hand[c].to \in Routines
  BY DEF PoolTypeOK
<1>3. \A c \in Callers : hand[c] = Idle => hand[c].task = Nil /\ hand[c].to = Nil
  BY SMT DEF Idle
<1>4. InHand \subseteq Tasks
  BY <1>2, <1>3 DEF InHand
<1>5. Running \subseteq Tasks
  BY DEF PoolTypeOK, Running
<1>6. /\ Members(taskQueue) \subseteq Tasks /\ Members(freeRoutines) \subseteq Routines
      /\ Len(taskQueue) \in Nat /\ Len(freeRoutines) \in Nat
  BY SMT DEF PoolTypeOK, Members
<1> QED
  BY <1>1, <1>2, <1>3, <1>4, <1>5, <1>6

(* A task that Go accepts is in no place yet.                              *)
LEMMA FreshTask ==
  ASSUME PoolTypeOK, NEW c \in Callers, NEW k \in Tasks, Fresh(c, k)
  PROVE  /\ ~die /\ hand[c] = Idle
         /\ k \notin Members(taskQueue) /\ k \notin InHand /\ k \notin Running
         /\ k \notin plain /\ k \notin Finished
BY DEF Fresh, Accepted, Finished

(* A step that moves no task.                                              *)
LEMMA SamePlaces ==
  ASSUME OnePlace, UNCHANGED <<taskQueue, hand, rtask, plain, runs>>
  PROVE  OnePlace'
<1>1. /\ Members(taskQueue)' = Members(taskQueue) /\ InHand' = InHand
      /\ Running' = Running /\ Finished' = Finished
  BY DEF InHand, Running, Finished
<1> QED
  BY <1>1 DEF OnePlace

(* A call begins to hand over a task.                                      *)
LEMMA HandTakes ==
  ASSUME PoolTypeOK, NEW c \in Callers, hand[c] = Idle, NEW k \in Tasks, NEW r \in Routines,
         hand' = [hand EXCEPT ![c] = [task |-> k, to |-> r]]
  PROVE  /\ hand' \in [Callers -> [task : Tasks, to : Routines] \cup {Idle}]
         /\ hand'[c].task = k /\ hand'[c].to = r /\ hand'[c] # Idle
         /\ \A d \in Callers \ {c} : hand'[d] = hand[d]
         /\ InHand' = InHand \cup {k}
<1>1. /\ hand' \in [Callers -> [task : Tasks, to : Routines] \cup {Idle}]
      /\ hand'[c] = [task |-> k, to |-> r]
      /\ \A d \in Callers \ {c} : hand'[d] = hand[d]
  BY DEF PoolTypeOK
<1>2. hand'[c].task = k /\ hand'[c].to = r /\ hand'[c] # Idle
  BY <1>1, PoolParts DEF Idle
<1>3. \A x : x \in InHand' <=> x \in InHand \/ x = k
  BY SMT, <1>1, <1>2, PoolParts DEF InHand
<1> QED
  BY <1>1, <1>2, <1>3

(* A routine gets a task.                                                  *)
LEMMA TaskTaken ==
  ASSUME PoolTypeOK, NEW r \in Routines, rtask[r] = Nil, NEW k \in Tasks, k \notin Running, Sole,
         rtask' = [rtask EXCEPT ![r] = k]
  PROVE  /\ rtask' \in [Routines -> Tasks \cup {Nil}]
         /\ rtask'[r] = k /\ \A q \in Routines \ {r} : rtask'[q] = rtask[q]
         /\ Running' = Running \cup {k}
         /\ \A p, q \in Routines : rtask'[p] = rtask'[q] /\ rtask'[p] # Nil => p = q
<1>1. /\ rtask' \in [Routines -> Tasks \cup {Nil}]
      /\ rtask'[r] = k /\ \A q \in Routines \ {r} : rtask'[q] = rtask[q]
  BY DEF PoolTypeOK
<1>2. \A x : x \in Running' <=> x \in Running \/ x = k
  BY SMT, <1>1, PoolParts DEF Running
<1>3. \A q \in Routines : rtask[q] # k
  BY PoolParts DEF Running
<1>4. \A p, q \in Routines : rtask'[p] = rtask'[q] /\ rtask'[p] # Nil => p = q
  BY <1>1, <1>3 DEF Sole
<1> QED
  BY <1>1, <1>2, <1>4

(* A task has run.                                                         *)
LEMMA RanOnce ==
  ASSUME PoolTypeOK, NEW k \in Tasks, k \notin Finished, Ran(k), \A x \in Tasks : runs[x] <= 1
  PROVE  /\ runs' \in [Tasks -> Nat] /\ Finished' = Finished \cup {k}
         /\ \A x \in Tasks : runs'[x] <= 1
<1>1. /\ runs \in [Tasks -> Nat] /\ runs[k] = 0
  BY SMT DEF PoolTypeOK, Finished
<1>2. /\ runs' \in [Tasks -> Nat] /\ runs'[k] = 1
      /\ \A x \in Tasks \ {k} : runs'[x] = runs[x]
  BY SMT, <1>1 DEF Ran
<1>3. \A x : x \in Finished' <=> x \in Finished \/ x = k
  BY SMT, <1>1, <1>2 DEF Finished
<1> QED
  BY SMT, <1>2, <1>3

(* A routine moves on; it enters or leaves Live with its first and its     *)
(* last step.                                                              *)
LEMMA RoutineMoves ==
  ASSUME PoolTypeOK, NEW r \in Routines, NEW v \in {"none", "recv", "run", "put"},
         rpc' = [rpc EXCEPT ![r] = v]
  PROVE  /\ rpc' \in [Routines -> {"none", "recv", "run", "put"}]
         /\ rpc'[r] = v /\ \A q \in Routines \ {r} : rpc'[q] = rpc[q]
         /\ v # "none" /\ rpc[r] # "none" => Live' = Live
         /\ v # "none" /\ rpc[r] = "none" => r \notin Live /\ Live' = Live \cup {r}
         /\ v = "none" /\ rpc[r] # "none" => r \in Live /\ Live' = Live \ {r}
<1>1. /\ rpc' \in [Routines -> {"none", "recv", "run", "put"}]
      /\ rpc'[r] = v /\ \A q \in Routines \ {r} : rpc'[q] = rpc[q]
  BY DEF PoolTypeOK
<1>2. /\ v # "none" /\ rpc[r] # "none" => Live' = Live
      /\ v # "none" /\ rpc[r] = "none" => r \notin Live /\ Live' = Live \cup {r}
      /\ v = "none" /\ rpc[r] # "none" => r \in Live /\ Live' = Live \ {r}
  BY <1>1 DEF Live
<1> QED
  BY <1>1, <1>2

-----------------------------------------------------------------------------
(* Go with a free routine: its head leaves the list and is the call's own. *)
LEMMA GoFreeStep ==
  ASSUME PoolInv, NEW c \in Callers, NEW k \in Tasks, GoFree(c, k)
  PROVE  PoolInv'
<1> DEFINE r == Head(freeRoutines)
<1>1. PoolTypeOK /\ Fresh(c, k) /\ freeRoutines \in Seq(Routines) /\ freeRoutines # <<>> /\ Distinct(freeRoutines)
  BY DEF PoolInv, GoFree, FreeWait, PoolTypeOK
<1>2. /\ r \in Routines /\ r \in Members(freeRoutines)
      /\ freeRoutines' = Tail(freeRoutines) /\ freeRoutines' \in Seq(Routines)
      /\ Distinct(freeRoutines') /\ Members(freeRoutines') = Members(freeRoutines) \ {r}
      /\ Len(freeRoutines') = Len(freeRoutines) - 1
  BY <1>1, TakeHead DEF GoFree
<1>3. /\ ~die /\ hand[c] = Idle
      /\ k \notin Members(taskQueue) /\ k \notin InHand /\ k \notin Running
      /\ k \notin plain /\ k \notin Finished
  BY <1>1, FreshTask
<1>4. hand' = [hand EXCEPT ![c] = [task |-> k, to |-> r]]
  BY DEF GoFree
<1> HIDE DEF r
<1>5. /\ hand' \in [Callers -> [task : Tasks, to : Routines] \cup {Idle}]
      /\ hand'[c].task = k /\ hand'[c].to = r /\ hand'[c] # Idle
      /\ \A d \in Callers \ {c} : hand'[d] = hand[d]
      /\ InHand' = InHand \cup {k}
  BY <1>1, <1>2, <1>3, <1>4, HandTakes
<1>6. UNCHANGED <<o, die, routineCount, taskQueue, chClosed, rpc, rtask, plain, runs>>
  BY DEF GoFree
<1>7. PoolTypeOK'
  BY <1>1, <1>2, <1>5, <1>6 DEF PoolTypeOK
<1>8. Counted' /\ Live' = Live
  BY <1>6 DEF PoolInv, Counted, Live
<1>9. FreeWait'
  <2>1. Len(freeRoutines) \in Nat /\ o.reserve \in Int /\ Len(freeRoutines) <= o.reserve
    BY <1>1, PoolParts DEF PoolInv, FreeWait
  <2> QED
    BY SMT, <1>2, <1>6, <2>1 DEF PoolInv, FreeWait
<1>10. Backlog'
  BY <1>1, <1>3, <1>6 DEF PoolInv, Backlog
<1>11. HandoffSafe'
  <2>1. /\ rpc[r] = "recv" /\ r \notin chClosed
    BY <1>2, <1>3 DEF PoolInv, FreeWait, Counted
  <2>2. \A d \in Callers : hand[d].to # r
    BY <1>1, <1>2, PoolParts DEF PoolInv, HandoffSafe
  <2> QED
    BY SMT, <1>2, <1>5, <1>6, <2>1, <2>2 DEF PoolInv, HandoffSafe
<1>12. Sole'
  <2>1. \A d \in Callers : hand[d].task # k
    BY <1>1, <1>3, PoolParts DEF InHand
  <2> QED
    BY SMT, <1>5, <1>6, <2>1 DEF PoolInv, Sole
<1>13. OnePlace'
  <2>1. Members(taskQueue)' = Members(taskQueue) /\ Running' = Running /\ Finished' = Finished
    BY <1>6 DEF Running, Finished
  <2> QED
    BY SMT, <1>3, <1>5, <1>6, <2>1 DEF PoolInv, OnePlace
<1> QED
  BY <1>7, <1>8, <1>9, <1>10, <1>11, <1>12, <1>13 DEF PoolInv

(* Go with a new routine: there is room for one, and nothing is queued.    *)
LEMMA GoNewStep ==
  ASSUME PoolInv, NEW c \in Callers, NEW k \in Tasks, GoNew(c, k)
  PROVE  PoolInv'
<1>1. PoolTypeOK /\ Fresh(c, k) /\ freeRoutines = <<>> /\ ~AtMax /\ routineCount' = routineCount + 1
  BY DEF PoolInv, GoNew
<1>2. PICK r \in Routines :
        /\ rpc[r] = "none"
        /\ rpc' = [rpc EXCEPT ![r] = "recv"]
        /\ chClosed' = chClosed \ {r}
        /\ hand' = [hand EXCEPT ![c] = [task |-> k, to |-> r]]
  BY DEF GoNew
<1>3. /\ ~die /\ hand[c] = Idle
      /\ k \notin Members(taskQueue) /\ k \notin InHand /\ k \notin Running
      /\ k \notin plain /\ k \notin Finished
  BY <1>1, FreshTask
<1>4. /\ hand' \in [Callers -> [task : Tasks, to : Routines] \cup {Idle}]
      /\ hand'[c].task = k /\ hand'[c].to = r /\ hand'[c] # Idle
      /\ \A d \in Callers \ {c} : hand'[d] = hand[d]
      /\ InHand' = InHand \cup {k}
  BY <1>1, <1>2, <1>3, HandTakes
<1>5. /\ rpc' \in [Routines -> {"none", "recv", "run", "put"}]
      /\ rpc'[r] = "recv" /\ \A q \in Routines \ {r} : rpc'[q] = rpc[q]
      /\ r \notin Live /\ Live' = Live \cup {r}
  BY <1>1, <1>2, RoutineMoves
<1>6. UNCHANGED <<o, die, freeRoutines, taskQueue, rtask, plain, runs>>
  BY DEF GoNew
<1>7. PoolTypeOK'
  <2>1. \A q \in Routines : rtask'[q] # Nil <=> rpc'[q] = "run"
    BY <1>1, <1>2, <1>5, <1>6 DEF PoolTypeOK
  <2> QED
    BY SMT, <1>1, <1>2, <1>4, <1>5, <1>6, <2>1 DEF PoolTypeOK
<1>8. Counted'
  <2>1. /\ IsFiniteSet(Live) /\ routineCount = Cardinality(Live) /\ chClosed = {}
        /\ routineCount \in Nat /\ o.max \in Int
        /\ o.max > 0 => routineCount < o.max
    BY SMT, <1>1, <1>3, PoolParts DEF PoolInv, Counted, PoolTypeOK, AtMax
  <2>2. IsFiniteSet(Live \cup {r}) /\ Cardinality(Live \cup {r}) = Cardinality(Live) + 1
    BY <1>5, <2>1, FS_AddElement
  <2> QED
    BY SMT, <1>1, <1>2, <1>5, <1>6, <2>1, <2>2 DEF Counted
<1>9. FreeWait'
  BY SMT, <1>1, <1>6 DEF FreeWait, Distinct, Members
<1>10. Backlog'
  BY <1>1, <1>3, <1>6 DEF PoolInv, Backlog, AtMax
<1>11. HandoffSafe'
  <2>1. \A d \in Callers : hand[d].to # r
    BY <1>1, <1>2, PoolParts DEF PoolInv, HandoffSafe
  <2>2. Members(freeRoutines') = {} /\ chClosed' = {}
    BY SMT, <1>1, <1>2, <1>3, <1>6 DEF Members, PoolInv, Counted
  <2>3. \A d \in Callers : hand[d] # Idle => hand[d].to \in Routines \ {r} /\ rpc[hand[d].to] = "recv"
    BY <1>1, <2>1, PoolParts DEF PoolInv, HandoffSafe
  <2> QED
    BY SMT, <1>4, <1>5, <2>1, <2>2, <2>3 DEF PoolInv, HandoffSafe
<1>12. Sole'
  <2>1. \A d \in Callers : hand[d].task # k
    BY <1>1, <1>3, PoolParts DEF InHand
  <2> QED
    BY SMT, <1>4, <1>6, <2>1 DEF PoolInv, Sole
<1>13. OnePlace'
  <2>1. Members(taskQueue)' = Members(taskQueue) /\ Running' = Running /\ Finished' = Finished
    BY <1>6 DEF Running, Finished
  <2> QED
    BY SMT, <1>3, <1>4, <1>6, <2>1 DEF PoolInv, OnePlace
<1> QED
  BY <1>7, <1>8, <1>9, <1>10, <1>11, <1>12, <1>13 DEF PoolInv

(* Go with no routine free and no room for another: the task is queued.    *)
LEMMA GoQueueStep ==
  ASSUME PoolInv, NEW c \in Callers, NEW k \in Tasks, GoQueue(c, k)
  PROVE  PoolInv'
<1>1. /\ PoolTypeOK /\ Fresh(c, k) /\ freeRoutines = <<>> /\ AtMax
      /\ taskQueue \in Seq(Tasks) /\ Distinct(taskQueue) /\ taskQueue' = Append(taskQueue, k)
  BY DEF PoolInv, GoQueue, PoolTypeOK, Sole
<1>2. /\ ~die /\ hand[c] = Idle
      /\ k \notin Members(taskQueue) /\ k \notin InHand /\ k \notin Running
      /\ k \notin plain /\ k \notin Finished
  BY <1>1, FreshTask
<1>3. /\ taskQueue' \in Seq(Tasks) /\ Distinct(taskQueue')
      /\ Members(taskQueue') = Members(taskQueue) \cup {k}
  BY SMT, <1>1, <1>2, AppendNew
<1>4. UNCHANGED <<o, die, routineCount, freeRoutines, chClosed, rpc, rtask, hand, plain, runs>>
  BY DEF GoQueue
<1>5. PoolTypeOK'
  BY <1>1, <1>3, <1>4 DEF PoolTypeOK
<1>6. Counted' /\ FreeWait' /\ HandoffSafe'
  BY <1>4 DEF PoolInv, Counted, Live, FreeWait, HandoffSafe
<1>7. Backlog'
  BY <1>1, <1>4 DEF Backlog, AtMax
<1>8. Sole'
  BY <1>3, <1>4 DEF PoolInv, Sole
<1>9. OnePlace'
  <2>1. InHand' = InHand /\ Running' = Running /\ Finished' = Finished
    BY <1>4 DEF InHand, Running, Finished
  <2>2. OnePlace /\ plain' = plain /\ runs' = runs
    BY <1>4 DEF PoolInv
  <2> QED
    BY SMT, <1>2, <1>3, <2>1, <2>2 DEF OnePlace
<1> QED
  BY <1>5, <1>6, <1>7, <1>8, <1>9 DEF PoolInv

(* Go without a limit and with the reserve in use: a goroutine of its own. *)
LEMMA GoPlainStep ==
  ASSUME PoolInv, NEW c \in Callers, NEW k \in Tasks, GoPlain(c, k)
  PROVE  PoolInv'
<1>1. PoolTypeOK /\ Fresh(c, k) /\ plain' = plain \cup {k}
  BY DEF PoolInv, GoPlain
<1>2. /\ k \notin Members(taskQueue) /\ k \notin InHand /\ k \notin Running
      /\ k \notin plain /\ k \notin Finished
  BY <1>1, FreshTask
<1>3. UNCHANGED <<o, die, routineCount, freeRoutines, taskQueue, chClosed, rpc, rtask, hand, runs>>
  BY DEF GoPlain
<1>4. PoolTypeOK'
  BY <1>1, <1>3 DEF PoolTypeOK
<1>5. Counted' /\ FreeWait' /\ Backlog' /\ HandoffSafe' /\ Sole'
  BY <1>3 DEF PoolInv, Counted, Live, FreeWait, Backlog, HandoffSafe, Sole
<1>6. OnePlace'
  <2>1. /\ Members(taskQueue)' = Members(taskQueue) /\ InHand' = InHand
        /\ Running' = Running /\ Finished' = Finished
    BY <1>3 DEF InHand, Running, Finished
  <2> QED
    BY SMT, <1>1, <1>2, <1>3, <2>1 DEF PoolInv, OnePlace
<1> QED
  BY <1>4, <1>5, <1>6 DEF PoolInv

(* The routine takes the task from the call, which is done.                *)
LEMMA HandoffStep ==
  ASSUME PoolInv, NEW c \in Callers, Handoff(c)
  PROVE  PoolInv'
<1> DEFINE r == hand[c].to
           k == hand[c].task
<1>1. /\ PoolTypeOK /\ Sole /\ r \in Routines /\ rpc[r] = "recv"
      /\ rpc' = [rpc EXCEPT ![r] = "run"]
      /\ rtask' = [rtask EXCEPT ![r] = k]
      /\ hand' = [hand EXCEPT ![c] = Idle]
  BY DEF PoolInv, Handoff
<1>2. UNCHANGED <<o, die, routineCount, freeRoutines, taskQueue, chClosed, plain, runs>>
  BY DEF Handoff
<1>3. hand[c] # Idle /\ k \in Tasks
  BY <1>1, PoolParts
<1>4. k \in InHand
  BY <1>1, <1>3, PoolParts DEF InHand
<1>5. /\ \A d \in Callers \ {c} : hand[d].to # r /\ hand[d].task # k
      /\ r \notin Members(freeRoutines)
  BY <1>1, <1>3, PoolParts DEF PoolInv, HandoffSafe, Sole
<1> HIDE DEF r, k
<1>6. rtask[r] = Nil /\ k \notin Running
  BY <1>1, <1>4 DEF PoolTypeOK, PoolInv, OnePlace
<1>7. /\ rtask' \in [Routines -> Tasks \cup {Nil}]
      /\ rtask'[r] = k /\ \A q \in Routines \ {r} : rtask'[q] = rtask[q]
      /\ Running' = Running \cup {k}
      /\ \A p, q \in Routines : rtask'[p] = rtask'[q] /\ rtask'[p] # Nil => p = q
  BY <1>1, <1>3, <1>6, TaskTaken
<1>8. /\ rpc' \in [Routines -> {"none", "recv", "run", "put"}]
      /\ rpc'[r] = "run" /\ \A q \in Routines \ {r} : rpc'[q] = rpc[q]
      /\ Live' = Live
  BY <1>1, RoutineMoves
<1>9. /\ hand' \in [Callers -> [task : Tasks, to : Routines] \cup {Idle}]
      /\ hand'[c] = Idle /\ \A d \in Callers \ {c} : hand'[d] = hand[d]
  BY <1>1 DEF PoolTypeOK
<1>10. InHand' = InHand \ {k}
  <2>1. hand'[c].task = Nil
    BY SMT, <1>9 DEF Idle
  <2>2. \A x : x \in InHand' <=> x # Nil /\ \E d \in Callers : hand'[d].task = x
    BY DEF InHand
  <2>3. \A x : x \in InHand <=> x # Nil /\ \E d \in Callers : hand[d].task = x
    BY DEF InHand
  <2>4. hand[c].task = k
    BY DEF k
  <2> QED
    BY SMT, <1>5, <1>9, <2>1, <2>2, <2>3, <2>4
<1>11. PoolTypeOK'
  <2>1. \A q \in Routines : rtask'[q] # Nil <=> rpc'[q] = "run"
    BY SMT, <1>1, <1>3, <1>7, <1>8, PoolParts DEF PoolTypeOK
  <2> QED
    BY <1>1, <1>2, <1>7, <1>8, <1>9, <2>1 DEF PoolTypeOK
<1>12. Counted' /\ Backlog'
  BY <1>2, <1>8 DEF PoolInv, Counted, Backlog
<1>13. FreeWait'
  BY <1>1, <1>2, <1>5, <1>8, PoolParts DEF PoolInv, FreeWait
<1>14. HandoffSafe'
  <2>1. \A d \in Callers : hand'[d] # Idle =>
          /\ d # c /\ hand'[d] = hand[d] /\ hand[d].to \in Routines \ {r}
          /\ rpc[hand[d].to] = "recv"
          /\ hand[d].to \notin chClosed \cup Members(freeRoutines)
    BY <1>1, <1>5, <1>9, PoolParts DEF PoolInv, HandoffSafe
  <2>2. \A d, e \in Callers : hand'[d] # Idle /\ hand'[e].to = hand'[d].to => e = d
    <3>1. hand'[c].to = Nil
      BY SMT, <1>9 DEF Idle
    <3> QED
      BY SMT, <1>1, <1>9, <2>1, <3>1, PoolParts DEF PoolInv, HandoffSafe
  <2> QED
    BY SMT, <1>2, <1>8, <2>1, <2>2 DEF HandoffSafe
<1>15. Sole'
  <2>1. hand'[c].task = Nil
    BY SMT, <1>9 DEF Idle
  <2> QED
    BY SMT, <1>2, <1>7, <1>9, <2>1 DEF PoolInv, Sole
<1>16. OnePlace'
  <2>1. Members(taskQueue)' = Members(taskQueue) /\ Finished' = Finished
    BY <1>2 DEF Finished
  <2> QED
    BY SMT, <1>2, <1>4, <1>7, <1>10, <2>1 DEF PoolInv, OnePlace
<1> QED
  BY <1>11, <1>12, <1>13, <1>14, <1>15, <1>16 DEF PoolInv

(* Close closes the channels of the free routines, to which no call sends. *)
LEMMA CloseStep ==
  ASSUME PoolInv, NEW c \in Callers, Close(c)
  PROVE  PoolInv'
<1>1. /\ PoolTypeOK /\ die' = TRUE /\ freeRoutines' = <<>>
      /\ chClosed' = chClosed \cup Members(freeRoutines)
      /\ UNCHANGED <<o, routineCount, taskQueue, rpc, rtask, hand, plain, runs>>
  BY DEF PoolInv, Close
<1>2. Members(freeRoutines') = {} /\ freeRoutines' \in Seq(Routines)
  BY SMT, <1>1, EmptySeq DEF Members
<1>3. PoolTypeOK'
  BY <1>1, <1>2, PoolParts DEF PoolTypeOK
<1>4. Counted' /\ Backlog' /\ Sole'
  BY <1>1 DEF PoolInv, Counted, Live, Backlog, Sole
<1>5. FreeWait'
  BY SMT, <1>1 DEF FreeWait, Distinct, Members
<1>6. HandoffSafe'
  BY <1>1, <1>2 DEF PoolInv, HandoffSafe
<1>7. OnePlace'
  BY <1>1, SamePlaces DEF PoolInv
<1> QED
  BY <1>3, <1>4, <1>5, <1>6, <1>7 DEF PoolInv

(* The routine's task has run; the routine goes on to putRoutine.          *)
LEMMA RunTaskStep ==
  ASSUME PoolInv, NEW r \in Routines, RunTask(r)
  PROVE  PoolInv'
<1> DEFINE k == rtask[r]
<1>1. /\ PoolTypeOK /\ rpc[r] = "run" /\ Ran(k) /\ rtask' = [rtask EXCEPT ![r] = Nil]
      /\ rpc' = [rpc EXCEPT ![r] = "put"]
      /\ UNCHANGED <<o, die, routineCount, freeRoutines, taskQueue, chClosed, hand, plain>>
  BY DEF PoolInv, RunTask
<1>2. k \in Tasks /\ k # Nil /\ k \in Running
  BY <1>1 DEF PoolTypeOK, Running
<1>3. \A q \in Routines \ {r} : rtask[q] # k
  BY <1>2 DEF PoolInv, Sole
<1>4. /\ rtask' \in [Routines -> Tasks \cup {Nil}]
      /\ rtask'[r] = Nil /\ \A q \in Routines \ {r} : rtask'[q] = rtask[q]
  BY <1>1 DEF PoolTypeOK
<1>5. Running' = Running \ {k}
  <2>1. \A x : x \in Running' <=> x # Nil /\ \E q \in Routines : rtask'[q] = x
    BY DEF Running
  <2>2. \A x : x \in Running <=> x # Nil /\ \E q \in Routines : rtask[q] = x
    BY DEF Running
  <2> QED
    BY SMT, <1>3, <1>4, <2>1, <2>2
<1> HIDE DEF k
<1>6. k \notin Finished /\ \A x \in Tasks : runs[x] <= 1
  BY <1>2 DEF PoolInv, OnePlace
<1>7. /\ runs' \in [Tasks -> Nat] /\ Finished' = Finished \cup {k}
      /\ \A x \in Tasks : runs'[x] <= 1
  BY <1>1, <1>2, <1>6, RanOnce
<1>8. /\ rpc' \in [Routines -> {"none", "recv", "run", "put"}]
      /\ rpc'[r] = "put" /\ \A q \in Routines \ {r} : rpc'[q] = rpc[q]
      /\ Live' = Live
  BY <1>1, RoutineMoves
<1>9. PoolTypeOK'
  <2>1. \A q \in Routines : rtask'[q] # Nil <=> rpc'[q] = "run"
    BY <1>1, <1>4, <1>8 DEF PoolTypeOK
  <2> QED
    BY <1>1, <1>4, <1>7, <1>8, <2>1 DEF PoolTypeOK
<1>10. Counted' /\ Backlog'
  BY <1>1, <1>8 DEF PoolInv, Counted, Backlog
<1>11. FreeWait'
  BY <1>1, <1>8, PoolParts DEF PoolInv, FreeWait
<1>12. HandoffSafe'
  BY SMT, <1>1, <1>8, PoolParts DEF PoolInv, HandoffSafe
<1>13. Sole'
  BY <1>1, <1>4 DEF PoolInv, Sole
<1>14. OnePlace'
  <2>1. Members(taskQueue)' = Members(taskQueue) /\ InHand' = InHand
    BY <1>1 DEF InHand
  <2> QED
    BY <1>1, <1>2, <1>5, <1>7, <2>1 DEF PoolInv, OnePlace
<1> QED
  BY <1>9, <1>10, <1>11, <1>12, <1>13, <1>14 DEF PoolInv

(* A task with a goroutine of its own has run.                             *)
LEMMA RunPlainStep ==
  ASSUME PoolInv, NEW k \in Tasks, RunPlain(k)
  PROVE  PoolInv'
<1>1. /\ PoolTypeOK /\ k \in plain /\ plain' = plain \ {k} /\ Ran(k)
      /\ UNCHANGED <<o, die, routineCount, freeRoutines, taskQueue, chClosed, rpc, rtask, hand>>
  BY DEF PoolInv, RunPlain
<1>2. k \notin Finished /\ \A x \in Tasks : runs[x] <= 1
  BY <1>1 DEF PoolInv, OnePlace
<1>3. /\ runs' \in [Tasks -> Nat] /\ Finished' = Finished \cup {k}
      /\ \A x \in Tasks : runs'[x] <= 1
  BY <1>1, <1>2, RanOnce
<1>4. PoolTypeOK'
  BY <1>1, <1>3 DEF PoolTypeOK
<1>5. Counted' /\ FreeWait' /\ Backlog' /\ HandoffSafe' /\ Sole'
  BY <1>1 DEF PoolInv, Counted, Live, FreeWait, Backlog, HandoffSafe, Sole
<1>6. OnePlace'
  <2>1. Members(taskQueue)' = Members(taskQueue) /\ InHand' = InHand /\ Running' = Running
    BY <1>1 DEF InHand, Running
  <2> QED
    BY <1>1, <1>3, <2>1 DEF PoolInv, OnePlace
<1> QED
  BY <1>4, <1>5, <1>6 DEF PoolInv

(* One routine fewer.                                                      *)
LEMMA LeavesLive ==
  ASSUME NEW S, IsFiniteSet(S), NEW r \in S
  PROVE  /\ IsFiniteSet(S \ {r}) /\ Cardinality(S \ {r}) = Cardinality(S) - 1
         /\ Cardinality(S) \in Nat /\ Cardinality(S) > 0
<1>1. IsFiniteSet(S \ {r}) /\ Cardinality(S \ {r}) = Cardinality(S) - 1
  BY FS_RemoveElement
<1>2. Cardinality(S) \in Nat /\ Cardinality(S \ {r}) \in Nat
  BY <1>1, FS_CardinalityType
<1> QED
  BY SMT, <1>1, <1>2

(* A routine that finds the pool closed returns, still counted.            *)
LEMMA PutDieStep ==
  ASSUME PoolInv, NEW r \in Routines, PutDie(r)
  PROVE  PoolInv'
<1>1. /\ PoolTypeOK /\ rpc[r] = "put" /\ die /\ rpc' = [rpc EXCEPT ![r] = "none"]
      /\ UNCHANGED <<o, die, routineCount, freeRoutines, taskQueue, chClosed, rtask, hand, plain, runs>>
  BY DEF PoolInv, PutDie
<1>2. /\ rpc' \in [Routines -> {"none", "recv", "run", "put"}]
      /\ rpc'[r] = "none" /\ \A q \in Routines \ {r} : rpc'[q] = rpc[q]
      /\ r \in Live /\ Live' = Live \ {r}
  BY <1>1, RoutineMoves
<1>3. PoolTypeOK'
  <2>1. \A q \in Routines : rtask'[q] # Nil <=> rpc'[q] = "run"
    BY <1>1, <1>2 DEF PoolTypeOK
  <2>2. routineCount' \in Nat
    BY <1>1 DEF PoolTypeOK
  <2> QED
    BY <1>1, <1>2, <2>1, <2>2 DEF PoolTypeOK
<1>4. Counted'
  <2>1. /\ IsFiniteSet(Live') /\ Cardinality(Live') = Cardinality(Live) - 1
        /\ Cardinality(Live) \in Nat /\ Cardinality(Live) > 0
    BY <1>2, LeavesLive DEF PoolInv, Counted
  <2>2. routineCount \in Nat /\ Cardinality(Live) <= routineCount /\ die'
    BY <1>1 DEF PoolInv, Counted, PoolTypeOK
  <2> QED
    BY SMT, <1>1, <2>1, <2>2 DEF PoolInv, Counted
<1>5. FreeWait'
  BY <1>1, <1>2, PoolParts DEF PoolInv, FreeWait
<1>6. Backlog' /\ Sole'
  BY <1>1 DEF PoolInv, Backlog, Sole
<1>7. HandoffSafe'
  <2>1. \A d \in Callers : hand[d] # Idle => hand[d].to \in Routines \ {r}
    BY <1>1, PoolParts DEF PoolInv, HandoffSafe
  <2> QED
    BY SMT, <1>1, <1>2, <2>1 DEF PoolInv, HandoffSafe
<1>8. OnePlace'
  BY <1>1, SamePlaces DEF PoolInv
<1> QED
  BY <1>3, <1>4, <1>5, <1>6, <1>7, <1>8 DEF PoolInv

(* A routine above the reserve, with nothing queued, is uncounted.         *)
LEMMA PutSurplusStep ==
  ASSUME PoolInv, NEW r \in Routines, PutSurplus(r)
  PROVE  PoolInv'
<1>1. /\ PoolTypeOK /\ rpc[r] = "put" /\ ~die /\ taskQueue = <<>>
      /\ routineCount' = routineCount - 1 /\ rpc' = [rpc EXCEPT ![r] = "none"]
      /\ UNCHANGED <<o, die, freeRoutines, taskQueue, chClosed, rtask, hand, plain, runs>>
  BY DEF PoolInv, PutSurplus
<1>2. /\ rpc' \in [Routines -> {"none", "recv", "run", "put"}]
      /\ rpc'[r] = "none" /\ \A q \in Routines \ {r} : rpc'[q] = rpc[q]
      /\ r \in Live /\ Live' = Live \ {r}
  BY <1>1, RoutineMoves
<1>3. PoolTypeOK'
  <2>1. \A q \in Routines : rtask'[q] # Nil <=> rpc'[q] = "run"
    BY <1>1, <1>2 DEF PoolTypeOK
  <2>2. routineCount' \in Nat
    <3>1. IsFiniteSet(Live) /\ routineCount = Cardinality(Live)
      BY <1>1 DEF PoolInv, Counted
    <3>2. Cardinality(Live) \in Nat /\ Cardinality(Live) > 0
      BY <1>2, <3>1, LeavesLive
    <3> QED
      BY SMT, <1>1, <3>1, <3>2
  <2> QED
    BY <1>1, <1>2, <2>1, <2>2 DEF PoolTypeOK
<1>4. Counted'
  <2>1. /\ IsFiniteSet(Live') /\ Cardinality(Live') = Cardinality(Live) - 1
        /\ Cardinality(Live) \in Nat /\ Cardinality(Live) > 0
    BY <1>2, LeavesLive DEF PoolInv, Counted
  <2>2. /\ routineCount = Cardinality(Live) /\ chClosed = {} /\ o.max \in Int
        /\ o.max > 0 => routineCount <= o.max
    BY <1>1, PoolParts DEF PoolInv, Counted
  <2> QED
    BY SMT, <1>1, <2>1, <2>2 DEF Counted
<1>5. FreeWait'
  BY <1>1, <1>2, PoolParts DEF PoolInv, FreeWait
<1>6. Backlog' /\ Sole'
  BY <1>1 DEF PoolInv, Backlog, Sole
<1>7. HandoffSafe'
  <2>1. \A d \in Callers : hand[d] # Idle => hand[d].to \in Routines \ {r}
    BY <1>1, PoolParts DEF PoolInv, HandoffSafe
  <2> QED
    BY SMT, <1>1, <1>2, <2>1 DEF PoolInv, HandoffSafe
<1>8. OnePlace'
  BY <1>1, SamePlaces DEF PoolInv
<1> QED
  BY <1>3, <1>4, <1>5, <1>6, <1>7, <1>8 DEF PoolInv

(* A routine whose channel Close has closed returns, still counted.        *)
LEMMA RangeEndsStep ==
  ASSUME PoolInv, NEW r \in Routines, RangeEnds(r)
  PROVE  PoolInv'
<1>1. /\ PoolTypeOK /\ rpc[r] = "recv" /\ r \in chClosed /\ rpc' = [rpc EXCEPT ![r] = "none"]
      /\ UNCHANGED <<o, die, routineCount, freeRoutines, taskQueue, chClosed, rtask, hand, plain, runs>>
  BY DEF PoolInv, RangeEnds
<1>2. /\ rpc' \in [Routines -> {"none", "recv", "run", "put"}]
      /\ rpc'[r] = "none" /\ \A q \in Routines \ {r} : rpc'[q] = rpc[q]
      /\ r \in Live /\ Live' = Live \ {r}
  BY <1>1, RoutineMoves
<1>3. PoolTypeOK'
  <2>1. \A q \in Routines : rtask'[q] # Nil <=> rpc'[q] = "run"
    BY <1>1, <1>2 DEF PoolTypeOK
  <2>2. routineCount' \in Nat
    BY <1>1 DEF PoolTypeOK
  <2> QED
    BY <1>1, <1>2, <2>1, <2>2 DEF PoolTypeOK
<1>4. Counted'
  <2>1. /\ IsFiniteSet(Live') /\ Cardinality(Live') = Cardinality(Live) - 1
        /\ Cardinality(Live) \in Nat /\ Cardinality(Live) > 0
    BY <1>2, LeavesLive DEF PoolInv, Counted
  <2>2. routineCount \in Nat /\ Cardinality(Live) <= routineCount /\ die'
    BY <1>1 DEF PoolInv, Counted, PoolTypeOK
  <2> QED
    BY SMT, <1>1, <2>1, <2>2 DEF PoolInv, Counted
<1>5. FreeWait'
  <2>1. freeRoutines = <<>>
    BY <1>1 DEF PoolInv, Counted, FreeWait
  <2> QED
    BY SMT, <1>1, <2>1 DEF FreeWait, Distinct, Members
<1>6. Backlog' /\ Sole'
  BY <1>1 DEF PoolInv, Backlog, Sole
<1>7. HandoffSafe'
  <2>1. \A d \in Callers : hand[d] # Idle => hand[d].to \in Routines \ {r}
    BY <1>1, PoolParts DEF PoolInv, HandoffSafe
  <2> QED
    BY SMT, <1>1, <1>2, <2>1 DEF PoolInv, HandoffSafe
<1>8. OnePlace'
  BY <1>1, SamePlaces DEF PoolInv
<1> QED
  BY <1>3, <1>4, <1>5, <1>6, <1>7, <1>8 DEF PoolInv

(* A routine goes on with the oldest task of the queue.                    *)
LEMMA PutNextStep ==
  ASSUME PoolInv, NEW r \in Routines, PutNext(r)
  PROVE  PoolInv'
<1> DEFINE k == Head(taskQueue)
<1>1. /\ PoolTypeOK /\ Sole /\ rpc[r] = "put" /\ ~die /\ taskQueue # <<>>
      /\ taskQueue \in Seq(Tasks) /\ Distinct(taskQueue)
      /\ rtask' = [rtask EXCEPT ![r] = k] /\ taskQueue' = Tail(taskQueue)
      /\ rpc' = [rpc EXCEPT ![r] = "run"]
      /\ UNCHANGED <<o, die, routineCount, freeRoutines, chClosed, hand, plain, runs>>
  BY DEF PoolInv, PutNext, PoolTypeOK, Sole
<1>2. /\ k \in Tasks /\ k \in Members(taskQueue)
      /\ taskQueue' \in Seq(Tasks) /\ Distinct(taskQueue')
      /\ Members(taskQueue') = Members(taskQueue) \ {k}
  BY <1>1, TakeHead
<1> HIDE DEF k
<1>3. rtask[r] = Nil /\ k \notin Running
  BY <1>1, <1>2 DEF PoolTypeOK, PoolInv, OnePlace
<1>4. /\ rtask' \in [Routines -> Tasks \cup {Nil}]
      /\ rtask'[r] = k /\ \A q \in Routines \ {r} : rtask'[q] = rtask[q]
      /\ Running' = Running \cup {k}
      /\ \A p, q \in Routines : rtask'[p] = rtask'[q] /\ rtask'[p] # Nil => p = q
  BY <1>1, <1>2, <1>3, TaskTaken
<1>5. /\ rpc' \in [Routines -> {"none", "recv", "run", "put"}]
      /\ rpc'[r] = "run" /\ \A q \in Routines \ {r} : rpc'[q] = rpc[q]
      /\ Live' = Live
  BY <1>1, RoutineMoves
<1>6. PoolTypeOK'
  <2>1. \A q \in Routines : rtask'[q] # Nil <=> rpc'[q] = "run"
    BY SMT, <1>1, <1>2, <1>4, <1>5, PoolParts DEF PoolTypeOK
  <2> QED
    BY <1>1, <1>2, <1>4, <1>5, <2>1 DEF PoolTypeOK
<1>7. Counted'
  BY <1>1, <1>5 DEF PoolInv, Counted
<1>8. FreeWait' /\ Backlog'
  <2>1. freeRoutines = <<>> /\ o.max > 0 /\ routineCount = o.max
    BY <1>1 DEF PoolInv, Backlog
  <2>2. FreeWait'
    BY SMT, <1>1, <2>1 DEF FreeWait, Distinct, Members
  <2> QED
    BY <1>1, <2>1, <2>2 DEF Backlog
<1>9. HandoffSafe'
  <2>1. HandoffSafe /\ \A d \in Callers : hand[d] # Idle => hand[d].to \in Routines \ {r}
    BY <1>1, PoolParts DEF PoolInv, HandoffSafe
  <2> QED
    BY SMT, <1>1, <1>5, <2>1 DEF HandoffSafe
<1>10. Sole'
  BY <1>1, <1>2, <1>4 DEF PoolInv, Sole
<1>11. OnePlace'
  <2>1. InHand' = InHand /\ Finished' = Finished
    BY <1>1 DEF InHand, Finished
  <2> QED
    BY SMT, <1>1, <1>2, <1>4, <2>1 DEF PoolInv, OnePlace
<1> QED
  BY <1>6, <1>7, <1>8, <1>9, <1>10, <1>11 DEF PoolInv

(* A routine within the reserve, with nothing queued, becomes free: the    *)
(* free list with it holds no more routines than there are.                *)
LEMMA PutFreeStep ==
  ASSUME PoolInv, NEW r \in Routines, PutFree(r)
  PROVE  PoolInv'
<1>1. /\ PoolTypeOK /\ rpc[r] = "put" /\ ~die /\ taskQueue = <<>> /\ routineCount <= o.reserve
      /\ freeRoutines \in Seq(Routines) /\ Distinct(freeRoutines)
      /\ freeRoutines' = Append(freeRoutines, r) /\ rpc' = [rpc EXCEPT ![r] = "recv"]
      /\ UNCHANGED <<o, die, routineCount, taskQueue, chClosed, rtask, hand, plain, runs>>
  BY DEF PoolInv, PutFree, PoolTypeOK, FreeWait
<1>2. r \notin Members(freeRoutines)
  BY <1>1 DEF PoolInv, FreeWait
<1>3. /\ freeRoutines' \in Seq(Routines) /\ Distinct(freeRoutines')
      /\ Members(freeRoutines') = Members(freeRoutines) \cup {r}
  BY SMT, <1>1, <1>2, AppendNew
<1>4. /\ rpc' \in [Routines -> {"none", "recv", "run", "put"}]
      /\ rpc'[r] = "recv" /\ \A q \in Routines \ {r} : rpc'[q] = rpc[q]
      /\ Live' = Live
  BY <1>1, RoutineMoves
<1>5. PoolTypeOK'
  <2>1. \A q \in Routines : rtask'[q] # Nil <=> rpc'[q] = "run"
    BY <1>1, <1>4 DEF PoolTypeOK
  <2> QED
    BY <1>1, <1>3, <1>4, <2>1 DEF PoolTypeOK
<1>6. Counted'
  BY <1>1, <1>4 DEF PoolInv, Counted
<1>7. FreeWait'
  <2>1. \A q \in Members(freeRoutines') : q \in Routines /\ rpc'[q] = "recv"
    BY <1>1, <1>2, <1>3, <1>4, PoolParts DEF PoolInv, FreeWait
  <2>2. Members(freeRoutines') \subseteq Live'
    BY <2>1 DEF Live
  <2>3. IsFiniteSet(Live') /\ Cardinality(Live') = routineCount
    BY <1>1, <1>4 DEF PoolInv, Counted
  <2>4. Len(freeRoutines') \in Nat
    BY SMT, <1>3
  <2>5. Len(freeRoutines') <= routineCount
    BY <1>3, <2>2, <2>3, <2>4, NoLonger
  <2>6. routineCount \in Nat /\ o.reserve \in Int
    BY <1>1, PoolParts DEF PoolTypeOK
  <2>7. Len(freeRoutines') <= o.reserve
    BY SMT, <1>1, <2>4, <2>5, <2>6
  <2> QED
    BY <1>1, <1>3, <2>1, <2>7 DEF FreeWait
<1>8. Backlog' /\ Sole'
  BY <1>1 DEF PoolInv, Backlog, Sole
<1>9. HandoffSafe'
  <2>1. \A d \in Callers : hand[d] # Idle => hand[d].to \in Routines \ {r}
    BY <1>1, PoolParts DEF PoolInv, HandoffSafe
  <2> QED
    BY SMT, <1>1, <1>3, <1>4, <2>1 DEF PoolInv, HandoffSafe
<1>10. OnePlace'
  BY <1>1, SamePlaces DEF PoolInv
<1> QED
  BY <1>5, <1>6, <1>7, <1>8, <1>9, <1>10 DEF PoolInv

-----------------------------------------------------------------------------
(* A new pool has no routines and no tasks.                                *)
LEMMA InitPoolInv ==
  ASSUME PoolInit
  PROVE  PoolInv
<1> USE DEF PoolInit
<1>1. PoolTypeOK
  <2>1. freeRoutines \in Seq(Routines) /\ taskQueue \in Seq(Tasks)
    BY EmptySeq, Zenon
  <2>2. /\ rpc \in [Routines -> {"none", "recv", "run", "put"}]
        /\ rtask \in [Routines -> Tasks \cup {Nil}]
        /\ hand \in [Callers -> [task : Tasks, to : Routines] \cup {Idle}]
        /\ runs \in [Tasks -> Nat]
    OBVIOUS
  <2>3. \A r \in Routines : rtask[r] = Nil /\ rpc[r] = "none"
    OBVIOUS
  <2> QED
    BY <2>1, <2>2, <2>3 DEF PoolTypeOK
<1>2. Members(taskQueue) = {} /\ Members(freeRoutines) = {}
  BY SMT DEF Members
<1>3. \A c \in Callers : hand[c] = Idle /\ hand[c].task = Nil
  BY DEF Idle
<1>4. Counted
  <2>1. Live = {}
    BY DEF Live
  <2> QED
    BY SMT, <1>1, <2>1, FS_EmptySet, PoolParts DEF Counted
<1>5. FreeWait /\ Backlog /\ HandoffSafe
  BY SMT, <1>2, <1>3 DEF FreeWait, Distinct, Backlog, HandoffSafe
<1>6. Sole
  BY SMT, <1>3 DEF Sole, Distinct
<1>7. OnePlace
  <2>1. InHand = {} /\ Running = {} /\ Finished = {}
    BY SMT, <1>3 DEF InHand, Running, Finished
  <2> QED
    BY SMT, <1>2, <2>1 DEF OnePlace
<1> QED
  BY <1>1, <1>4, <1>5, <1>6, <1>7 DEF PoolInv

(* Every step keeps the invariant.                                         *)
LEMMA NextPoolInv ==
  ASSUME PoolInv, [PoolNext]_poolVars
  PROVE  PoolInv'
<1>1. ASSUME NEW c \in Callers, NEW k \in Tasks, Go(c, k)
      PROVE  PoolInv'
  BY <1>1, GoFreeStep, GoQueueStep, GoPlainStep, GoNewStep DEF Go
<1>2. ASSUME NEW r \in Routines, run(r)
      PROVE  PoolInv'
  BY <1>2, RunTaskStep, PutDieStep, PutNextStep, PutSurplusStep, PutFreeStep, RangeEndsStep
     DEF run, putRoutine
<1>3. CASE UNCHANGED poolVars
  <2>1. UNCHANGED <<o, die, routineCount, freeRoutines, taskQueue, chClosed, rpc, rtask, hand, plain, runs>>
    BY <1>3 DEF poolVars
  <2>2. PoolTypeOK'
    BY <2>1 DEF PoolInv, PoolTypeOK
  <2>3. Counted' /\ FreeWait' /\ Backlog' /\ HandoffSafe' /\ Sole'
    BY <2>1 DEF PoolInv, Counted, Live, FreeWait, Backlog, HandoffSafe, Sole
  <2>4. OnePlace'
    BY <2>1, SamePlaces DEF PoolInv
  <2> QED
    BY <2>2, <2>3, <2>4 DEF PoolInv
<1> QED
  BY <1>1, <1>2, <1>3, HandoffStep, CloseStep, RunPlainStep DEF PoolNext

(* The places of a task, counted: the invariant implies TaskOnce.          *)
LEMMA PlacesCounted ==
  ASSUME PoolInv
  PROVE  TaskOnce
<1> SUFFICES ASSUME NEW k \in Tasks
             PROVE  Cardinality({i \in 1..Len(taskQueue) : taskQueue[i] = k})
                      + Cardinality({c \in Callers : hand[c].task = k})
                      + Cardinality({r \in Routines : rtask[r] = k})
                      + Cardinality(plain \cap {k}) + runs[k] <= 1
  BY DEF PoolInv, TaskOnce
<1> DEFINE Q == {i \in 1..Len(taskQueue) : taskQueue[i] = k}
           H == {c \in Callers : hand[c].task = k}
           R == {r \in Routines : rtask[r] = k}
           P == plain \cap {k}
<1>1. k # Nil /\ runs[k] \in Nat /\ runs[k] <= 1
  BY PoolParts DEF PoolInv, OnePlace, PoolTypeOK
<1>2. /\ \A x, y \in Q : x = y
      /\ \A x, y \in H : x = y
      /\ \A x, y \in R : x = y
      /\ \A x, y \in P : x = y
  BY SMT, <1>1 DEF PoolInv, Sole, Distinct
<1>3. ASSUME NEW S, \A x, y \in S : x = y
      PROVE  Cardinality(S) = IF S = {} THEN 0 ELSE 1
  <2>1. CASE S = {}
    BY <2>1, FS_EmptySet
  <2>2. CASE S # {}
    <3>1. PICK x : x \in S
      BY <2>2
    <3>2. S = {x}
      BY <1>3, <3>1
    <3> QED
      BY <2>2, <3>2, FS_Singleton
  <2> QED
    BY <2>1, <2>2
<1>4. /\ Q # {} <=> k \in Members(taskQueue)
      /\ H # {} <=> k \in InHand
      /\ R # {} <=> k \in Running
      /\ P # {} <=> k \in plain
  BY <1>1 DEF Members, InHand, Running
<1>5. runs[k] > 0 <=> k \in Finished
  BY DEF Finished
<1>6. /\ Cardinality(Q) = IF Q = {} THEN 0 ELSE 1
      /\ Cardinality(H) = IF H = {} THEN 0 ELSE 1
      /\ Cardinality(R) = IF R = {} THEN 0 ELSE 1
      /\ Cardinality(P) = IF P = {} THEN 0 ELSE 1
  BY <1>2, <1>3
<1> HIDE DEF Q, H, R, P
<1>7. Cardinality(Q) + Cardinality(H) + Cardinality(R) + Cardinality(P) + runs[k] <= 1
  BY SMT, <1>1, <1>4, <1>5, <1>6 DEF PoolInv, OnePlace
<1> QED
  BY <1>7 DEF Q, H, R, P

(* In every behaviour of the pool the invariant holds.                     *)
THEOREM PoolInvariance == PoolSpec => []PoolInv
<1> QED
  BY InitPoolInv, NextPoolInv, PTL DEF PoolSpec

(* MaxRoutineCount and ReserveRoutineCount are kept by Go, putRoutine and  *)
(* Close in every interleaving, and a task waits only while as many        *)
(* routines as may exist are busy, for any number of callers, routines and *)
(* tasks and any Option.                                                   *)
THEOREM RoutinesBounded == PoolSpec => []RoutinesUsed
<1>1. ASSUME PoolInv
      PROVE  RoutinesUsed
  <2>1. PoolTypeOK /\ o.max \in Int /\ routineCount \in Nat
    BY <1>1, PoolParts DEF PoolInv, PoolTypeOK
  <2>2. /\ Cardinality(Live) \in Nat /\ Cardinality(Live) <= routineCount
        /\ ~die => routineCount = Cardinality(Live)
        /\ o.max > 0 => routineCount <= o.max
    BY <1>1, FS_CardinalityType DEF PoolInv, Counted
  <2> QED
    BY SMT, <1>1, <2>1, <2>2 DEF PoolInv, FreeWait, Backlog, RoutinesUsed
<1> QED
  BY <1>1, PoolInvariance, PTL

(* A task Go has accepted is in one place at a time and runs at most once, *)
(* and the routine a call sends to waits for it on an open channel that no *)
(* other call and no Close can reach.                                      *)
THEOREM TaskKept == PoolSpec => []TaskOnce
<1> QED
  BY PlacesCounted, PoolInvariance, PTL

-----------------------------------------------------------------------------
(* The timer.                                                              *)

(* c has begun a callback and not done with the status yet.                *)
Firing(c) == cpc[c] \in {"callback", "again", "end"}

OneFiring ==
  /\ \A c, d \in Calls : Firing(c) /\ Firing(d) => c = d
  /\ status = "waitting" => \A c \in Calls : ~Firing(c)

OnceFires ==
  ~repeat => /\ \A c \in Calls : cpc[c] # "again"
             /\ fires = 0 \/ (fires = 1 /\ status # "waitting")

Cancelled ==
  /\ cancelled # {} => status = "removed"
  /\ TRUE \in cancelled \/ (\E u \in Users : upc[u] = "stop") =>
       status = "removed" /\ \A c \in Calls : cpc[c] # "callback"

Stored == \A c \in Calls : cpc[c] = "store" => made[c] \in GoTimers

(* A once timer that waits is known to others only when newTimer has       *)
(* stored its time.Timer; a goroutine of call that stops one has stored it *)
(* itself.                                                                 *)
Loaded ==
  /\ npc = "returned" => t # None
  /\ \A c \in Calls : cpc[c] \in {"load", "stop"} => t # None
  /\ \A u \in Users : upc[u] = "stop" => repeat \/ npc = "returned"
  /\ \A u \in Users : upc[u] = "reset" => npc = "returned"
  /\ \A u \in Users : upc[u] = "panicked" => repeat

TimerInv == TypeOK /\ OneFiring /\ OnceFires /\ Cancelled /\ Stored /\ Loaded

-----------------------------------------------------------------------------
(* A new timer waits, and nobody runs it.                                  *)
LEMMA InitTimerInv == Init => TimerInv
<1> SUFFICES ASSUME Init
             PROVE  TimerInv
  OBVIOUS
<1> USE DEF Init
<1>1. TypeOK
  BY SMT DEF TypeOK
<1>2. OneFiring
  BY DEF OneFiring, Firing
<1>3. OnceFires
  BY DEF OnceFires
<1>4. Cancelled
  BY DEF Cancelled
<1>5. Stored /\ Loaded
  BY DEF Stored, Loaded
<1> QED
  BY <1>1, <1>2, <1>3, <1>4, <1>5 DEF TimerInv

(* newTimer starts and stores the first time.Timer.                        *)
LEMMA NewStep ==
  ASSUME TimerInv, newTimer
  PROVE  TimerInv'
<1> USE DEF TimerInv, newTimer, NewAfterFunc, NewStore
<1>1. TypeOK'
  BY DEF TypeOK
<1>2. OneFiring' /\ OnceFires' /\ Cancelled' /\ Stored'
  BY DEF OneFiring, Firing, OnceFires, Cancelled, Stored
<1>3. Loaded'
  BY SMT, NoneAssumption DEF TypeOK, Loaded
<1> QED
  BY <1>1, <1>2, <1>3

(* Expiry starts a goroutine in call, which has begun nothing yet.         *)
LEMMA ExpireStep ==
  ASSUME TimerInv, NEW x \in GoTimers, NEW c \in Calls, Expire(x, c)
  PROVE  TimerInv'
<1> USE DEF Expire, Goto, TimerInv
<1>1. TypeOK'
  BY DEF TypeOK
<1>2. OneFiring'
  BY DEF TypeOK, OneFiring, Firing
<1>3. OnceFires'
  BY DEF TypeOK, OnceFires
<1>4. Cancelled'
  BY DEF TypeOK, Cancelled
<1>5. Stored'
  BY DEF TypeOK, Stored
<1>6. Loaded'
  BY DEF TypeOK, Loaded
<1> QED
  BY <1>1, <1>2, <1>3, <1>4, <1>5, <1>6

(* The steps of call.                                                      *)
LEMMA CallStep ==
  ASSUME TimerInv, NEW c \in Calls, call(c)
  PROVE  TimerInv'
<1> USE DEF TimerInv, Goto
<1>1. CASE CallBegin(c)
  <2> USE <1>1 DEF CallBegin
  <2>1. TypeOK'
    BY SMT DEF TypeOK
  <2>2. OneFiring'
    BY SMT DEF TypeOK, OneFiring, Firing
  <2>3. OnceFires'
    BY SMT DEF TypeOK, OnceFires
  <2>4. Cancelled' /\ Stored'
    BY DEF TypeOK, Cancelled, Stored
  <2>5. Loaded'
    BY NoneAssumption DEF TypeOK, Loaded, Stored, OnceFires, Known
  <2> QED
    BY <2>1, <2>2, <2>3, <2>4, <2>5
<1>2. CASE CallbackReturns(c)
  <2> USE <1>2 DEF CallbackReturns
  <2>1. TypeOK'
    BY DEF TypeOK
  <2>2. OneFiring'
    BY DEF TypeOK, OneFiring, Firing
  <2>3. OnceFires'
    BY DEF TypeOK, OnceFires
  <2>4. Cancelled'
    BY DEF TypeOK, Cancelled
  <2>5. Stored'
    BY DEF TypeOK, Stored
  <2>6. Loaded'
    BY NoneAssumption DEF TypeOK, Loaded, Stored, OnceFires, Known
  <2> QED
    BY <2>1, <2>2, <2>3, <2>4, <2>5, <2>6
<1>3. CASE CallEnd(c)
  <2> USE <1>3 DEF CallEnd
  <2>1. TypeOK'
    BY DEF TypeOK
  <2>2. OneFiring'
    BY DEF TypeOK, OneFiring, Firing
  <2>3. OnceFires'
    BY DEF TypeOK, OnceFires
  <2>4. Cancelled'
    BY DEF TypeOK, Cancelled
  <2>5. Stored'
    BY DEF TypeOK, Stored
  <2>6. Loaded'
    BY NoneAssumption DEF TypeOK, Loaded, Stored, OnceFires, Known
  <2> QED
    BY <2>1, <2>2, <2>3, <2>4, <2>5, <2>6
<1>4. CASE CallAgain(c)
  <2> USE <1>4 DEF CallAgain
  <2>1. TypeOK'
    BY DEF TypeOK
  <2>2. OneFiring'
    BY DEF TypeOK, OneFiring, Firing
  <2>3. OnceFires'
    BY DEF TypeOK, OnceFires
  <2>4. Cancelled' /\ Stored'
    BY DEF TypeOK, Cancelled, Stored
  <2>5. Loaded'
    BY NoneAssumption DEF TypeOK, Loaded, Stored, OnceFires, Known
  <2> QED
    BY <2>1, <2>2, <2>3, <2>4, <2>5
<1>5. CASE CallAfterFunc(c)
  <2> USE <1>5 DEF CallAfterFunc
  <2>1. TypeOK'
    BY DEF TypeOK
  <2>2. OneFiring' /\ OnceFires' /\ Cancelled'
    BY DEF TypeOK, OneFiring, Firing, OnceFires, Cancelled
  <2>3. Stored'
    BY DEF TypeOK, Stored
  <2>4. Loaded'
    BY NoneAssumption DEF TypeOK, Loaded, Stored, OnceFires, Known
  <2> QED
    BY <2>1, <2>2, <2>3, <2>4
<1>6. CASE CallStore(c)
  <2> USE <1>6 DEF CallStore
  <2>1. TypeOK'
    BY DEF TypeOK, Stored
  <2>2. OneFiring'
    BY DEF TypeOK, OneFiring, Firing
  <2>3. OnceFires'
    BY DEF TypeOK, OnceFires
  <2>4. Cancelled'
    BY DEF TypeOK, Cancelled
  <2>5. Stored'
    BY DEF TypeOK, Stored
  <2>6. Loaded'
    BY NoneAssumption DEF TypeOK, Loaded, Stored, OnceFires, Known
  <2> QED
    BY <2>1, <2>2, <2>3, <2>4, <2>5, <2>6
<1>7. CASE CallLoad(c) \/ CallStop(c)
  <2> USE <1>7 DEF CallLoad, CallStop
  <2>1. TypeOK'
    BY DEF TypeOK
  <2>2. OneFiring'
    BY SMT DEF TypeOK, OneFiring, Firing
  <2>3. OnceFires'
    BY DEF TypeOK, OnceFires
  <2>4. Cancelled'
    BY DEF TypeOK, Cancelled
  <2>5. Stored'
    BY DEF TypeOK, Stored
  <2>6. Loaded'
    BY SMT, NoneAssumption DEF TypeOK, Loaded, Stored, OnceFires, Known
  <2> QED
    BY <2>1, <2>2, <2>3, <2>4, <2>5, <2>6
<1> QED
  BY <1>1, <1>2, <1>3, <1>4, <1>5, <1>6, <1>7 DEF call

(* The steps of Cancel and ResetFireTime.                                  *)
LEMMA UserSteps ==
  ASSUME TimerInv, NEW u \in Users, Cancel(u) \/ ResetFireTime(u) \/ UserStep(u)
  PROVE  TimerInv'
<1> USE DEF TimerInv, UserGoto
<1>1. CASE Cancel(u)
  <2> USE <1>1 DEF Cancel
  <2>1. TypeOK'
    BY DEF TypeOK
  <2>2. OneFiring' /\ OnceFires' /\ Stored'
    BY DEF TypeOK, OneFiring, Firing, OnceFires, Stored
  <2>3. Cancelled'
    BY DEF TypeOK, Cancelled, OneFiring, Firing
  <2>4. Loaded'
    BY SMT, NoneAssumption DEF TypeOK, Loaded, Stored, OnceFires, Known
  <2> QED
    BY <2>1, <2>2, <2>3, <2>4
<1>2. CASE CancelStop(u)
  <2> USE <1>2 DEF CancelStop
  <2>1. TypeOK'
    BY DEF TypeOK
  <2>2. OneFiring' /\ OnceFires' /\ Stored'
    BY DEF TypeOK, OneFiring, Firing, OnceFires, Stored
  <2>3. Cancelled'
    BY DEF TypeOK, Cancelled
  <2>4. Loaded'
    BY SMT DEF TypeOK, Loaded
  <2> QED
    BY <2>1, <2>2, <2>3, <2>4
<1>3. CASE CancelRemove(u)
  <2> USE <1>3 DEF CancelRemove
  <2>1. TypeOK'
    BY DEF TypeOK
  <2>2. OneFiring' /\ OnceFires' /\ Stored'
    BY DEF TypeOK, OneFiring, Firing, OnceFires, Stored
  <2>3. Cancelled'
    BY DEF TypeOK, Cancelled
  <2>4. Loaded'
    BY NoneAssumption DEF TypeOK, Loaded, Stored, OnceFires, Known
  <2> QED
    BY <2>1, <2>2, <2>3, <2>4
<1>4. CASE CancelPanic(u)
  <2> USE <1>4 DEF CancelPanic
  <2>1. TypeOK'
    BY DEF TypeOK
  <2>2. OneFiring' /\ OnceFires' /\ Stored'
    BY DEF TypeOK, OneFiring, Firing, OnceFires, Stored
  <2>3. Cancelled'
    BY DEF TypeOK, Cancelled
  <2>4. repeat
    BY DEF Loaded
  <2>5. Loaded'
    BY SMT, <2>4 DEF TypeOK, Loaded
  <2> QED
    BY <2>1, <2>2, <2>3, <2>5
<1>5. CASE ResetFireTime(u) \/ Reset(u)
  <2> USE <1>5 DEF ResetFireTime, Reset
  <2>1. TypeOK'
    <3>1. upc[u] = "reset" => t \in GoTimers
      BY DEF TypeOK, Loaded
    <3>2. pending' \subseteq GoTimers
      BY <3>1 DEF TypeOK
    <3> QED
      BY <3>2 DEF TypeOK
  <2>2. OneFiring'
    BY DEF TypeOK, OneFiring, Firing
  <2>3. OnceFires'
    BY DEF TypeOK, OnceFires
  <2>4. Cancelled'
    BY DEF TypeOK, Cancelled
  <2>5. Stored'
    BY DEF TypeOK, Stored
  <2>6. Loaded'
    BY SMT DEF TypeOK, Loaded, OnceFires, Known
  <2> QED
    BY <2>1, <2>2, <2>3, <2>4, <2>5, <2>6
<1> QED
  BY <1>1, <1>2, <1>3, <1>4, <1>5 DEF UserStep

(* The invariant is inductive.                                             *)
LEMMA NextTimerInv == TimerInv /\ [Next]_vars => TimerInv'
<1> SUFFICES ASSUME TimerInv, [Next]_vars
             PROVE  TimerInv'
  OBVIOUS
<1>1. CASE Next
  BY <1>1, NewStep, ExpireStep, CallStep, UserSteps DEF Next
<1>2. CASE UNCHANGED vars
  BY <1>2 DEF vars, TimerInv, TypeOK, OneFiring, Firing, OnceFires, Cancelled, Stored, Loaded
<1> QED
  BY <1>1, <1>2

(* In every state the timer reaches, one goroutine at most is between the  *)
(* beginning and the end of a callback, and none when the timer waits.     *)
THEOREM TimerInvariance == Spec => []TimerInv
  BY InitTimerInv, NextTimerInv, PTL DEF Spec

-----------------------------------------------------------------------------
(* Callbacks do not overlap, a once timer calls back at most once, a       *)
(* Cancel that returned true left no callback running, and only a Cancel   *)
(* of a repeat timer that newTimer has yet to store finds no time.Timer.   *)
THEOREM CallbacksDoNotOverlap == Spec => []CallbacksExclusive
<1>1. TimerInv => CallbacksExclusive
  <2> SUFFICES ASSUME TimerInv
               PROVE  CallbacksExclusive
    OBVIOUS
  <2>1. Cardinality(InCallback) <= 1
    <3>1. CASE InCallback = {}
      BY SMT, <3>1, FS_EmptySet
    <3>2. CASE InCallback # {}
      <4>1. PICK c \in Calls : InCallback = {c}
        BY SMT, <3>2 DEF TimerInv, OneFiring, Firing, InCallback
      <4>2. Cardinality({c}) = 1
        BY FS_Singleton
      <4> QED
        BY SMT, <4>1, <4>2
    <3> QED
      BY <3>1, <3>2
  <2>2. ~repeat => fires <= 1
    BY SMT DEF TimerInv, OnceFires
  <2>3. TRUE \in cancelled => InCallback = {}
    BY DEF TimerInv, Cancelled, InCallback
  <2>4. LoadsTimer
    BY DEF TimerInv, Loaded, LoadsTimer
  <2> QED
    BY <2>1, <2>2, <2>3, <2>4 DEF CallbacksExclusive, TimerInv
<1> QED
  BY <1>1, TimerInvariance, PTL

(* When a Cancel has returned, no callback begins any more.                *)
THEOREM CancelIsFinal == Spec => CancelStops
<1> DEFINE Begins == cancelled # {} => InCallback' \subseteq InCallback
<1>1. TimerInv /\ [Next]_vars => [Begins]_vars
  <2> SUFFICES ASSUME TimerInv, Next, cancelled # {}
               PROVE  InCallback' \subseteq InCallback
    OBVIOUS
  <2>1. status = "removed"
    BY DEF TimerInv, Cancelled
  <2>2. ASSUME NEW x \in GoTimers, NEW c \in Calls, Expire(x, c)
        PROVE  InCallback' \subseteq InCallback
    BY <2>2 DEF Expire, Goto, InCallback, TimerInv, TypeOK
  <2>3. ASSUME NEW c \in Calls, call(c)
        PROVE  InCallback' \subseteq InCallback
    BY <2>1, <2>3 DEF call, CallBegin, CallbackReturns, CallEnd, CallAgain, CallAfterFunc, CallStore,
       CallLoad, CallStop, Goto, InCallback, TimerInv, TypeOK
  <2>4. ASSUME NEW u \in Users, Cancel(u) \/ ResetFireTime(u) \/ UserStep(u)
        PROVE  InCallback' \subseteq InCallback
    BY <2>4 DEF Cancel, ResetFireTime, UserStep, CancelPanic, CancelStop, CancelRemove, Reset, InCallback
  <2>5. CASE newTimer
    BY <2>5 DEF newTimer, NewAfterFunc, NewStore, InCallback
  <2> QED
    BY <2>2, <2>3, <2>4, <2>5 DEF Next
<1> QED
  BY <1>1, TimerInvariance, PTL DEF Spec, CancelStops
=============================================================================
