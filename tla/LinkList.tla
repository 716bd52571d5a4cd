------------------------------ MODULE LinkList ------------------------------
(***************************************************************************)
(* The queue of tasks of gopool/gopool.go, linkList: a circular list whose *)
(* items come from a list of free items of its own and, when that is       *)
(* empty, from the sync.Pool that all queues share.  The lock of the pool  *)
(* is held around every call.                                              *)
(***************************************************************************)
EXTENDS Naturals, Sequences, FiniteSets, TLC

CONSTANTS
  Tasks,
  ListItems,          \* items, in this queue or in the shared pool
  MaxCacheItemCount,  \* maxCacheItemCount
  Nil

VARIABLES
  tail, count,           \* the list of queued items, and count
  freeItems, freeCount,  \* the list of free items, and freeCount
  v,                     \* the task in each item, or Nil
  queued                 \* history: the tasks pushed and not popped, in order

listVars == <<tail, count, freeItems, freeCount, v, queued>>

L == INSTANCE TailList

Init ==
  /\ tail = L!EmptyList
  /\ count = 0
  /\ freeItems = L!EmptyList
  /\ freeCount = 0
  /\ v = [i \in ListItems |-> Nil]
  /\ queued = <<>>

(* The item that getPoolItem returns: a free one, or one of the shared     *)
(* pool.                                                                   *)
PoolItems ==
  IF L!IsEmpty(freeItems)
  THEN ListItems \ (L!Items(tail) \cup L!Items(freeItems))
  ELSE {L!First(freeItems)}

getPoolItem ==
  IF L!IsEmpty(freeItems)
  THEN UNCHANGED <<freeItems, freeCount>>
  ELSE freeItems' = L!Pop(freeItems) /\ freeCount' = freeCount - 1

push(task) ==
  \E item \in PoolItems :
    /\ getPoolItem
    /\ v' = [v EXCEPT ![item] = task]
    /\ tail' = L!Push(tail, item)
    /\ count' = count + 1
    /\ queued' = Append(queued, task)

putPoolItem(item) ==
  /\ v' = [v EXCEPT ![item] = Nil]
  /\ IF freeCount < MaxCacheItemCount
     THEN freeItems' = L!Push(freeItems, item) /\ freeCount' = freeCount + 1
     ELSE UNCHANGED <<freeItems, freeCount>>

(* A pop of an empty list changes nothing.                                 *)
pop ==
  /\ ~L!IsEmpty(tail)
  /\ tail' = L!Pop(tail)
  /\ count' = count - 1
  /\ putPoolItem(L!First(tail))
  /\ queued' = Tail(queued)

Next == pop \/ (\E task \in Tasks : push(task))

Spec == Init /\ [][Next]_listVars

-----------------------------------------------------------------------------
(* The tasks found by following the links from the head.                   *)
Contents ==
  LET n == Cardinality(L!Items(tail))
      item[i \in 1..n] == IF i = 1 THEN L!First(tail) ELSE tail.next[item[i - 1]]
  IN  [i \in 1..n |-> v[item[i]]]

(* Whatever items are reused, the list is a first-in first-out queue of    *)
(* the tasks pushed; the counts, by which Go decides that the queue is     *)
(* full, are those of the two lists; and no item is in both of them.       *)
ListIsQueue ==
  /\ Contents = queued
  /\ count = Len(queued)
  /\ freeCount = Cardinality(L!Items(freeItems))
  /\ L!Items(tail) \cap L!Items(freeItems) = {}
=============================================================================
