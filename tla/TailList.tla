------------------------------ MODULE TailList ------------------------------
(***************************************************************************)
(* The circular singly linked list that event/priorityQueue.go and         *)
(* gopool/gopool.go both use as a first-in first-out queue: only the tail  *)
(* is stored, and the link of the tail leads to the head.  A link is       *)
(* present for the items in the list; an item that is taken has none.      *)
(***************************************************************************)
EXTENDS Naturals, Sequences

CONSTANT Nil

EmptyList == [tail |-> Nil, next |-> <<>>]

IsEmpty(list) == list.tail = Nil

Items(list) == DOMAIN list.next

(* item.next = to                                                          *)
Link(next, item, to) == [i \in DOMAIN next \cup {item} |-> IF i = item THEN to ELSE next[i]]

(* The item that pop returns from a list that is not empty.                *)
First(list) == list.next[list.tail]

(* Mutant: an item pushed on a list that is not empty is linked to itself. *)
PushSelfLinked(list, item) ==
  IF IsEmpty(list)
  THEN [tail |-> item, next |-> Link(list.next, item, item)]
  ELSE [tail |-> item, next |-> Link(Link(list.next, item, item), list.tail, item)]

(* Mutant: the tail stays the tail.                                        *)
PushKeepsTail(list, item) ==
  IF IsEmpty(list)
  THEN [tail |-> item, next |-> Link(list.next, item, item)]
  ELSE [list EXCEPT !.next = Link(Link(list.next, item, First(list)), list.tail, item)]

Push(list, item) ==
  IF IsEmpty(list)
  THEN [tail |-> item, next |-> Link(list.next, item, item)]
  ELSE [tail |-> item, next |-> Link(Link(list.next, item, First(list)), list.tail, item)]

Pop(list) ==
  LET item == First(list)
      left == Link(list.next, list.tail, list.next[item])
  IN  IF item = list.tail
      THEN EmptyList
      ELSE [tail |-> list.tail, next |-> [i \in Items(list) \ {item} |-> left[i]]]
=============================================================================
