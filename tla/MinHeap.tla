------------------------------- MODULE MinHeap -------------------------------
(***************************************************************************)
(* The heap of util/minHeap.go on top of package container/heap.  Elements *)
(* carry their place in the slice, which Remove and Fix go by, so that     *)
(* every move of an element has to write it.                               *)
(*                                                                         *)
(* Places count from 0, as in the code: the slice is the sequence h.a.     *)
(***************************************************************************)
EXTENDS Integers, Sequences

CONSTANTS
  Elements,
  Keys      \* what Less compares

VARIABLE h  \* the slice, and the index and the key of every element

At(s, i) == s.a[i + 1]

Less(s, i, j) == s.key[At(s, i)] < s.key[At(s, j)]

(* Mutant: the index of one of the two elements is not written.            *)
SwapHalf(s, i, j) ==
  [s EXCEPT !.a = [@ EXCEPT ![i + 1] = At(s, j), ![j + 1] = At(s, i)],
            !.index = [@ EXCEPT ![At(s, j)] = i]]

Swap(s, i, j) ==
  [s EXCEPT !.a = [@ EXCEPT ![i + 1] = At(s, j), ![j + 1] = At(s, i)],
            !.index = [@ EXCEPT ![At(s, j)] = i, ![At(s, i)] = j]]

Push(s, e) == [s EXCEPT !.a = Append(@, e), !.index = [@ EXCEPT ![e] = Len(s.a)]]

Pop(s) == [s EXCEPT !.a = SubSeq(@, 1, Len(@) - 1)]

-----------------------------------------------------------------------------
(* up and down of container/heap: an element moves to its place among its  *)
(* ancestors, or among its descendants below n.                            *)

RECURSIVE up(_, _)
up(s, j) ==
  LET i == (j - 1) \div 2
  IN  IF j = 0 \/ ~Less(s, j, i) THEN s ELSE up(Swap(s, i, j), i)

RECURSIVE down(_, _, _)
down(s, i, n) ==
  LET j1 == 2 * i + 1
      j  == IF j1 + 1 < n /\ Less(s, j1 + 1, j1) THEN j1 + 1 ELSE j1
  IN  IF j1 >= n \/ ~Less(s, j, i) THEN s ELSE down(Swap(s, i, j), j, n)

(* heap.Fix, and the middle of heap.Remove: down, and up if that did not   *)
(* move the element.                                                       *)
Settle(s, i, n) ==
  LET d == down(s, i, n)
  IN  IF d # s THEN d ELSE up(s, i)

-----------------------------------------------------------------------------
Min == At(h, 0)

InHeap == {h.a[i] : i \in 1..Len(h.a)}

(* The test that Remove makes, to panic if it fails.                       *)
Valid(e) == h.index[e] >= 0 /\ Len(h.a) > h.index[e] /\ At(h, h.index[e]) = e

(* An element that is not in a heap has the index -1.                      *)
Forget(s, e) == [s EXCEPT !.index = [@ EXCEPT ![e] = -1]]

Init ==
  \E k \in [Elements -> Keys] : h = [a |-> <<>>, index |-> [e \in Elements |-> -1], key |-> k]

Insert(e) ==
  /\ e \notin InHeap
  /\ h' = up(Push(h, e), Len(h.a))

(* The program changes the key of an element and calls Fix.                *)
Fix(e, k) ==
  /\ e \in InHeap
  /\ h' = Settle([h EXCEPT !.key = [@ EXCEPT ![e] = k]], h.index[e], Len(h.a))

Remove(e) ==
  LET n == Len(h.a) - 1
      i == h.index[e]
  IN  /\ Valid(e)
      /\ h' = Forget(Pop(IF i = n THEN h ELSE Settle(Swap(h, i, n), i, n)), e)

PopMin ==
  LET n == Len(h.a) - 1
  IN  /\ h.a # <<>>
      /\ h' = Forget(Pop(down(Swap(h, 0, n), 0, n)), Min)

Clear ==
  h' = [h EXCEPT !.a = <<>>, !.index = [e \in Elements |-> IF e \in InHeap THEN -1 ELSE @[e]]]

Next ==
  \/ \E e \in Elements : Insert(e) \/ Remove(e) \/ (\E k \in Keys : Fix(e, k))
  \/ PopMin \/ Clear

Spec == Init /\ [][Next]_h

-----------------------------------------------------------------------------
(* After any sequence of calls, moves and changes of keys the element that *)
(* Min and PopMin return is the least, every element knows its place, and  *)
(* the test of Remove accepts exactly the elements that are in the heap.   *)
HeapSound ==
  /\ \A e \in InHeap : h.key[Min] <= h.key[e]
  /\ \A i \in 0..Len(h.a) - 1 : h.index[At(h, i)] = i
  /\ \A e \in Elements : Valid(e) <=> e \in InHeap
=============================================================================
