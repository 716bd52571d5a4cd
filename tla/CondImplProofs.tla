--------------------------- MODULE CondImplProofs ---------------------------
(***************************************************************************)
(* The inductive invariant of CondImpl and what pushWait and removeWait do *)
(* to the lists, for any conditions, goroutines and nodes; that the        *)
(* invariant holds in every behaviour; and that without timed waits the    *)
(* lists implement the wait sets of Cond.                                  *)
(*                                                                         *)
(* A channel read by a broadcast may still be in a linked node, and the    *)
(* node a timed wait remembers may belong to another wait by now.  That    *)
(* closing the one and removing the other never leaves a linked node       *)
(* behind rests on Owned: the only linked node with that channel is the    *)
(* one remembered.                                                         *)
(***************************************************************************)
EXTENDS CondImpl, SequenceTheorems, TLAPS

(* Steps of logic and sets are for Zenon; those that need arithmetic,      *)
(* sequences or updates of functions cite SMT.                             *)
USE Zenon

Distinct(s) == \A i, j \in DOMAIN s : s[i] = s[j] => i = j

Types ==
  /\ timed \in TimedSets
  /\ waitList \in [Conds -> Seq(Nodes)]
  /\ detached \in [Threads -> Seq(Nodes)]
  /\ orphans \subseteq Nodes
  /\ ch \in [Nodes -> Threads \cup {None}]
  /\ open \in [Threads -> BOOLEAN]
  /\ pc \in [Threads -> PCs]
  /\ waitsOn \in [Threads -> Conds \cup {None}]
  /\ node \in [Threads -> Nodes \cup {None}]
  /\ got \in [Threads -> Channels]
  /\ panicked \in BOOLEAN

(* A node is on one list, once.                                            *)
Lists ==
  /\ \A c \in Conds : Distinct(waitList[c])
  /\ \A t \in Threads : Distinct(detached[t])
  /\ \A c, d \in Conds : c # d => Range(waitList[c]) \cap Range(waitList[d]) = {}
  /\ \A c \in Conds, t \in Threads : Range(waitList[c]) \cap Range(detached[t]) = {}
  /\ \A t, u \in Threads : t # u => Range(detached[t]) \cap Range(detached[u]) = {}

Waits(l) == l \in {"wait", "timedWait"}

Live ==
  /\ \A n \in Nodes : ch[n] = None <=> n \notin Linked
  /\ \A n \in Linked : ch[n] \in Threads /\ Waits(pc[ch[n]]) /\ open[ch[n]]
  /\ \A m, n \in Linked : ch[m] = ch[n] => m = n

(* What a goroutine remembers of a node or a channel.                      *)
Owned ==
  /\ \A n \in Linked : pc[ch[n]] = "timedWait" => node[ch[n]] = n
  /\ \A u \in Threads, n \in Linked : got[u] = ch[n] => node[u] = n
  /\ \A u \in Threads : got[u] \in Threads => Waits(pc[got[u]])
  /\ \A u \in Threads : got[u] # None => pc[u] = "unlink"
  /\ \A u \in Threads : pc[u] \in {"read", "unlink"} => node[u] \in Nodes

(* Without timed waits a broadcast is alone on the list it has taken over. *)
Untimed ==
  timed = {} => \A t \in Threads :
    /\ pc[t] # "timedWait"
    /\ pc[t] \in {"read", "unlink"} => node[t] \in Range(detached[t])

IInv == Types /\ Lists /\ Live /\ Owned /\ Untimed

-----------------------------------------------------------------------------
(* Lists without repetition.                                               *)

(* What pushWait does to a list.                                           *)
LEMMA AppendNode ==
  ASSUME NEW s \in Seq(Nodes), Distinct(s), NEW n \in Nodes, n \notin Range(s)
  PROVE  /\ Append(s, n) \in Seq(Nodes)
         /\ Distinct(Append(s, n))
         /\ Range(Append(s, n)) = Range(s) \cup {n}
<1>1. /\ Append(s, n) \in Seq(Nodes) /\ Len(Append(s, n)) = Len(s) + 1
      /\ DOMAIN s = 1..Len(s) /\ DOMAIN Append(s, n) = 1..(Len(s) + 1) /\ Len(s) \in Nat
      /\ \A i \in 1..Len(s) : Append(s, n)[i] = s[i]
      /\ Append(s, n)[Len(s) + 1] = n
  BY SMT
<1>2. Distinct(Append(s, n))
  BY SMT, <1>1 DEF Distinct, Range
<1>3. \A x : x \in Range(Append(s, n)) <=> x \in Range(s) \cup {n}
  BY SMT, <1>1 DEF Range
<1> QED
  BY <1>1, <1>2, <1>3

(* A part of a list.                                                       *)
LEMMA PartOf ==
  ASSUME NEW s \in Seq(Nodes), NEW m \in 1..(Len(s) + 1), NEW n \in (m - 1)..Len(s)
  PROVE  /\ SubSeq(s, m, n) \in Seq(Nodes) /\ Len(SubSeq(s, m, n)) = n - m + 1
         /\ \A i \in 1..(n - m + 1) : SubSeq(s, m, n)[i] = s[i + m - 1]
<1>1. Len(s) \in Nat /\ m \in Int /\ n \in Int
  BY SMT
<1>2. \A i \in m..n : s[i] \in Nodes
  BY SMT, <1>1
<1>3. /\ SubSeq(s, m, n) \in Seq(Nodes)
      /\ Len(SubSeq(s, m, n)) = IF m <= n THEN n - m + 1 ELSE 0
      /\ \A i \in 1..(n - m + 1) : SubSeq(s, m, n)[i] = s[m + i - 1]
  BY <1>1, <1>2, SubSeqProperties, SMTT(20)
<1> QED
  BY SMT, <1>1, <1>3

(* What removeWait does to a list.                                         *)
LEMMA UnlinkNode ==
  ASSUME NEW s \in Seq(Nodes), Distinct(s), NEW n
  PROVE  /\ Unlink(s, n) \in Seq(Nodes)
         /\ Distinct(Unlink(s, n))
         /\ Range(Unlink(s, n)) = Range(s) \ {n}
<1>1. CASE n \notin Range(s)
  BY <1>1 DEF Unlink
<1>2. CASE n \in Range(s)
  <2>1. PICK k \in 1..Len(s) : k = (CHOOSE i \in DOMAIN s : s[i] = n) /\ s[k] = n
    BY SMT, <1>2 DEF Range
  <2> DEFINE r == SubSeq(s, 1, k - 1) \o SubSeq(s, k + 1, Len(s))
  <2>2. Unlink(s, n) = r
    BY <1>2, <2>1 DEF Unlink
  <2>l. Len(s) \in Nat /\ DOMAIN s = 1..Len(s) /\ s \in [1..Len(s) -> Nodes]
    BY SMT
  <2>n. Len(s) \in Nat
    BY SMT
  <2>k. k \in Nat /\ 1 <= k /\ k <= Len(s) /\ s[k] = n
    BY SMT, <2>1, <2>l
  <2>3. /\ r \in Seq(Nodes) /\ Len(r) = Len(s) - 1
        /\ \A i \in 1..(Len(s) - 1) : r[i] = IF i < k THEN s[i] ELSE s[i + 1]
    <3> DEFINE a == SubSeq(s, 1, k - 1)
               z == SubSeq(s, k + 1, Len(s))
    <3>1. /\ a \in Seq(Nodes) /\ Len(a) = k - 1
          /\ \A i \in 1..(k - 1) : a[i] = s[i]
      BY SMT, <2>k, <2>n, PartOf
    <3>2. /\ z \in Seq(Nodes) /\ Len(z) = Len(s) - k
          /\ \A i \in 1..(Len(s) - k) : z[i] = s[i + k]
      <4>1. k + 1 \in 1..(Len(s) + 1) /\ Len(s) \in (k + 1) - 1 .. Len(s)
        BY SMT, <2>k, <2>n
      <4>2. /\ z \in Seq(Nodes) /\ Len(z) = Len(s) - (k + 1) + 1
            /\ \A i \in 1..(Len(s) - (k + 1) + 1) : z[i] = s[i + (k + 1) - 1]
        BY <4>1, PartOf, SMTT(20)
      <4> HIDE DEF z
      <4> QED
        BY SMT, <2>k, <2>n, <4>2
    <3> HIDE DEF a, z
    <3>3. /\ a \o z \in Seq(Nodes) /\ Len(a \o z) = Len(a) + Len(z)
          /\ \A i \in 1..(Len(a) + Len(z)) :
               (a \o z)[i] = IF i <= Len(a) THEN a[i] ELSE z[i - Len(a)]
      BY <3>1, <3>2, ConcatProperties
    <3>4. r = a \o z
      BY DEF a, z
    <3> HIDE DEF r
    <3>5. r \in Seq(Nodes) /\ Len(r) = Len(s) - 1
      <4>1. r \in Seq(Nodes) /\ Len(r) = Len(a) + Len(z)
        BY <3>3, <3>4, Zenon
      <4>2. Len(a) + Len(z) = Len(s) - 1
        BY SMT, <2>k, <2>l, <3>1, <3>2
      <4> QED
        BY <4>1, <4>2, Zenon
    <3>6. ASSUME NEW i \in 1..(Len(s) - 1)
          PROVE  r[i] = IF i < k THEN s[i] ELSE s[i + 1]
      <4>1. CASE i < k
        <5>1. i \in 1..(Len(a) + Len(z)) /\ i <= Len(a) /\ i \in 1..(k - 1)
          BY SMT, <2>1, <2>l, <3>1, <3>2, <4>1
        <5> QED
          BY <3>1, <3>3, <3>4, <4>1, <5>1
      <4>2. CASE i >= k
        <5>1. /\ i \in 1..(Len(a) + Len(z)) /\ ~(i <= Len(a))
              /\ i - Len(a) \in 1..(Len(s) - k) /\ (i - Len(a)) + k = i + 1
          BY SMT, <2>1, <2>l, <3>1, <3>2, <4>2
        <5>2. r[i] = z[i - Len(a)]
          BY <3>3, <3>4, <5>1
        <5>3. z[i - Len(a)] = s[(i - Len(a)) + k]
          BY <3>2, <5>1
        <5> QED
          BY SMT, <2>1, <4>2, <5>1, <5>2, <5>3
      <4> QED
        BY SMT, <2>1, <4>1, <4>2
    <3> QED
      BY <3>5, <3>6
  <2> HIDE DEF r
  <2>4. DOMAIN r = 1..(Len(s) - 1)
    BY SMT, <2>3
  <2>5. Distinct(r)
    <3> SUFFICES ASSUME NEW i \in 1..(Len(s) - 1), NEW j \in 1..(Len(s) - 1), r[i] = r[j]
                 PROVE  i = j
      BY <2>4 DEF Distinct
    <3>1. \A p, q \in 1..Len(s) : s[p] = s[q] => p = q
      BY <2>l DEF Distinct
    <3>2. i \in 1..Len(s) /\ i + 1 \in 1..Len(s) /\ j \in 1..Len(s) /\ j + 1 \in 1..Len(s)
      BY SMT, <2>l
    <3>3. r[i] = (IF i < k THEN s[i] ELSE s[i + 1]) /\ r[j] = IF j < k THEN s[j] ELSE s[j + 1]
      BY <2>3
    <3>4. CASE i < k /\ j < k
      BY <3>1, <3>2, <3>3, <3>4
    <3>5. CASE i < k /\ ~(j < k)
      <4>1. i = j + 1
        BY <3>1, <3>2, <3>3, <3>5
      <4> QED
        BY SMT, <2>k, <3>2, <3>5, <4>1
    <3>6. CASE ~(i < k) /\ j < k
      <4>1. i + 1 = j
        BY <3>1, <3>2, <3>3, <3>6
      <4> QED
        BY SMT, <2>k, <3>2, <3>6, <4>1
    <3>7. CASE ~(i < k) /\ ~(j < k)
      <4>1. i + 1 = j + 1
        BY <3>1, <3>2, <3>3, <3>7
      <4> QED
        BY SMT, <4>1
    <3> QED
      BY <3>4, <3>5, <3>6, <3>7
  <2>6. ASSUME NEW x \in Range(r)
        PROVE  x \in Range(s) \ {n}
    <3>1. PICK i \in 1..(Len(s) - 1) : x = r[i]
      BY <2>4, <2>6 DEF Range
    <3>2. PICK j \in 1..Len(s) : x = s[j] /\ j # k
      <4>1. i \in 1..Len(s) /\ i + 1 \in 1..Len(s)
        BY SMT, <2>l
      <4>2. CASE i < k
        <5>1. i # k /\ x = s[i]
          BY SMT, <2>k, <2>3, <3>1, <4>2
        <5> QED
          BY <4>1, <5>1
      <4>3. CASE ~(i < k)
        <5>1. i + 1 # k
          BY SMT, <2>k, <4>3
        <5>2. x = s[i + 1]
          BY <2>3, <3>1, <4>3
        <5> QED
          BY <4>1, <5>1, <5>2
      <4> QED
        BY <4>2, <4>3
    <3> QED
      BY <2>1, <2>l, <3>2 DEF Range, Distinct
  <2>7. ASSUME NEW x \in Range(s) \ {n}
        PROVE  x \in Range(r)
    <3>1. PICK j \in 1..Len(s) : s[j] = x /\ j # k
      BY <2>1, <2>l, <2>7 DEF Range
    <3>2. CASE j < k
      BY SMT, <2>3, <2>4, <3>1, <3>2 DEF Range
    <3>3. CASE j > k
      <4>1. j - 1 \in 1..(Len(s) - 1) /\ r[j - 1] = s[j]
        <5>1. j - 1 \in 1..(Len(s) - 1) /\ ~(j - 1 < k) /\ (j - 1) + 1 = j
          BY SMT, <2>1, <2>l, <3>1, <3>3
        <5>2. r[j - 1] = s[(j - 1) + 1]
          BY <2>3, <5>1
        <5> QED
          BY <5>1, <5>2
      <4> QED
        BY <2>4, <3>1, <4>1 DEF Range
    <3> QED
      BY SMT, <2>1, <3>1, <3>2, <3>3
  <2> QED
    BY <2>2, <2>3, <2>5, <2>6, <2>7
<1> QED
  BY <1>1, <1>2

-----------------------------------------------------------------------------
(* The nodes on lists.                                                     *)
LinkedIn(wl, d, o) ==
  UNION ({Range(wl[c]) : c \in Conds} \cup {Range(d[t]) : t \in Threads} \cup {o})

(* A node is on a list if it is on one of the three kinds.                 *)
LEMMA LinkedInIff ==
  ASSUME NEW wl, NEW d, NEW o, NEW n
  PROVE  n \in LinkedIn(wl, d, o) <=> \/ \E c \in Conds : n \in Range(wl[c])
                                      \/ \E t \in Threads : n \in Range(d[t])
                                      \/ n \in o
<1> DEFINE A == {Range(wl[c]) : c \in Conds}
           B == {Range(d[t]) : t \in Threads}
<1>1. n \in UNION (A \cup B \cup {o}) <=> \E x \in A \cup B \cup {o} : n \in x
  OBVIOUS
<1>2. (\E x \in A : n \in x) <=> \E c \in Conds : n \in Range(wl[c])
  OBVIOUS
<1>3. (\E x \in B : n \in x) <=> \E t \in Threads : n \in Range(d[t])
  OBVIOUS
<1> QED
  BY <1>1, <1>2, <1>3 DEF LinkedIn

(* Linked, now and after a step, is LinkedIn.                              *)
LEMMA LinkedNow ==
  /\ \A n : n \in Linked <=> \/ \E c \in Conds : n \in Range(waitList[c])
                             \/ \E t \in Threads : n \in Range(detached[t])
                             \/ n \in orphans
  /\ \A n : n \in Linked' <=> \/ \E c \in Conds : n \in Range(waitList'[c])
                              \/ \E t \in Threads : n \in Range(detached'[t])
                              \/ n \in orphans'
<1>1. Linked = LinkedIn(waitList, detached, orphans)
  BY DEF Linked, LinkedIn
<1>2. Linked' = LinkedIn(waitList', detached', orphans')
  BY DEF Linked, LinkedIn
<1>3. \A n : n \in LinkedIn(waitList, detached, orphans) <=>
              \/ \E c \in Conds : n \in Range(waitList[c])
              \/ \E t \in Threads : n \in Range(detached[t])
              \/ n \in orphans
  BY LinkedInIff, Zenon
<1>4. \A n : n \in LinkedIn(waitList', detached', orphans') <=>
              \/ \E c \in Conds : n \in Range(waitList'[c])
              \/ \E t \in Threads : n \in Range(detached'[t])
              \/ n \in orphans'
  BY LinkedInIff, Zenon
<1> QED
  BY <1>1, <1>2, <1>3, <1>4, Zenon

(* Only nodes are linked.                                                  *)
LEMMA LinkedNodes == Types => Linked \subseteq Nodes
<1> SUFFICES ASSUME Types, NEW n \in Linked
             PROVE  n \in Nodes
  OBVIOUS
<1>1. \A s \in Seq(Nodes) : Range(s) \subseteq Nodes
  BY SMT DEF Range
<1>2. /\ \A c \in Conds : Range(waitList[c]) \subseteq Nodes
      /\ \A t \in Threads : Range(detached[t]) \subseteq Nodes
      /\ orphans \subseteq Nodes
  BY <1>1 DEF Types
<1> QED
  BY <1>2, LinkedNow

(* removeWait takes its node, and nothing else, off every list.            *)
Removed(n) ==
  /\ waitList' \in [Conds -> Seq(Nodes)]
  /\ detached' \in [Threads -> Seq(Nodes)]
  /\ orphans' \subseteq Nodes
  /\ ch' \in [Nodes -> Threads \cup {None}]
  /\ \A c \in Conds : Range(waitList'[c]) = Range(waitList[c]) \ {n}
  /\ \A t \in Threads : Range(detached'[t]) = Range(detached[t]) \ {n}
  /\ Linked' = Linked \ {n}
  /\ \A m \in Nodes : ch'[m] = IF m = n THEN None ELSE ch[m]
  /\ Lists'

(* removeWait takes its node off the list it is on, if any.                *)
LEMMA RemoveStep ==
  ASSUME IInv, NEW n, removeWait(n)
  PROVE  Removed(n)
<1>t. /\ waitList \in [Conds -> Seq(Nodes)] /\ detached \in [Threads -> Seq(Nodes)]
      /\ orphans \subseteq Nodes /\ ch \in [Nodes -> Threads \cup {None}]
  BY DEF IInv, Types
<1>l. Lists
  BY DEF IInv
<1>r. /\ waitList' = [c \in Conds |-> Unlink(waitList[c], n)]
      /\ detached' = [t \in Threads |-> Unlink(detached[t], n)]
      /\ orphans' = orphans \ {n}
      /\ ch' = IF n \in Linked THEN [ch EXCEPT ![n] = None] ELSE ch
  BY DEF removeWait, Set
<1>1. ASSUME NEW c \in Conds
      PROVE  /\ waitList'[c] \in Seq(Nodes) /\ Distinct(waitList'[c])
             /\ Range(waitList'[c]) = Range(waitList[c]) \ {n}
  <2>1. waitList[c] \in Seq(Nodes) /\ Distinct(waitList[c]) /\ waitList'[c] = Unlink(waitList[c], n)
    BY <1>t, <1>l, <1>r DEF Lists
  <2> QED
    BY <2>1, UnlinkNode, Zenon
<1>2. ASSUME NEW t \in Threads
      PROVE  /\ detached'[t] \in Seq(Nodes) /\ Distinct(detached'[t])
             /\ Range(detached'[t]) = Range(detached[t]) \ {n}
  <2>1. detached[t] \in Seq(Nodes) /\ Distinct(detached[t]) /\ detached'[t] = Unlink(detached[t], n)
    BY <1>t, <1>l, <1>r DEF Lists
  <2> QED
    BY <2>1, UnlinkNode, Zenon
<1>3. /\ waitList' \in [Conds -> Seq(Nodes)] /\ detached' \in [Threads -> Seq(Nodes)]
      /\ orphans' \subseteq Nodes
  BY <1>t, <1>r, <1>1, <1>2
<1>4. ASSUME NEW m
      PROVE  m \in Linked' <=> m \in Linked /\ m # n
  <2>1. /\ \A c \in Conds : m \in Range(waitList'[c]) <=> m \in Range(waitList[c]) /\ m # n
        /\ \A t \in Threads : m \in Range(detached'[t]) <=> m \in Range(detached[t]) /\ m # n
        /\ m \in orphans' <=> m \in orphans /\ m # n
    BY <1>r, <1>1, <1>2
  <2> QED
    BY <2>1, LinkedNow, Zenon
<1>5. Linked' = Linked \ {n}
  BY <1>4
<1>6. ch' \in [Nodes -> Threads \cup {None}]
  BY <1>t, <1>r
<1>7. \A m \in Nodes : ch'[m] = IF m = n THEN None ELSE ch[m]
  BY <1>t, <1>r DEF IInv, Live
<1>8. Lists'
  <2> HIDE DEF Lists
  <2>1. /\ \A c, d \in Conds : c # d => Range(waitList'[c]) \cap Range(waitList'[d]) = {}
        /\ \A c \in Conds, t \in Threads : Range(waitList'[c]) \cap Range(detached'[t]) = {}
        /\ \A t, u \in Threads : t # u => Range(detached'[t]) \cap Range(detached'[u]) = {}
    BY <1>l, <1>1, <1>2 DEF Lists
  <2> QED
    BY <1>1, <1>2, <2>1 DEF Lists
<1> QED
  BY <1>1, <1>2, <1>3, <1>5, <1>6, <1>7, <1>8 DEF Removed

(* pushWait puts a node of the pool on one list.                           *)
Pushed(c, t, n) ==
  /\ n \in Nodes /\ n \notin Linked
  /\ waitList' \in [Conds -> Seq(Nodes)]
  /\ ch' \in [Nodes -> Threads \cup {None}]
  /\ \A d \in Conds : Range(waitList'[d]) = Range(waitList[d]) \cup (IF d = c THEN {n} ELSE {})
  /\ Linked' = Linked \cup {n}
  /\ \A m \in Nodes : ch'[m] = IF m = n THEN t ELSE ch[m]
  /\ Lists'

(* The node pushWait gets from the pool was on no list.                    *)
LEMMA PushStep ==
  ASSUME IInv, NEW c \in Conds, NEW t \in Threads, NEW n, pushWait(c, t, n),
         UNCHANGED <<detached, orphans>>
  PROVE  Pushed(c, t, n)
<1>t. waitList \in [Conds -> Seq(Nodes)] /\ ch \in [Nodes -> Threads \cup {None}]
  BY DEF IInv, Types
<1>l. Lists
  BY DEF IInv
<1>r. /\ n \in Nodes /\ n \notin Linked
      /\ waitList' = [waitList EXCEPT ![c] = Append(waitList[c], n)]
      /\ ch' = [ch EXCEPT ![n] = t]
  BY DEF pushWait, Set
<1>n. /\ \A d \in Conds : n \notin Range(waitList[d])
      /\ \A u \in Threads : n \notin Range(detached[u])
  BY <1>r, LinkedNow
<1>1. /\ waitList'[c] \in Seq(Nodes) /\ Distinct(waitList'[c])
      /\ Range(waitList'[c]) = Range(waitList[c]) \cup {n}
  <2>1. waitList[c] \in Seq(Nodes) /\ Distinct(waitList[c]) /\ waitList'[c] = Append(waitList[c], n)
    BY <1>t, <1>l, <1>r DEF Lists
  <2> QED
    BY <1>r, <1>n, <2>1, AppendNode, Zenon
<1>2. \A d \in Conds : d # c => waitList'[d] = waitList[d]
  BY <1>t, <1>r
<1>3. waitList' \in [Conds -> Seq(Nodes)]
  BY <1>t, <1>r, <1>1
<1>4. ASSUME NEW m
      PROVE  m \in Linked' <=> m \in Linked \/ m = n
  BY <1>1, <1>2, LinkedNow
<1>5. Linked' = Linked \cup {n}
  BY <1>4
<1>6. ch' \in [Nodes -> Threads \cup {None}] /\ \A m \in Nodes : ch'[m] = IF m = n THEN t ELSE ch[m]
  BY <1>t, <1>r
<1>7. \A d \in Conds : Range(waitList'[d]) = Range(waitList[d]) \cup (IF d = c THEN {n} ELSE {})
  BY <1>1, <1>2
<1>8. Lists'
  <2>1. \A d \in Conds : Distinct(waitList'[d])
    BY <1>l, <1>1, <1>2 DEF Lists
  <2>2. /\ \A d, e \in Conds : d # e => Range(waitList'[d]) \cap Range(waitList'[e]) = {}
        /\ \A d \in Conds, u \in Threads : Range(waitList'[d]) \cap Range(detached[u]) = {}
    <3>1. \A d \in Conds : \A m :
            m \in Range(waitList'[d]) => m \in Range(waitList[d]) \/ (d = c /\ m = n)
      BY <1>7
    <3>2. \A d, e \in Conds : \A m : d # e => ~(m \in Range(waitList[d]) /\ m \in Range(waitList[e]))
      BY <1>l DEF Lists
    <3>3. \A d \in Conds, u \in Threads : \A m : ~(m \in Range(waitList[d]) /\ m \in Range(detached[u]))
      BY <1>l DEF Lists
    <3>n. \A d \in Conds : n \notin Range(waitList[d])
      BY <1>n, Zenon
    <3>4. ASSUME NEW d \in Conds, NEW e \in Conds, NEW m, d # e,
                 m \in Range(waitList'[d]), m \in Range(waitList'[e])
          PROVE  FALSE
      <4>1. m \in Range(waitList[d]) \/ (d = c /\ m = n)
        BY <3>1, <3>4, Zenon
      <4>2. m \in Range(waitList[e]) \/ (e = c /\ m = n)
        BY <3>1, <3>4, Zenon
      <4> QED
        BY <3>n, <3>2, <3>4, <4>1, <4>2, Zenon
    <3>5. \A d \in Conds, u \in Threads : \A m : ~(m \in Range(waitList'[d]) /\ m \in Range(detached[u]))
      BY <1>n, <3>1, <3>3, Zenon
    <3> QED
      BY <3>4, <3>5
  <2> QED
    BY <1>l, <2>1, <2>2 DEF Lists
<1> QED
  BY <1>r, <1>3, <1>5, <1>6, <1>7, <1>8 DEF Pushed

-----------------------------------------------------------------------------
(* A new condition variable has no node and no waiter.                     *)
LEMMA InitIInv == Init => IInv
<1> SUFFICES ASSUME Init
             PROVE  IInv
  OBVIOUS
<1>1. Types
  <2>1. waitList \in [Conds -> Seq(Nodes)] /\ detached \in [Threads -> Seq(Nodes)]
    BY SMT DEF Init
  <2>2. pc \in [Threads -> PCs] /\ got \in [Threads -> Channels]
    BY DEF Init, PCs, Channels
  <2>3. open \in [Threads -> BOOLEAN] /\ panicked \in BOOLEAN
    BY DEF Init
  <2> QED
    BY <2>1, <2>2, <2>3 DEF Init, Types
<1>2. Range(<<>>) = {} /\ Distinct(<<>>)
  BY SMT DEF Range, Distinct
<1>3. Lists
  BY <1>2 DEF Init, Lists
<1>4. \A n : n \notin Linked
  BY <1>2, LinkedNow DEF Init
<1>5. Live
  BY <1>4 DEF Init, Live
<1>6. Owned /\ Untimed
  BY <1>4, CondImplAssumption DEF Init, Owned, Untimed
<1> QED
  BY <1>1, <1>3, <1>5, <1>6 DEF IInv

(* A wait: t had no node and no channel that anybody knew.                 *)
LEMMA WaitStep ==
  ASSUME IInv, UNCHANGED timed, NEW c \in Conds, NEW t \in Threads, NEW l \in {"wait", "timedWait"},
         Wait(c, t, l), l = "timedWait" => timed # {}
  PROVE  IInv'
<1>t. Types
  BY DEF IInv
<1>1. PICK n \in Nodes : /\ pushWait(c, t, n)
                        /\ node' = [node EXCEPT ![t] = IF l = "timedWait" THEN n ELSE None]
  BY DEF Wait, Set
<1>2. /\ pc[t] = "idle" /\ pc' = [pc EXCEPT ![t] = l]
      /\ open' = [open EXCEPT ![t] = TRUE] /\ waitsOn' = [waitsOn EXCEPT ![t] = c]
      /\ UNCHANGED <<detached, orphans, got, panicked>>
  BY DEF Wait, Set
<1>3. Pushed(c, t, n)
  BY <1>1, <1>2, PushStep
<1>4. Types'
  BY <1>t, <1>1, <1>2, <1>3 DEF Types, Pushed, PCs
<1>5. \A m \in Linked : ch[m] \in Threads /\ ch[m] # t /\ m \in Nodes /\ m # n
  <2>1. \A m \in Linked : ch[m] \in Threads /\ Waits(pc[ch[m]])
    BY DEF IInv, Live
  <2> QED
    BY <1>t, <1>2, <1>3, <2>1, LinkedNodes DEF Waits, Pushed
<1>6. /\ \A m \in Linked : m \in Linked' /\ ch'[m] = ch[m]
      /\ n \in Linked' /\ ch'[n] = t
      /\ \A m \in Linked' : m = n \/ m \in Linked
  BY <1>3, <1>5 DEF Pushed
<1>7. \A u \in Threads : u # t => pc'[u] = pc[u] /\ open'[u] = open[u] /\ node'[u] = node[u]
  BY <1>t, <1>1, <1>2 DEF Types
<1>8. pc'[t] = l /\ open'[t] = TRUE /\ (l = "timedWait" => node'[t] = n)
  BY <1>t, <1>1, <1>2 DEF Types
<1>9. Live'
  <2>1. \A m \in Nodes : ch'[m] = None <=> m \notin Linked'
    BY <1>3, CondImplAssumption DEF IInv, Live, Pushed
  <2>2. \A m \in Linked' : ch'[m] \in Threads /\ Waits(pc'[ch'[m]]) /\ open'[ch'[m]]
    BY SMT, <1>5, <1>6, <1>7, <1>8 DEF IInv, Live, Waits
  <2>3. \A m, k \in Linked' : ch'[m] = ch'[k] => m = k
    BY <1>5, <1>6 DEF IInv, Live
  <2> QED
    BY <2>1, <2>2, <2>3 DEF Live, Waits
<1>10. \A u \in Threads : got'[u] = got[u] /\ got[u] # t
  BY <1>2 DEF IInv, Owned, Waits
<1>11. got[t] = None
  BY <1>2 DEF IInv, Owned
<1>12. Owned'
  <2>1. \A m \in Linked' : pc'[ch'[m]] = "timedWait" => node'[ch'[m]] = m
    BY SMT, <1>5, <1>6, <1>7, <1>8 DEF IInv, Owned
  <2>2. \A u \in Threads, m \in Linked' : got'[u] = ch'[m] => node'[u] = m
    BY SMT, <1>5, <1>6, <1>7, <1>10, <1>11, CondImplAssumption DEF IInv, Owned
  <2>3. \A u \in Threads : got'[u] \in Threads => Waits(pc'[got'[u]])
    BY <1>7, <1>10 DEF IInv, Owned
  <2>4. \A u \in Threads : got'[u] # None => pc'[u] = "unlink"
    BY <1>7, <1>10, <1>11 DEF IInv, Owned
  <2>5. \A u \in Threads : pc'[u] \in {"read", "unlink"} => node'[u] \in Nodes
    BY <1>7, <1>8 DEF IInv, Owned
  <2> QED
    BY <2>1, <2>2, <2>3, <2>4, <2>5 DEF Owned, Waits
<1>13. Untimed'
  <2>1. ASSUME timed = {}, NEW u \in Threads
        PROVE  /\ pc'[u] # "timedWait"
               /\ pc'[u] \in {"read", "unlink"} => node'[u] \in Range(detached'[u])
    <3>1. l = "wait"
      BY <2>1
    <3> QED
      BY <1>2, <1>7, <1>8, <2>1, <3>1 DEF IInv, Untimed
  <2> QED
    BY <2>1 DEF Untimed
<1> QED
  BY <1>3, <1>4, <1>9, <1>12, <1>13 DEF IInv, Pushed

(* A wait that ends: no linked node has its channel any more.              *)
LEMMA LeaveStep ==
  ASSUME IInv, UNCHANGED timed, NEW t \in Threads, Woken(t) \/ Expired(t)
  PROVE  IInv'
<1>t. Types
  BY DEF IInv
<1>1. /\ Waits(pc[t]) /\ pc' = [pc EXCEPT ![t] = "idle"] /\ open' = [open EXCEPT ![t] = FALSE]
      /\ waitsOn' = [waitsOn EXCEPT ![t] = None] /\ node' = [node EXCEPT ![t] = None]
      /\ got' = [u \in Threads |-> IF got[u] # t THEN got[u]
                                   ELSE IF open[t] THEN "leftOpen" ELSE "leftClosed"]
      /\ panicked' = panicked
  BY DEF Woken, Expired, LeaveWait, Set, Waits
<1>n. /\ None \notin Threads /\ "leftOpen" \notin Threads /\ "leftClosed" \notin Threads
      /\ None # "leftOpen" /\ None # "leftClosed"
      /\ "leftOpen" \in Channels /\ "leftClosed" \in Channels
  BY CondImplAssumption DEF Left, Channels
<1>2. /\ waitList' \in [Conds -> Seq(Nodes)] /\ detached' \in [Threads -> Seq(Nodes)]
      /\ orphans' \subseteq Nodes /\ ch' \in [Nodes -> Threads \cup {None}] /\ Lists'
      /\ \A m \in Linked' : m \in Linked /\ ch'[m] = ch[m] /\ ch[m] # t
      /\ \A m \in Nodes : ch'[m] = None <=> m \notin Linked'
  <2>1. CASE Woken(t)
    <3>1. UNCHANGED <<waitList, detached, orphans, ch>> /\ ~open[t]
      BY <2>1 DEF Woken
    <3>2. Linked' = Linked /\ Lists'
      BY <3>1 DEF Linked, Lists, IInv
    <3> QED
      BY <1>t, <3>1, <3>2 DEF Types, IInv, Live
  <2>2. CASE Expired(t)
    <3>1. Removed(node[t]) /\ pc[t] = "timedWait"
      BY <2>2, RemoveStep DEF Expired
    <3>2. \A m \in Linked' : m \in Linked /\ m \in Nodes /\ m # node[t]
      BY <1>t, <3>1, LinkedNodes DEF Removed
    <3>3. \A m \in Linked' : ch'[m] = ch[m] /\ ch[m] # t
      BY <3>1, <3>2 DEF Removed, IInv, Owned
    <3>4. \A m \in Nodes : ch'[m] = None <=> m \notin Linked'
      BY <3>1 DEF Removed, IInv, Live
    <3> QED
      BY <3>1, <3>2, <3>3, <3>4 DEF Removed
  <2> QED
    BY <2>1, <2>2
<1>3. Types'
  <2>1. got' \in [Threads -> Channels]
    BY <1>t, <1>1, <1>n DEF Types
  <2> QED
    BY <1>t, <1>1, <1>2, <2>1 DEF Types, PCs
<1>4. \A u \in Threads : u # t => pc'[u] = pc[u] /\ open'[u] = open[u] /\ node'[u] = node[u]
  BY <1>t, <1>1 DEF Types
<1>5. pc'[t] = "idle" /\ got[t] = None
  BY <1>t, <1>1 DEF Types, IInv, Owned, Waits
<1>6. \A u \in Threads : /\ got'[u] \in Threads => got'[u] = got[u] /\ got'[u] # t
                         /\ got'[u] # None => got[u] # None
  BY <1>1, <1>n
<1>7. Live'
  <2>1. \A m \in Linked' : ch'[m] \in Threads /\ Waits(pc'[ch'[m]]) /\ open'[ch'[m]]
    BY <1>2, <1>4 DEF IInv, Live
  <2>2. \A m, k \in Linked' : ch'[m] = ch'[k] => m = k
    BY <1>2 DEF IInv, Live
  <2> QED
    BY <1>2, <2>1, <2>2 DEF Live, Waits
<1>8. Owned'
  <2>l. \A m \in Linked' : m \in Linked /\ ch'[m] = ch[m] /\ ch[m] # t /\ ch[m] \in Threads
    BY <1>2 DEF IInv, Live
  <2>1. \A m \in Linked' : pc'[ch'[m]] = "timedWait" => node'[ch'[m]] = m
    BY SMT, <1>4, <2>l DEF IInv, Owned
  <2>2. \A u \in Threads, m \in Linked' : got'[u] = ch'[m] => node'[u] = m
    BY SMT, <1>4, <1>5, <1>6, <1>n, <2>l DEF IInv, Owned
  <2>3. \A u \in Threads : got'[u] \in Threads => Waits(pc'[got'[u]])
    BY <1>4, <1>6 DEF IInv, Owned
  <2>4. \A u \in Threads : got'[u] # None => pc'[u] = "unlink"
    BY <1>4, <1>5, <1>6 DEF IInv, Owned
  <2>5. \A u \in Threads : pc'[u] \in {"read", "unlink"} => node'[u] \in Nodes
    BY <1>4, <1>5 DEF IInv, Owned
  <2> QED
    BY <2>1, <2>2, <2>3, <2>4, <2>5 DEF Owned, Waits
<1>9. Untimed'
  <2>1. ASSUME timed = {}, NEW u \in Threads
        PROVE  /\ pc'[u] # "timedWait"
               /\ pc'[u] \in {"read", "unlink"} => node'[u] \in Range(detached'[u])
    <3>1. ~Expired(t)
      BY <2>1 DEF Expired, IInv, Untimed
    <3>2. detached' = detached
      BY <3>1 DEF Woken
    <3> QED
      BY <1>4, <1>5, <2>1, <3>2 DEF IInv, Untimed
  <2> QED
    BY <2>1 DEF Untimed
<1> QED
  BY <1>2, <1>3, <1>7, <1>8, <1>9 DEF IInv

(* A channel is closed and its node, the only one, removed.                *)
LEMMA CloseLive ==
  ASSUME IInv, NEW n, NEW x, Removed(n), CloseChan(x),
         \A m \in Linked : ch[m] = x => m = n,
         \A u \in Threads : Waits(pc[u]) => pc'[u] = pc[u]
  PROVE  /\ Live' /\ open' \in [Threads -> BOOLEAN] /\ panicked' \in BOOLEAN
         /\ \A m \in Linked' : /\ m \in Linked /\ m # n /\ ch'[m] = ch[m] /\ ch[m] \in Threads
                               /\ Waits(pc[ch[m]])
<1>t. Types
  BY DEF IInv
<1>1. open' = (IF x \in Threads THEN [open EXCEPT ![x] = FALSE] ELSE open) /\ panicked' = IsClosed(x)
  BY DEF CloseChan, Set
<1>2. open' \in [Threads -> BOOLEAN] /\ \A u \in Threads : u # x => open'[u] = open[u]
  BY <1>t, <1>1 DEF Types
<1>3. panicked' \in BOOLEAN
  BY <1>1 DEF IsClosed
<1>4. \A m \in Linked' : m \in Linked /\ m \in Nodes /\ m # n
  BY <1>t, LinkedNodes DEF Removed
<1>5. \A m \in Linked' : /\ ch'[m] = ch[m] /\ ch[m] # x /\ ch[m] \in Threads
                         /\ Waits(pc[ch[m]]) /\ open[ch[m]]
  BY <1>4 DEF Removed, IInv, Live
<1>6. \A m \in Nodes : ch'[m] = None <=> m \notin Linked'
  BY DEF Removed, IInv, Live
<1>7. \A m \in Linked' : ch'[m] \in Threads /\ Waits(pc'[ch'[m]]) /\ open'[ch'[m]]
  BY SMT, <1>2, <1>5
<1>8. \A m, k \in Linked' : ch'[m] = ch'[k] => m = k
  BY SMT, <1>4, <1>5 DEF IInv, Live
<1>9. Live'
  BY <1>6, <1>7, <1>8 DEF Live, Waits
<1> QED
  BY <1>2, <1>3, <1>4, <1>5, <1>9

(* A call that finds nothing to do.                                        *)
LEMMA Stutter ==
  ASSUME IInv, UNCHANGED vars
  PROVE  IInv'
<1>1. Linked' = Linked
  BY DEF Linked, vars
<1>2. Types'
  BY DEF vars, IInv, Types
<1>3. Lists'
  BY DEF vars, IInv, Lists
<1>4. Live /\ Owned /\ Untimed
  BY DEF IInv
<1>5. Live'
  BY <1>1, <1>4 DEF vars, Live
<1>6. Owned' /\ Untimed'
  BY <1>1, <1>4 DEF vars, Owned, Untimed
<1> QED
  BY <1>2, <1>3, <1>5, <1>6 DEF IInv

(* signal.                                                                 *)
LEMMA SignalStep ==
  ASSUME IInv, UNCHANGED timed, NEW c \in Conds, NEW t \in Threads, signal(c, t)
  PROVE  IInv'
<1>t. Types
  BY DEF IInv
<1>1. UNCHANGED <<pc, waitsOn, node, got>>
  BY DEF signal
<1>2. CASE waitList[c] = <<>>
  <2>1. UNCHANGED vars
    BY <1>1, <1>2 DEF signal, vars
  <2> QED
    BY <2>1, Stutter
<1>3. CASE waitList[c] # <<>>
  <2> DEFINE h == Head(waitList[c])
  <2>1. CloseChan(ch[h]) /\ removeWait(h)
    BY <1>3 DEF signal
  <2>2. h \in Range(waitList[c])
    BY SMT, <1>t, <1>3 DEF Types, Range
  <2> HIDE DEF h
  <2>3. h \in Linked
    BY <2>2, LinkedNow
  <2>4. Removed(h)
    BY <2>1, RemoveStep
  <2>5. \A m \in Linked : ch[m] = ch[h] => m = h
    BY <2>3 DEF IInv, Live
  <2>6. /\ Live' /\ open' \in [Threads -> BOOLEAN] /\ panicked' \in BOOLEAN
        /\ \A m \in Linked' : m \in Linked /\ m # h /\ ch'[m] = ch[m]
    BY <1>1, <2>1, <2>4, <2>5, CloseLive
  <2>7. Types'
    BY <1>t, <1>1, <2>4, <2>6 DEF Types, Removed
  <2>8. Owned'
    <3>1. \A m \in Linked' : pc[ch'[m]] = "timedWait" => node[ch'[m]] = m
      BY <2>6 DEF IInv, Owned
    <3>2. \A u \in Threads, m \in Linked' : got[u] = ch'[m] => node[u] = m
      BY SMT, <2>6 DEF IInv, Owned
    <3>3. /\ \A u \in Threads : got[u] \in Threads => Waits(pc[got[u]])
          /\ \A u \in Threads : got[u] # None => pc[u] = "unlink"
          /\ \A u \in Threads : pc[u] \in {"read", "unlink"} => node[u] \in Nodes
      BY DEF IInv, Owned
    <3> QED
      BY <1>1, <3>1, <3>2, <3>3 DEF Owned, Waits
  <2>9. Untimed'
    <3>1. ASSUME timed = {}, NEW u \in Threads, pc[u] \in {"read", "unlink"}
          PROVE  node[u] \in Range(detached'[u])
      <4>1. node[u] \in Range(detached[u])
        BY <3>1 DEF IInv, Untimed
      <4>2. node[u] # h
        BY <2>2, <4>1 DEF IInv, Lists
      <4> QED
        BY <2>4, <4>1, <4>2 DEF Removed
    <3> QED
      BY <1>1, <3>1 DEF IInv, Untimed
  <2> QED
    BY <2>4, <2>6, <2>7, <2>8, <2>9 DEF IInv, Removed
<1> QED
  BY <1>2, <1>3

(* The last part of popWait, and the close of what it returns.             *)
LEMMA PopUnlinkStep ==
  ASSUME IInv, UNCHANGED timed, NEW t \in Threads, PopUnlink(t)
  PROVE  IInv'
<1>t. Types
  BY DEF IInv
<1>1. /\ pc[t] = "unlink" /\ removeWait(node[t]) /\ CloseChan(got[t])
      /\ pc' = [pc EXCEPT ![t] = IF got[t] = None THEN "idle" ELSE "pop"]
      /\ node' = [node EXCEPT ![t] = None] /\ got' = [got EXCEPT ![t] = None] /\ waitsOn' = waitsOn
  BY DEF PopUnlink, Set
<1>2. Removed(node[t])
  BY <1>1, RemoveStep
<1>3. /\ \A u \in Threads : u # t => pc'[u] = pc[u] /\ node'[u] = node[u] /\ got'[u] = got[u]
      /\ pc'[t] \in {"idle", "pop"} /\ got'[t] = None
  BY <1>t, <1>1 DEF Types
<1>4. \A u \in Threads : Waits(pc[u]) => pc'[u] = pc[u] /\ u # t
  BY <1>1, <1>3 DEF Waits
<1>5. \A m \in Linked : ch[m] = got[t] => m = node[t]
  BY DEF IInv, Owned
<1>6. /\ Live' /\ open' \in [Threads -> BOOLEAN] /\ panicked' \in BOOLEAN
      /\ \A m \in Linked' : /\ m \in Linked /\ m # node[t] /\ ch'[m] = ch[m] /\ ch[m] \in Threads
                            /\ Waits(pc[ch[m]])
  BY <1>1, <1>2, <1>4, <1>5, CloseLive
<1>7. Types'
  <2>1. /\ pc' \in [Threads -> PCs] /\ node' \in [Threads -> Nodes \cup {None}]
        /\ got' \in [Threads -> Channels]
    BY <1>t, <1>1 DEF Types, PCs, Channels
  <2> QED
    BY <1>t, <1>1, <1>2, <1>6, <2>1 DEF Types, Removed
<1>8. Owned'
  <2>1. \A m \in Linked' : pc'[ch'[m]] = "timedWait" => node'[ch'[m]] = m
    BY SMT, <1>3, <1>4, <1>6 DEF IInv, Owned
  <2>o. \A u \in Threads, m \in Linked : got[u] = ch[m] => node[u] = m
    BY DEF IInv, Owned
  <2>2. ASSUME NEW u \in Threads, NEW m \in Linked', got'[u] = ch'[m]
        PROVE  node'[u] = m
    <3>1. m \in Linked /\ ch'[m] \in Threads /\ ch'[m] = ch[m]
      BY <1>6
    <3>2. u # t
      BY <1>3, <2>2, <3>1, CondImplAssumption
    <3> QED
      BY <1>3, <2>o, <2>2, <3>1, <3>2
  <2>3. \A u \in Threads : got'[u] \in Threads => Waits(pc'[got'[u]])
    BY <1>3, <1>4, CondImplAssumption DEF IInv, Owned
  <2>4. \A u \in Threads : got'[u] # None => pc'[u] = "unlink"
    BY <1>3 DEF IInv, Owned
  <2>5. \A u \in Threads : pc'[u] \in {"read", "unlink"} => node'[u] \in Nodes
    BY <1>3 DEF IInv, Owned
  <2> QED
    BY <2>1, <2>2, <2>3, <2>4, <2>5 DEF Owned, Waits
<1>9. Untimed'
  <2>1. ASSUME timed = {}, NEW u \in Threads
        PROVE  /\ pc'[u] # "timedWait"
               /\ pc'[u] \in {"read", "unlink"} => node'[u] \in Range(detached'[u])
    <3>1. CASE u = t
      BY <1>3, <3>1
    <3>2. CASE u # t
      <4>1. /\ pc[u] # "timedWait" /\ node[t] \in Range(detached[t])
            /\ pc[u] \in {"read", "unlink"} => node[u] \in Range(detached[u])
        BY <1>1, <2>1 DEF IInv, Untimed
      <4>2. node[u] \in Range(detached[u]) => node[u] # node[t]
        BY <3>2, <4>1 DEF IInv, Lists
      <4> QED
        BY <1>2, <1>3, <3>2, <4>1, <4>2 DEF Removed
    <3> QED
      BY <3>1, <3>2
  <2> QED
    BY <2>1 DEF Untimed
<1> QED
  BY <1>2, <1>6, <1>7, <1>8, <1>9 DEF IInv, Removed

(* broadcast moves lists, and links and unlinks nothing.                   *)
LEMMA BroadcastStep ==
  ASSUME IInv, UNCHANGED timed, NEW c \in Conds, NEW t \in Threads, broadcast(c, t)
  PROVE  IInv'
<1>t. Types
  BY DEF IInv
<1>1. /\ pc[t] = "idle" /\ pc' = [pc EXCEPT ![t] = "pop"]
      /\ detached' = [detached EXCEPT ![t] = waitList[c]]
      /\ orphans' = orphans \cup Range(detached[t])
      /\ waitList' = [waitList EXCEPT ![c] = <<>>]
      /\ UNCHANGED <<ch, open, waitsOn, node, got, panicked>>
  BY DEF broadcast, Set
<1>2. waitList[c] \in Seq(Nodes) /\ detached[t] \in Seq(Nodes) /\ <<>> \in Seq(Nodes)
  BY SMT, <1>t DEF Types
<1>3. Range(<<>>) = {} /\ Distinct(<<>>) /\ Range(detached[t]) \subseteq Nodes
  BY SMT, <1>2 DEF Range, Distinct
<1>4. /\ waitList'[c] = <<>> /\ detached'[t] = waitList[c]
      /\ \A d \in Conds : d # c => waitList'[d] = waitList[d]
      /\ \A u \in Threads : u # t => detached'[u] = detached[u]
  BY <1>t, <1>1 DEF Types
<1>5. Types'
  BY <1>t, <1>1, <1>2, <1>3 DEF Types, PCs
<1>6. ASSUME NEW m
      PROVE  m \in Linked' <=> m \in Linked
  <2>1. CASE m \in Range(waitList[c])
    <3>1. m \in Range(detached'[t])
      BY <1>4, <2>1
    <3> QED
      BY <2>1, <3>1, LinkedNow
  <2>2. CASE m \in Range(detached[t])
    <3>1. m \in orphans'
      BY <1>1, <2>2
    <3> QED
      BY <2>2, <3>1, LinkedNow
  <2>3. CASE m \notin Range(waitList[c]) /\ m \notin Range(detached[t])
    <3>1. /\ \A d \in Conds : m \in Range(waitList'[d]) <=> m \in Range(waitList[d])
          /\ \A u \in Threads : m \in Range(detached'[u]) <=> m \in Range(detached[u])
          /\ m \in orphans' <=> m \in orphans
      BY <1>1, <1>3, <1>4, <2>3
    <3> QED
      BY <3>1, LinkedNow
  <2> QED
    BY <2>1, <2>2, <2>3
<1>7. Linked' = Linked
  BY <1>6
<1>8. Lists'
  <2>1. /\ \A d \in Conds : Distinct(waitList'[d])
        /\ \A u \in Threads : Distinct(detached'[u])
    BY <1>3, <1>4 DEF IInv, Lists
  <2>l. /\ \A d, e \in Conds : d # e => Range(waitList[d]) \cap Range(waitList[e]) = {}
        /\ \A d \in Conds, u \in Threads : Range(waitList[d]) \cap Range(detached[u]) = {}
    BY DEF IInv, Lists
  <2>w. \A d \in Conds : \A m : m \in Range(waitList'[d]) => d # c /\ m \in Range(waitList[d])
    BY <1>3, <1>4
  <2>2. ASSUME NEW d \in Conds, NEW e \in Conds, d # e, NEW m,
               m \in Range(waitList'[d]), m \in Range(waitList'[e])
        PROVE  FALSE
    BY <2>l, <2>w, <2>2
  <2>3. ASSUME NEW d \in Conds, NEW u \in Threads, NEW m,
               m \in Range(waitList'[d]), m \in Range(detached'[u])
        PROVE  FALSE
    <3>1. d # c /\ m \in Range(waitList[d])
      BY <2>w, <2>3
    <3>2. CASE u = t
      BY <1>4, <2>l, <2>3, <3>1, <3>2
    <3>3. CASE u # t
      BY <1>4, <2>l, <2>3, <3>1, <3>3
    <3> QED
      BY <3>2, <3>3
  <2>4. \A u, v \in Threads : u # v => Range(detached'[u]) \cap Range(detached'[v]) = {}
    BY SMT, <1>4 DEF IInv, Lists
  <2> QED
    BY <2>1, <2>2, <2>3, <2>4 DEF Lists
<1>9. /\ \A u \in Threads : u # t => pc'[u] = pc[u]
      /\ pc'[t] = "pop"
  BY <1>t, <1>1 DEF Types
<1>10. Live'
  <2>1. Live
    BY DEF IInv
  <2> QED
    BY SMT, <1>1, <1>7, <1>9, <2>1 DEF Live, Waits
<1>11. Owned'
  <2>1. \A m \in Linked : ch[m] \in Threads /\ ch[m] # t
    BY <1>1 DEF IInv, Live, Waits
  <2>2. \A m \in Linked : pc'[ch[m]] = "timedWait" => node[ch[m]] = m
    BY SMT, <1>9, <2>1 DEF IInv, Owned
  <2>3. \A u \in Threads, m \in Linked : got[u] = ch[m] => node[u] = m
    BY DEF IInv, Owned
  <2>4. \A u \in Threads : got[u] \in Threads => Waits(pc'[got[u]])
    <3>1. \A u \in Threads : got[u] \in Threads => Waits(pc[got[u]]) /\ got[u] # t
      BY <1>1 DEF IInv, Owned, Waits
    <3> QED
      BY <1>9, <3>1
  <2>5. \A u \in Threads : got[u] # None => pc'[u] = "unlink"
    BY <1>1, <1>9 DEF IInv, Owned
  <2>6. \A u \in Threads : pc'[u] \in {"read", "unlink"} => node[u] \in Nodes
    BY <1>9 DEF IInv, Owned
  <2> QED
    BY <1>1, <1>7, <2>2, <2>3, <2>4, <2>5, <2>6 DEF Owned, Waits
<1>12. Untimed'
  BY <1>1, <1>4, <1>9 DEF IInv, Untimed
<1> QED
  BY <1>5, <1>8, <1>10, <1>11, <1>12 DEF IInv

(* The first two parts of popWait only read.                               *)
LEMMA PopStep ==
  ASSUME IInv, UNCHANGED timed, NEW t \in Threads, PopFirst(t) \/ PopRead(t)
  PROVE  IInv'
<1>t. Types
  BY DEF IInv
<1>1. UNCHANGED <<waitList, detached, orphans, ch, open, waitsOn, panicked>> /\ pc[t] \in {"pop", "read"}
  BY DEF PopFirst, PopRead
<1>2. Linked' = Linked /\ Lists'
  BY <1>1 DEF Linked, Lists, IInv
<1>3. CASE PopFirst(t)
  <2>1. PICK l \in {"idle", "read"} : pc' = [pc EXCEPT ![t] = l]
    BY <1>3 DEF PopFirst, Set
  <2>2. /\ got' = got
        /\ l = "read" => node' = [node EXCEPT ![t] = Head(detached[t])] /\ detached[t] # <<>>
        /\ l = "idle" => node' = node
    <3>1. pc'[t] = l
      BY <1>t, <2>1 DEF Types
    <3>2. \/ pc' = [pc EXCEPT ![t] = "idle"] /\ node' = node
          \/ /\ pc' = [pc EXCEPT ![t] = "read"] /\ node' = [node EXCEPT ![t] = Head(detached[t])]
             /\ detached[t] # <<>>
      BY <1>3 DEF PopFirst, Set
    <3>3. got' = got
      BY <1>3 DEF PopFirst
    <3> QED
      BY <1>t, <3>1, <3>2, <3>3 DEF Types
  <2>3. detached[t] # <<>> => Head(detached[t]) \in Nodes /\ Head(detached[t]) \in Range(detached[t])
    BY SMT, <1>t DEF Types, Range
  <2>4. /\ \A u \in Threads : u # t => pc'[u] = pc[u] /\ node'[u] = node[u]
        /\ pc'[t] = l /\ (l = "read" => node'[t] \in Nodes /\ node'[t] \in Range(detached[t]))
    BY <1>t, <2>1, <2>2, <2>3 DEF Types
  <2>5. Types'
    BY <1>t, <1>1, <2>1, <2>2, <2>3 DEF Types, PCs
  <2>6. \A m \in Linked : ch[m] \in Threads /\ ch[m] # t
    BY <1>1 DEF IInv, Live, Waits
  <2>7. got[t] = None /\ \A u \in Threads : got[u] # t
    BY <1>1 DEF IInv, Owned, Waits
  <2>8. Live'
    BY <1>1, <1>2, <2>4, <2>6 DEF IInv, Live, Waits
  <2>9. Owned'
    <3>o. /\ \A m \in Linked : pc[ch[m]] = "timedWait" => node[ch[m]] = m
          /\ \A u \in Threads, m \in Linked : got[u] = ch[m] => node[u] = m
      BY DEF IInv, Owned
    <3>1. \A m \in Linked : pc'[ch[m]] = "timedWait" => node'[ch[m]] = m
      BY <2>4, <2>6, <3>o
    <3>2. \A u \in Threads, m \in Linked : got[u] = ch[m] => node'[u] = m
      <4>1. \A m \in Linked : got[t] # ch[m]
        BY <2>6, <2>7, CondImplAssumption
      <4> QED
        BY <2>4, <3>o, <4>1
    <3>3. \A u \in Threads : got[u] \in Threads => Waits(pc'[got[u]])
      BY <2>4, <2>7 DEF IInv, Owned
    <3>4. \A u \in Threads : got[u] # None => pc'[u] = "unlink"
      BY <2>4, <2>7 DEF IInv, Owned
    <3>5. \A u \in Threads : pc'[u] \in {"read", "unlink"} => node'[u] \in Nodes
      BY <2>4 DEF IInv, Owned
    <3> QED
      BY <1>1, <1>2, <2>2, <3>1, <3>2, <3>3, <3>4, <3>5 DEF Owned, Waits
  <2>10. Untimed'
    BY <1>1, <2>4 DEF IInv, Untimed
  <2> QED
    BY <1>2, <2>5, <2>8, <2>9, <2>10 DEF IInv
<1>4. CASE PopRead(t)
  <2>1. /\ pc[t] = "read" /\ pc' = [pc EXCEPT ![t] = "unlink"] /\ got' = [got EXCEPT ![t] = ch[node[t]]]
        /\ node' = node
    BY <1>4 DEF PopRead, Set
  <2>2. node[t] \in Nodes /\ ch[node[t]] \in Threads \cup {None}
    BY <1>t, <2>1 DEF IInv, Owned, Types
  <2>3. /\ \A u \in Threads : u # t => pc'[u] = pc[u] /\ got'[u] = got[u]
        /\ pc'[t] = "unlink" /\ got'[t] = ch[node[t]]
    BY <1>t, <2>1 DEF Types
  <2>4. Types'
    <3>1. pc' \in [Threads -> PCs] /\ got' \in [Threads -> Channels]
      BY <1>t, <2>1, <2>2 DEF Types, PCs, Channels
    <3> QED
      BY <1>t, <1>1, <2>1, <3>1 DEF Types
  <2>5. ch[node[t]] # None => node[t] \in Linked
    BY <2>2 DEF IInv, Live
  <2>6. \A m \in Linked : ch[m] \in Threads /\ ch[m] # t /\ Waits(pc[ch[m]])
    BY <2>1 DEF IInv, Live, Waits
  <2>7. \A m \in Linked : ch[m] = ch[node[t]] => m = node[t]
    BY <2>5, <2>6, CondImplAssumption DEF IInv, Live
  <2>8. Live'
    BY <1>1, <1>2, <2>3, <2>6 DEF IInv, Live, Waits
  <2>9. Owned'
    <3>o. /\ \A m \in Linked : pc[ch[m]] = "timedWait" => node[ch[m]] = m
          /\ \A u \in Threads, m \in Linked : got[u] = ch[m] => node[u] = m
      BY DEF IInv, Owned
    <3>1. \A m \in Linked : pc'[ch[m]] = "timedWait" => node[ch[m]] = m
      BY <2>3, <2>6, <3>o
    <3>2. \A u \in Threads, m \in Linked : got'[u] = ch[m] => node[u] = m
      BY SMT, <2>3, <2>7, <3>o
    <3>3. \A u \in Threads : got'[u] \in Threads => Waits(pc'[got'[u]])
      <4>1. \A u \in Threads : got'[u] \in Threads => Waits(pc[got'[u]])
        BY SMT, <2>3, <2>5, <2>6, CondImplAssumption DEF IInv, Owned
      <4> QED
        BY <2>1, <2>3, <4>1 DEF Waits
    <3>4. \A u \in Threads : got'[u] # None => pc'[u] = "unlink"
      BY <2>3 DEF IInv, Owned
    <3>5. \A u \in Threads : pc'[u] \in {"read", "unlink"} => node[u] \in Nodes
      BY <2>2, <2>3 DEF IInv, Owned
    <3> QED
      BY SMT, <1>1, <1>2, <2>1, <3>1, <3>2, <3>3, <3>4, <3>5 DEF Owned, Waits
  <2>10. Untimed'
    BY <1>1, <2>1, <2>3 DEF IInv, Untimed
  <2> QED
    BY <1>2, <2>4, <2>8, <2>9, <2>10 DEF IInv
<1> QED
  BY <1>3, <1>4

-----------------------------------------------------------------------------
(* Every step keeps the invariant.                                         *)
LEMMA NextIInv == IInv /\ [Next]_vars => IInv'
<1> SUFFICES ASSUME IInv, [Next]_vars
             PROVE  IInv'
  OBVIOUS
<1>1. CASE Next
  <2>1. UNCHANGED timed
    BY <1>1 DEF Next
  <2>2. PICK t \in Threads : Call(t) \/ Tick(t) \/ Step(t)
    BY <1>1 DEF Next
  <2>3. CASE Call(t)
    <3>1. PICK c \in Conds : wait(c, t) \/ waitWithTimeout(c, t) \/ signal(c, t) \/ broadcast(c, t)
      BY <2>3 DEF Call
    <3>2. CASE wait(c, t)
      BY <2>1, <3>2, WaitStep DEF wait
    <3>3. CASE waitWithTimeout(c, t)
      BY <2>1, <3>3, WaitStep DEF waitWithTimeout
    <3> QED
      BY <2>1, <3>1, <3>2, <3>3, SignalStep, BroadcastStep
  <2>4. CASE Tick(t)
    BY <2>1, <2>4, LeaveStep DEF Tick
  <2>5. CASE Step(t)
    BY <2>1, <2>5, LeaveStep, PopStep, PopUnlinkStep DEF Step
  <2> QED
    BY <2>2, <2>3, <2>4, <2>5
<1>2. CASE UNCHANGED vars
  BY <1>2, Stutter
<1> QED
  BY <1>1, <1>2

(* The lists hold each node once, with the channel of one wait in          *)
(* progress, and what goroutines remember of nodes and channels agrees.    *)
THEOREM Invariance == Spec => []IInv
  BY InitIInv, NextIInv, PTL DEF Spec

(* Also with timed waits and with broadcasts that pop outside the lock, a  *)
(* linked node carries the channel of a goroutine that still waits on it,  *)
(* so that no wake-up is spent on one that has left, and none twice.       *)
THEOREM WakeupsReachWaiters == Spec => []LinkedNodesLive
<1>1. IInv => LinkedNodesLive
  BY DEF IInv, Types, Live, Waits, LinkedNodesLive, TypeOK, Waiting
<1> QED
  BY <1>1, Invariance, PTL

-----------------------------------------------------------------------------
(* Without timed waits the lists implement the wait sets of Cond.  Each    *)
(* kind of step has a lemma that says which step of Cond it is.            *)

(* In the first state nobody waits.                                        *)
LEMMA InitIdeal == Init => Ideal!Init
<1> SUFFICES ASSUME Init
             PROVE  Ideal!Init
  OBVIOUS
<1>1. WaitSets = [c \in Conds |-> {}]
  <2>1. \A c \in Conds : Range(waitList[c]) = {}
    BY SMT DEF Init, Range
  <2> QED
    BY <2>1 DEF WaitSets
<1>2. BlockedSets = [c \in Conds |-> {}]
  BY DEF Init, BlockedSets
<1> QED
  BY <1>1, <1>2 DEF Ideal!Init

(* Nodes whose channels a step leaves alone mean the same waiters.         *)
LEMMA SameWaiters ==
  ASSUME UNCHANGED <<timed, ch>>, \A c \in Conds : waitList'[c] = waitList[c]
  PROVE  WaitSets' = WaitSets
  BY DEF WaitSets

(* Who waits depends on where the goroutines are.                          *)
LEMMA SameBlocked ==
  ASSUME UNCHANGED <<timed, waitsOn>>, \A t \in Threads : pc'[t] = "wait" <=> pc[t] = "wait"
  PROVE  BlockedSets' = BlockedSets
<1>1. \A c \in Conds : {t \in Threads : pc'[t] = "wait" /\ waitsOn'[t] = c}
                       = {t \in Threads : pc[t] = "wait" /\ waitsOn[t] = c}
  OBVIOUS
<1> QED
  BY <1>1 DEF BlockedSets

(* The mapping, element by element.                                        *)
LEMMA Elements ==
  ASSUME timed = {}, timed' = timed
  PROVE  /\ \A d \in Conds : \A x : x \in WaitSets[d] <=> \E n \in Range(waitList[d]) : ch[n] = x
         /\ \A d \in Conds : \A x : x \in WaitSets'[d] <=> \E n \in Range(waitList'[d]) : ch'[n] = x
         /\ \A d \in Conds : \A x :
              x \in BlockedSets[d] <=> x \in Threads /\ pc[x] = "wait" /\ waitsOn[x] = d
         /\ \A d \in Conds : \A x :
              x \in BlockedSets'[d] <=> x \in Threads /\ pc'[x] = "wait" /\ waitsOn'[x] = d
         /\ WaitSets = [d \in Conds |-> WaitSets[d]] /\ WaitSets' = [d \in Conds |-> WaitSets'[d]]
         /\ BlockedSets = [d \in Conds |-> BlockedSets[d]]
         /\ BlockedSets' = [d \in Conds |-> BlockedSets'[d]]
<1>1. \A d \in Conds : \A x : x \in WaitSets[d] <=> \E n \in Range(waitList[d]) : ch[n] = x
  BY DEF WaitSets
<1>2. \A d \in Conds : \A x : x \in WaitSets'[d] <=> \E n \in Range(waitList'[d]) : ch'[n] = x
  BY DEF WaitSets
<1>3. \A d \in Conds : \A x :
        x \in BlockedSets[d] <=> x \in Threads /\ pc[x] = "wait" /\ waitsOn[x] = d
  BY DEF BlockedSets
<1>4. \A d \in Conds : \A x :
        x \in BlockedSets'[d] <=> x \in Threads /\ pc'[x] = "wait" /\ waitsOn'[x] = d
  BY DEF BlockedSets
<1>5. WaitSets = [d \in Conds |-> WaitSets[d]] /\ WaitSets' = [d \in Conds |-> WaitSets'[d]]
  BY DEF WaitSets
<1>6. BlockedSets = [d \in Conds |-> BlockedSets[d]] /\ BlockedSets' = [d \in Conds |-> BlockedSets'[d]]
  BY DEF BlockedSets
<1> QED
  BY <1>1, <1>2, <1>3, <1>4, <1>5, <1>6

(* A wait without a timeout is a wait of the ideal condition.              *)
LEMMA WaitIdeal ==
  ASSUME IInv, timed = {}, UNCHANGED timed, NEW c \in Conds, NEW t \in Threads, Wait(c, t, "wait")
  PROVE  Ideal!Wait(c, t)
<1>t. Types
  BY DEF IInv
<1>1. /\ pc[t] = "idle" /\ pc' = [pc EXCEPT ![t] = "wait"] /\ waitsOn' = [waitsOn EXCEPT ![t] = c]
      /\ UNCHANGED <<detached, orphans>>
  BY DEF Wait, Set
<1>2. PICK n \in Nodes : pushWait(c, t, n)
  BY DEF Wait
<1>3. Pushed(c, t, n)
  BY <1>1, <1>2, PushStep
<1>4. \A d \in Conds : \A m :
        m \in Range(waitList[d]) => m \in Linked /\ m \in Nodes /\ m # n /\ ch'[m] = ch[m]
  BY <1>t, <1>3, LinkedNow, LinkedNodes DEF Pushed
<1>5. n \in Range(waitList'[c]) /\ ch'[n] = t
  BY <1>3 DEF Pushed
<1>6. \A d \in Conds : \A m :
        m \in Range(waitList'[d]) <=> m \in Range(waitList[d]) \/ (d = c /\ m = n)
  BY <1>3 DEF Pushed
<1>7. \A x : x \in WaitSets'[c] <=> x \in WaitSets[c] \cup {t}
  <2>1. ASSUME NEW x
        PROVE  (\E m \in Range(waitList'[c]) : ch'[m] = x)
               <=> (\E m \in Range(waitList[c]) : ch[m] = x) \/ x = t
    BY <1>4, <1>5, <1>6
  <2> QED
    BY <2>1, Elements
<1>8. \A d \in Conds : d # c => \A x : x \in WaitSets'[d] <=> x \in WaitSets[d]
  <2>1. ASSUME NEW d \in Conds, d # c, NEW x
        PROVE  x \in WaitSets'[d] <=> x \in WaitSets[d]
    <3>1. \A m : m \in Range(waitList'[d]) <=> m \in Range(waitList[d])
      BY <1>6, <2>1
    <3>2. \A m \in Range(waitList[d]) : ch'[m] = ch[m]
      BY <1>4
    <3>3. /\ x \in WaitSets[d] <=> \E m \in Range(waitList[d]) : ch[m] = x
          /\ x \in WaitSets'[d] <=> \E m \in Range(waitList'[d]) : ch'[m] = x
      BY SMT, Elements
    <3> QED
      BY <3>1, <3>2, <3>3, Zenon
  <2> QED
    BY <2>1
<1>9. \A u \in Threads : u # t => pc'[u] = pc[u] /\ waitsOn'[u] = waitsOn[u]
  BY <1>t, <1>1 DEF Types
<1>10. pc'[t] = "wait" /\ waitsOn'[t] = c
  BY <1>t, <1>1 DEF Types
<1>11. \A x : x \in BlockedSets'[c] <=> x \in BlockedSets[c] \cup {t}
  BY SMT, <1>9, <1>10, Elements
<1>12. \A d \in Conds : d # c => \A x : x \in BlockedSets'[d] <=> x \in BlockedSets[d]
  BY SMT, <1>1, <1>9, <1>10, Elements
<1>13. \A d \in Conds : t \notin BlockedSets[d]
  BY <1>1, Elements
<1>e. /\ WaitSets = [d \in Conds |-> WaitSets[d]] /\ WaitSets' = [d \in Conds |-> WaitSets'[d]]
      /\ BlockedSets = [d \in Conds |-> BlockedSets[d]]
      /\ BlockedSets' = [d \in Conds |-> BlockedSets'[d]]
  BY Elements
<1>14. WaitSets' = [WaitSets EXCEPT ![c] = WaitSets[c] \cup {t}]
  <2>1. WaitSets'[c] = WaitSets[c] \cup {t} /\ \A d \in Conds : d # c => WaitSets'[d] = WaitSets[d]
    BY <1>7, <1>8
  <2> QED
    BY <1>e, <2>1
<1>15. BlockedSets' = [BlockedSets EXCEPT ![c] = BlockedSets[c] \cup {t}]
  <2>1. /\ BlockedSets'[c] = BlockedSets[c] \cup {t}
        /\ \A d \in Conds : d # c => BlockedSets'[d] = BlockedSets[d]
    BY <1>11, <1>12
  <2> QED
    BY <1>e, <2>1
<1> QED
  BY <1>13, <1>14, <1>15 DEF Ideal!Wait, Ideal!Enqueue

(* signal wakes one waiter, if there is one.                               *)
LEMMA SignalIdeal ==
  ASSUME IInv, timed = {}, UNCHANGED timed, NEW c \in Conds, NEW t \in Threads, signal(c, t)
  PROVE  Ideal!Signal(c)
<1>t. Types
  BY DEF IInv
<1>1. UNCHANGED <<pc, waitsOn>>
  BY DEF signal
<1>2. BlockedSets' = BlockedSets
  BY <1>1, SameBlocked
<1>3. CASE waitList[c] = <<>>
  <2>1. UNCHANGED <<waitList, ch>>
    BY <1>3 DEF signal
  <2>2. WaitSets' = WaitSets
    BY <2>1, SameWaiters
  <2>3. Range(waitList[c]) = {}
    BY SMT, <1>3 DEF Range
  <2>4. WaitSets[c] = {}
    BY <2>3, Elements
  <2> QED
    BY <1>2, <2>2, <2>4 DEF Ideal!Signal, Ideal!WakeOne
<1>4. CASE waitList[c] # <<>>
  <2> DEFINE h == Head(waitList[c])
  <2>1. removeWait(h)
    BY <1>4 DEF signal
  <2>2. h \in Range(waitList[c]) /\ h \in Nodes
    BY SMT, <1>t, <1>4 DEF Types, Range
  <2> HIDE DEF h
  <2>3. Removed(h)
    BY <2>1, RemoveStep
  <2>l. \A d \in Conds : \A m : m \in Range(waitList[d]) => m \in Linked /\ m \in Nodes
    BY <1>t, LinkedNow, LinkedNodes
  <2>4. \A d \in Conds : \A m : m \in Range(waitList[d]) /\ ch[m] = ch[h] => m = h
    BY <2>2, <2>l DEF IInv, Live
  <2>5. \A d \in Conds : \A m :
          m \in Range(waitList[d]) /\ m # h => m \in Range(waitList'[d]) /\ ch'[m] = ch[m]
    BY <2>3, <2>l DEF Removed
  <2>6. \A d \in Conds : \A m :
          m \in Range(waitList'[d]) => m \in Range(waitList[d]) /\ m # h /\ ch'[m] = ch[m]
    BY <2>3, <2>l DEF Removed
  <2>7. \A d \in Conds : d # c => h \notin Range(waitList[d])
    BY <2>2 DEF IInv, Lists
  <2>8. ch[h] \in WaitSets[c]
    BY <2>2, Elements
  <2>9. ASSUME NEW x
        PROVE  x \in WaitSets'[c] <=> x \in WaitSets[c] /\ x # ch[h]
    <3>1. /\ x \in WaitSets[c] <=> \E m \in Range(waitList[c]) : ch[m] = x
          /\ x \in WaitSets'[c] <=> \E m \in Range(waitList'[c]) : ch'[m] = x
      BY SMT, Elements
    <3> QED
      BY SMT, <2>4, <2>5, <2>6, <3>1
  <2>10. ASSUME NEW d \in Conds, d # c, NEW x
         PROVE  x \in WaitSets'[d] <=> x \in WaitSets[d]
    <3>1. /\ x \in WaitSets[d] <=> \E m \in Range(waitList[d]) : ch[m] = x
          /\ x \in WaitSets'[d] <=> \E m \in Range(waitList'[d]) : ch'[m] = x
      BY SMT, Elements
    <3> QED
      BY <2>5, <2>6, <2>7, <2>10, <3>1
  <2>11. WaitSets'[c] = WaitSets[c] \ {ch[h]} /\ \A d \in Conds : d # c => WaitSets'[d] = WaitSets[d]
    BY <2>9, <2>10
  <2>12. WaitSets = [d \in Conds |-> WaitSets[d]] /\ WaitSets' = [d \in Conds |-> WaitSets'[d]]
    BY Elements
  <2>13. WaitSets' = [WaitSets EXCEPT ![c] = WaitSets[c] \ {ch[h]}]
    BY <2>11, <2>12
  <2> QED
    BY <1>2, <2>8, <2>13 DEF Ideal!Signal, Ideal!WakeOne, Ideal!Withdraw
<1> QED
  BY <1>3, <1>4

(* broadcast wakes all of them when it takes the list over.                *)
LEMMA BroadcastIdeal ==
  ASSUME IInv, timed = {}, UNCHANGED timed, NEW c \in Conds, NEW t \in Threads, broadcast(c, t)
  PROVE  Ideal!Broadcast(c)
<1>t. Types
  BY DEF IInv
<1>1. /\ pc[t] = "idle" /\ pc' = [pc EXCEPT ![t] = "pop"] /\ waitList' = [waitList EXCEPT ![c] = <<>>]
      /\ UNCHANGED <<ch, waitsOn>>
  BY DEF broadcast, Set
<1>2. \A u \in Threads : pc'[u] = "wait" <=> pc[u] = "wait"
  BY <1>t, <1>1 DEF Types
<1>3. BlockedSets' = BlockedSets
  BY <1>1, <1>2, SameBlocked
<1>4. Range(waitList'[c]) = {} /\ \A d \in Conds : d # c => waitList'[d] = waitList[d]
  BY SMT, <1>t, <1>1 DEF Types, Range
<1>5. WaitSets'[c] = {} /\ \A d \in Conds : d # c => WaitSets'[d] = WaitSets[d]
  <2>1. \A x : x \notin WaitSets'[c]
    BY <1>4, Elements
  <2>2. ASSUME NEW d \in Conds, d # c
        PROVE  WaitSets'[d] = WaitSets[d]
    BY <1>1, <1>4, <2>2 DEF WaitSets
  <2> QED
    BY <2>1, <2>2
<1>6. WaitSets = [d \in Conds |-> WaitSets[d]] /\ WaitSets' = [d \in Conds |-> WaitSets'[d]]
  BY Elements
<1>7. WaitSets' = [WaitSets EXCEPT ![c] = {}]
  BY <1>5, <1>6
<1> QED
  BY <1>3, <1>7 DEF Ideal!Broadcast, Ideal!WakeAll

(* A goroutine that returns has been woken.                                *)
LEMMA ReturnIdeal ==
  ASSUME IInv, timed = {}, UNCHANGED timed, NEW t \in Threads, Woken(t)
  PROVE  (\E c \in Conds : Ideal!Return(c, t)) \/ UNCHANGED <<WaitSets, BlockedSets>>
<1>t. Types
  BY DEF IInv
<1>1. /\ pc[t] = "wait" /\ ~open[t] /\ pc' = [pc EXCEPT ![t] = "idle"]
      /\ waitsOn' = [waitsOn EXCEPT ![t] = None] /\ UNCHANGED <<waitList, ch>>
  BY DEF Woken, LeaveWait, Set, IInv, Untimed
<1>2. WaitSets' = WaitSets
  BY <1>1, SameWaiters
<1>3. pc'[t] = "idle" /\ \A u \in Threads : u # t => pc'[u] = pc[u] /\ waitsOn'[u] = waitsOn[u]
  BY <1>t, <1>1 DEF Types
<1>4. BlockedSets = [d \in Conds |-> BlockedSets[d]] /\ BlockedSets' = [d \in Conds |-> BlockedSets'[d]]
  BY Elements
<1>5. \A d \in Conds : d # waitsOn[t] => BlockedSets'[d] = BlockedSets[d]
  <2>1. ASSUME NEW d \in Conds, d # waitsOn[t], NEW x
        PROVE  x \in BlockedSets'[d] <=> x \in BlockedSets[d]
    BY SMT, <1>3, <2>1, Elements
  <2> QED
    BY <2>1
<1>6. CASE waitsOn[t] \notin Conds
  <2>1. BlockedSets' = BlockedSets
    BY <1>4, <1>5, <1>6
  <2> QED
    BY <1>2, <2>1
<1>7. CASE waitsOn[t] \in Conds
  <2> DEFINE c == waitsOn[t]
  <2>1. t \in BlockedSets[c]
    BY <1>1, <1>7, Elements
  <2>2. t \notin WaitSets[c]
    <3>1. \A n \in Range(waitList[c]) : n \in Linked
      BY <1>7, LinkedNow
    <3>2. \A n \in Range(waitList[c]) : ch[n] # t
      BY <1>1, <3>1 DEF IInv, Live
    <3> QED
      BY SMT, <1>7, <3>2, Elements
  <2>3. BlockedSets'[c] = BlockedSets[c] \ {t}
    <3>1. ASSUME NEW x
          PROVE  x \in BlockedSets'[c] <=> x \in BlockedSets[c] /\ x # t
      BY SMT, <1>3, <1>7, Elements
    <3> QED
      BY <3>1
  <2>4. BlockedSets' = [BlockedSets EXCEPT ![c] = BlockedSets[c] \ {t}]
    BY <1>4, <1>5, <1>7, <2>3
  <2> QED
    BY <1>2, <1>7, <2>1, <2>2, <2>4 DEF Ideal!Return
<1> QED
  BY <1>6, <1>7

(* Once the list is taken over, the ideal condition sees nothing of how it *)
(* is worked through.                                                      *)
LEMMA PopIdeal ==
  ASSUME IInv, timed = {}, UNCHANGED timed, NEW t \in Threads,
         PopFirst(t) \/ PopRead(t) \/ PopUnlink(t)
  PROVE  UNCHANGED <<WaitSets, BlockedSets>>
<1>t. Types
  BY DEF IInv
<1>1. waitsOn' = waitsOn /\ \A u \in Threads : pc'[u] = "wait" <=> pc[u] = "wait"
  <2>1. waitsOn' = waitsOn /\ pc[t] \in {"pop", "read", "unlink"}
    BY DEF PopFirst, PopRead, PopUnlink
  <2>2. PICK l \in {"idle", "pop", "read", "unlink"} : pc' = [pc EXCEPT ![t] = l]
    BY DEF PopFirst, PopRead, PopUnlink, Set
  <2> QED
    BY <1>t, <2>1, <2>2 DEF Types
<1>2. BlockedSets' = BlockedSets
  BY <1>1, SameBlocked
<1>3. CASE PopFirst(t) \/ PopRead(t)
  <2>1. UNCHANGED <<waitList, ch>>
    BY <1>3 DEF PopFirst, PopRead
  <2> QED
    BY <1>2, <2>1, SameWaiters
<1>4. CASE PopUnlink(t)
  <2>1. Removed(node[t])
    BY <1>4, RemoveStep DEF PopUnlink
  <2>2. node[t] \in Range(detached[t])
    BY <1>4 DEF PopUnlink, IInv, Untimed
  <2>3. \A d \in Conds : node[t] \notin Range(waitList[d])
    BY <2>2 DEF IInv, Lists
  <2>l. \A d \in Conds : \A m : m \in Range(waitList[d]) => m \in Nodes
    BY <1>t, LinkedNow, LinkedNodes
  <2>4. \A d \in Conds : \A m : m \in Range(waitList'[d]) <=> m \in Range(waitList[d])
    BY <2>1, <2>3 DEF Removed
  <2>5. \A d \in Conds : \A m : m \in Range(waitList[d]) => ch'[m] = ch[m]
    BY <2>1, <2>3, <2>l DEF Removed
  <2>6. ASSUME NEW d \in Conds, NEW x
        PROVE  x \in WaitSets'[d] <=> x \in WaitSets[d]
    <3>1. /\ x \in WaitSets[d] <=> \E m \in Range(waitList[d]) : ch[m] = x
          /\ x \in WaitSets'[d] <=> \E m \in Range(waitList'[d]) : ch'[m] = x
      BY SMT, Elements
    <3> QED
      BY <2>4, <2>5, <3>1, Zenon
  <2>7. \A d \in Conds : WaitSets'[d] = WaitSets[d]
    BY <2>6
  <2>8. WaitSets = [d \in Conds |-> WaitSets[d]] /\ WaitSets' = [d \in Conds |-> WaitSets'[d]]
    BY Elements
  <2>9. WaitSets' = WaitSets
    BY <2>7, <2>8
  <2> QED
    BY <1>2, <2>9
<1> QED
  BY <1>3, <1>4

(* Every step is a step of the ideal condition or none.                    *)
LEMMA NextIdeal == IInv /\ [Next]_vars => [Ideal!Next]_(Ideal!condVars)
<1> SUFFICES ASSUME IInv, [Next]_vars
             PROVE  Ideal!Next \/ UNCHANGED <<WaitSets, BlockedSets>>
  BY DEF Ideal!condVars
<1>1. CASE UNCHANGED vars
  BY <1>1 DEF vars, WaitSets, BlockedSets
<1>2. CASE Next /\ timed # {}
  <2>1. timed' = timed
    BY <1>2 DEF Next
  <2> QED
    BY <1>2, <2>1 DEF WaitSets, BlockedSets
<1>3. CASE Next /\ timed = {}
  <2>1. timed' = timed
    BY <1>3 DEF Next
  <2>2. PICK t \in Threads : Call(t) \/ Tick(t) \/ Step(t)
    BY <1>3 DEF Next
  <2>3. CASE Call(t)
    <3>1. PICK c \in Conds : wait(c, t) \/ waitWithTimeout(c, t) \/ signal(c, t) \/ broadcast(c, t)
      BY <2>3 DEF Call
    <3>2. CASE wait(c, t)
      <4>1. Ideal!Wait(c, t)
        BY <1>3, <2>1, <3>2, WaitIdeal DEF wait
      <4> QED
        BY <4>1 DEF Ideal!Next
    <3>3. CASE waitWithTimeout(c, t)
      BY <1>3, <3>3 DEF waitWithTimeout
    <3>4. CASE signal(c, t)
      <4>1. Ideal!Signal(c)
        BY <1>3, <2>1, <3>4, SignalIdeal
      <4> QED
        BY <4>1 DEF Ideal!Next
    <3>5. CASE broadcast(c, t)
      <4>1. Ideal!Broadcast(c)
        BY <1>3, <2>1, <3>5, BroadcastIdeal
      <4> QED
        BY <4>1 DEF Ideal!Next
    <3> QED
      BY <3>1, <3>2, <3>3, <3>4, <3>5
  <2>4. CASE Tick(t)
    BY <1>3, <2>4 DEF Tick, Expired, IInv, Untimed
  <2>5. CASE Step(t)
    <3>1. CASE Woken(t)
      <4>1. (\E c \in Conds : Ideal!Return(c, t)) \/ UNCHANGED <<WaitSets, BlockedSets>>
        BY <1>3, <2>1, <3>1, ReturnIdeal
      <4> QED
        BY <4>1 DEF Ideal!Next
    <3>2. CASE PopFirst(t) \/ PopRead(t) \/ PopUnlink(t)
      BY <1>3, <2>1, <3>2, PopIdeal
    <3> QED
      BY <2>5, <3>1, <3>2 DEF Step
  <2> QED
    BY <2>2, <2>3, <2>4, <2>5
<1> QED
  BY <1>1, <1>2, <1>3

(* Without timed waits, the lists of pooled nodes that a broadcast works   *)
(* through outside the lock implement the wait sets SendQueue and          *)
(* EventQueue are modelled with.  The mapping is constant in behaviours    *)
(* with timed waits, and the fairness of Cond is left to the run.          *)
THEOREM ImplementsCond == Spec => Ideal!Safety
<1>1. Init => Ideal!Init
  BY InitIdeal
<1>2. IInv /\ [Next]_vars => [Ideal!Next]_(Ideal!condVars)
  BY NextIdeal
<1> QED
  BY <1>1, <1>2, Invariance, PTL DEF Spec, Ideal!Safety
=============================================================================
