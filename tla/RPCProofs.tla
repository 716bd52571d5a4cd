----------------------------- MODULE RPCProofs ------------------------------
(***************************************************************************)
(* What holds in every behaviour of RPC, for any calls, contexts, channels,*)
(* environments and goroutines that use replyers: HandlerOnce,             *)
(* ReleasedOnce and CallNotForgotten from the invariant of the client,     *)
(* ContextsMatch, and RepliesCounted.                                      *)
(*                                                                         *)
(* ContextsMatch follows from the rings of ListInv: walking the links n    *)
(* times from the head gets to the n-th context of the ring.               *)
(*                                                                         *)
(* RepliesCounted is about the life of one request.  The client puts it in *)
(* flight once, the server takes it out once, and from then on the flag of *)
(* its replyer goes from "none" to "open" to "fired" and never back.  Only *)
(* the worker that fires it may send, and it sends before it is done; so   *)
(* at most one response leaves.  pendingCount is counted up when a replyer *)
(* becomes open, and down by the worker that fired it: ServerInv says that *)
(* it is the number of open replyers and of workers between the two.       *)
(***************************************************************************)
EXTENDS RPC, RPCClientProofs, FiniteSetTheorems, NaturalsInduction, WellFoundedInduction

(* Steps of logic and sets are for Zenon; those that need arithmetic,      *)
(* sequences or updates of functions cite SMT.                             *)
USE Zenon

-----------------------------------------------------------------------------
(* The lists as ListsMatch walks them.                                     *)

(* Induction over a set of numbers.                                        *)
LEMMA AllNaturals ==
  ASSUME NEW S \in SUBSET Nat, 0 \in S, \A n \in S : n + 1 \in S
  PROVE  S = Nat
<1> DEFINE B == Nat \ S
<1> SUFFICES ASSUME B # {}
             PROVE  FALSE
  OBVIOUS
<1>1. PICK n \in B : \A k \in B : ~(<<k, n>> \in OpToRel(<, Nat))
  <2>1. B \subseteq Nat
    OBVIOUS
  <2> QED
    BY <2>1, WFMin, NatLessThanWellFounded
<1>2. \A k \in B : ~(k < n)
  BY <1>1 DEF OpToRel
<1>3. n # 0
  OBVIOUS
<1>4. n - 1 \in Nat /\ n - 1 < n /\ n - 1 + 1 = n
  BY SMT, <1>3
<1>5. n - 1 \in S
  BY <1>2, <1>4
<1>6. n \in S
  BY <1>4, <1>5
<1> QED
  BY <1>6

(* A ring has no more contexts than there are.                             *)
LEMMA RingLength ==
  ASSUME IsFiniteSet(Contexts), NEW q \in Seq(Contexts), \A i, j \in DOMAIN q : q[i] = q[j] => i = j
  PROVE  Cardinality(Contexts) \in Nat /\ Len(q) <= Cardinality(Contexts)
<1>1. DOMAIN q = 1..Len(q) /\ Len(q) \in Nat /\ q \in [1..Len(q) -> Contexts]
  BY SMT
<1>2. q \in Injection(1..Len(q), Contexts)
  BY <1>1 DEF Injection, IsInjective
<1>3. Cardinality(1..Len(q)) <= Cardinality(Contexts)
  BY <1>2, FS_Injection
<1>4. Cardinality(1..Len(q)) = Len(q)
  <2>1. 1 \in Int /\ Len(q) \in Int
    BY <1>1, SMT
  <2>2. Cardinality(1..Len(q)) = IF 1 > Len(q) THEN 0 ELSE Len(q) - 1 + 1
    BY <2>1, FS_Interval
  <2> QED
    BY <1>1, <2>2, SMT
<1>5. Cardinality(Contexts) \in Nat
  BY FS_CardinalityType
<1> QED
  BY <1>3, <1>4, <1>5

(* The walk from the head goes through the ring, and stays at the head.    *)
LEMMA WalkOfRing ==
  ASSUME IsFiniteSet(Contexts), NEW q \in Seq(Contexts), NEW h, h \notin Contexts,
         Ring(h, q, nnext, pprev)
  PROVE  NodeAt(h) = [i \in 0..Cardinality(Contexts) |-> IF i < Len(q) THEN q[i + 1] ELSE h]
<1> DEFINE N == Cardinality(Contexts)
           at[i \in 0..N] == IF i = 0 THEN nnext[h] ELSE IF at[i - 1] \in Contexts THEN nnext[at[i - 1]]
                                                         ELSE at[i - 1]
           Then(n) == IF n \in Contexts THEN nnext[n] ELSE n
           Is(f) == f = [i \in 0..N |-> IF i = 0 THEN nnext[h] ELSE IF f[i - 1] \in Contexts THEN nnext[f[i - 1]]
                                                                    ELSE f[i - 1]]
           Step(f) == \A i \in 0..N : f[i] = IF i = 0 THEN nnext[h] ELSE Then(f[i - 1])
           g == [i \in 0..N |-> IF i < Len(q) THEN q[i + 1] ELSE h]
<1>1. NodeAt(h) = at
  BY DEF NodeAt
<1>2. at = CHOOSE f : Is(f)
  OBVIOUS
<1> HIDE DEF at
<1>3. N \in Nat /\ Len(q) <= N /\ 1 <= Len(q) /\ Len(q) \in Nat /\ DOMAIN q = 1..Len(q) /\ 1 \in DOMAIN q
  <2>1. q # <<>> /\ \A i, j \in DOMAIN q : q[i] = q[j] => i = j
    BY DEF Ring
  <2>2. N \in Nat /\ Len(q) <= N
    BY <2>1, RingLength
  <2>3. 1 \in DOMAIN q /\ Len(q) >= 1
    BY <2>1, SeqFirst
  <2>4. DOMAIN q = 1..Len(q) /\ Len(q) \in Nat
    BY SeqDomain
  <2> QED
    BY <2>2, <2>3, <2>4, SMT
<1> HIDE DEF N
<1>4. nnext[h] = q[1] /\ \A i \in DOMAIN q : nnext[q[i]] = IF i = Len(q) THEN h ELSE q[i + 1]
  BY DEF Ring
<1>5. \A i \in DOMAIN q : q[i] \in Contexts
  BY SeqDomain
<1>6. \A i \in 0..N : g[i] = IF i < Len(q) THEN q[i + 1] ELSE h
  OBVIOUS
<1>7. Step(g)
  <2> SUFFICES ASSUME NEW i \in 0..N
               PROVE  g[i] = IF i = 0 THEN nnext[h] ELSE Then(g[i - 1])
    OBVIOUS
  <2> HIDE DEF g
  <2>1. CASE i = 0
    <3>1. 0 < Len(q) /\ 0 + 1 = 1
      BY <1>3, SMT
    <3> QED
      BY <1>4, <1>6, <2>1, <3>1
  <2>2. CASE i # 0 /\ i - 1 < Len(q)
    <3>0. i - 1 \in 0..N /\ (i - 1) + 1 = i /\ i \in 1..Len(q) /\ (i < Len(q) <=> i # Len(q))
      <4>1. N \in Nat /\ Len(q) \in Nat
        BY <1>3
      <4> QED
        BY <2>2, <4>1, SMT
    <3>1. i - 1 \in 0..N /\ (i - 1) + 1 = i /\ i \in DOMAIN q /\ (i < Len(q) <=> i # Len(q))
      BY <1>3, <3>0
    <3>2. g[i - 1] = q[i] /\ q[i] \in Contexts
      BY <1>5, <1>6, <2>2, <3>1
    <3>3. Then(g[i - 1]) = nnext[q[i]]
      BY <3>2
    <3>4. nnext[q[i]] = IF i = Len(q) THEN h ELSE q[i + 1]
      BY <1>4, <3>1
    <3>5. g[i] = IF i < Len(q) THEN q[i + 1] ELSE h
      BY <1>6
    <3> HIDE DEF Then
    <3> QED
      BY <2>2, <3>1, <3>3, <3>4, <3>5
  <2>3. CASE i # 0 /\ ~(i - 1 < Len(q))
    <3>1. i - 1 \in 0..N /\ ~(i < Len(q))
      BY <1>3, <2>3, SMT
    <3>2. g[i - 1] = h /\ g[i] = h
      BY <1>6, <2>3, <3>1
    <3> QED
      BY <2>3, <3>2
  <2> QED
    BY <2>1, <2>2, <2>3
<1>8. Is(g)
  <2>1. \A i \in 0..N : g[i] = IF i = 0 THEN nnext[h] ELSE IF g[i - 1] \in Contexts THEN nnext[g[i - 1]]
                                                            ELSE g[i - 1]
    <3> HIDE DEF g
    <3> QED
      BY <1>7
  <2>2. g = [i \in 0..N |-> g[i]]
    OBVIOUS
  <2> HIDE DEF g
  <2> QED
    BY <2>1, <2>2
<1>9. Is(at)
  <2> HIDE DEF Is, g
  <2> QED
    BY <1>2, <1>8
<1>10. Step(at) /\ at = [i \in 0..N |-> at[i]]
  BY <1>9
<1> HIDE DEF Then, g, Is
<1>11. \A i \in 0..N : at[i] = g[i]
  <2> DEFINE S == {i \in Nat : i \in 0..N => at[i] = g[i]}
  <2>0. \A n \in Nat : n + 1 \in Nat /\ n + 1 # 0 /\ (n + 1) - 1 = n /\ (n + 1 \in 0..N => n \in 0..N)
    BY <1>3, SMT
  <2>1. 0 \in S
    <3>1. 0 \in 0..N
      BY <1>3, SMT
    <3> QED
      BY <1>7, <1>10, <3>1
  <2>2. ASSUME NEW n \in S
        PROVE  n + 1 \in S
    <3>1. n + 1 \in Nat /\ n + 1 # 0 /\ (n + 1) - 1 = n /\ (n + 1 \in 0..N => n \in 0..N)
      BY <2>0
    <3> SUFFICES ASSUME n + 1 \in 0..N
                 PROVE  at[n + 1] = g[n + 1]
      BY <3>1
    <3>2. at[n] = g[n]
      BY <3>1
    <3>3. at[n + 1] = Then(at[(n + 1) - 1]) /\ g[n + 1] = Then(g[(n + 1) - 1])
      BY <1>7, <1>10, <3>1
    <3> QED
      BY <3>1, <3>2, <3>3
  <2>3. S = Nat
    <3>1. S \in SUBSET Nat
      OBVIOUS
    <3> HIDE DEF S
    <3> QED
      BY <2>1, <2>2, <3>1, AllNaturals
  <2>4. \A i \in 0..N : i \in Nat
    BY <1>3, SMT
  <2> QED
    BY <2>3, <2>4
<1>12. g = [i \in 0..N |-> g[i]]
  BY DEF g
<1>13. at = g
  BY <1>10, <1>11, <1>12
<1> QED
  BY <1>1, <1>13 DEF g, N

(* What ListInv says of the rings is what ListsMatch says of the walks.    *)
LEMMA ListsAgree ==
  ASSUME IsFiniteSet(Contexts), ClientInv, ListInv
  PROVE  ListsMatch
<1> SUFFICES ASSUME "disconnect" \notin env.has
             PROVE  ListsMatch
  BY DEF ListsMatch
<1>1. ~panicked /\ ChannelLists
  BY DEF ListInv
<1>2. ClientTypes /\ Mapped
  BY <1>1 DEF ClientInv, Core
<1>3. /\ callContexts \in [Calls -> Contexts \cup {None}]
      /\ channels \in [Channels -> Heads \cup {None}]
      /\ None \notin Contexts /\ None \notin Heads
      /\ \A n \in Heads : n \notin Contexts
  BY <1>2, ListTypes
<1> DEFINE calls(c) == {k \in Calls : callContexts[k] # None /\ channelID[callContexts[k]] = c}
           ctxs(c) == {callContexts[k] : k \in calls(c)}
           at(c) == NodeAt(channels[c])
           N == Cardinality(Contexts)
<1>4. ASSUME NEW c \in Channels
      PROVE  \A y : y \in ctxs(c) <=> y \in Contexts /\ CallOf(c, y)
  <2>1. ASSUME NEW y, y \in ctxs(c)
        PROVE  y \in Contexts /\ CallOf(c, y)
    <3>1. PICK k \in calls(c) : y = callContexts[k]
      BY <2>1
    <3> QED
      BY <1>3, <3>1 DEF CallOf, InMap
  <2>2. ASSUME NEW y \in Contexts, CallOf(c, y)
        PROVE  y \in ctxs(c)
    <3>1. PICK k \in Calls : callContexts[k] = y
      BY <2>2 DEF CallOf, InMap
    <3>2. k \in calls(c)
      BY <1>3, <2>2, <3>1 DEF CallOf
    <3> QED
      BY <3>1, <3>2
  <2> QED
    BY <2>1, <2>2
<1>5. ASSUME NEW c \in Channels
      PROVE  calls(c) = {} <=> ctxs(c) = {}
  OBVIOUS
<1>6. ASSUME NEW c \in Channels
      PROVE  \A k \in calls(c) : seq[callContexts[k]] = k
  BY <1>2 DEF Mapped
<1> HIDE DEF calls, ctxs
<1>7. ASSUME NEW c \in Channels, channels[c] = None
      PROVE  calls(c) = {}
  <2>1. \A y \in Contexts : ~CallOf(c, y)
    BY <1>1, <1>7 DEF ChannelLists
  <2>2. ctxs(c) = {}
    BY <1>4, <2>1
  <2> QED
    BY <1>5, <2>2
<1>8. ASSUME NEW c \in Channels, channels[c] # None
      PROVE  /\ calls(c) # {}
             /\ {at(c)[i] : i \in DOMAIN at(c)} \ {channels[c]} = ctxs(c)
             /\ at(c)[N] = channels[c]
             /\ \A y \in ctxs(c) : nnext[pprev[y]] = y
  <2> DEFINE h == channels[c]
  <2>1. h \in Heads /\ h \notin Contexts
    BY <1>3, <1>8
  <2>2. PICK q \in Seq(Contexts) : Ring(h, q, nnext, pprev) /\ Holds(c, q)
    BY <1>1, <1>8 DEF ChannelLists
  <2>3. /\ q # <<>> /\ \A i, j \in DOMAIN q : q[i] = q[j] => i = j
        /\ nnext[h] = q[1]
        /\ \A i \in DOMAIN q : nnext[q[i]] = IF i = Len(q) THEN h ELSE q[i + 1]
        /\ \A i \in DOMAIN q : pprev[q[i]] = IF i = 1 THEN h ELSE q[i - 1]
    BY <2>2 DEF Ring
  <2>4. DOMAIN q = 1..Len(q) /\ Len(q) \in Nat /\ 1 \in DOMAIN q /\ \A i \in DOMAIN q : q[i] \in Contexts
    BY <2>3, SeqDomain, SeqFirst
  <2>5. N \in Nat /\ Len(q) <= N
    BY <2>3, RingLength
  <2>6. \A y : y \in ctxs(c) <=> Among(q, y)
    <3>1. \A y : Among(q, y) => y \in Contexts
      BY <2>4 DEF Among
    <3> QED
      BY <1>4, <2>2, <3>1 DEF Holds
  <2>7. at(c) = [i \in 0..N |-> IF i < Len(q) THEN q[i + 1] ELSE h]
    <3> HIDE DEF h
    <3>1. NodeAt(h) = [i \in 0..N |-> IF i < Len(q) THEN q[i + 1] ELSE h]
      BY <2>1, <2>2, WalkOfRing
    <3> QED
      BY <3>1 DEF h
  <2> HIDE DEF h, at, N
  <2>8. DOMAIN at(c) = 0..N /\ \A i \in 0..N : at(c)[i] = IF i < Len(q) THEN q[i + 1] ELSE h
    BY <2>7
  <2>9. calls(c) # {}
    BY <1>5, <2>4, <2>6 DEF Among
  <2>10. at(c)[N] = h
    <3>1. N \in 0..N /\ ~(N < Len(q))
      BY <2>4, <2>5, SMT
    <3> QED
      BY <2>8, <3>1
  <2>11. {at(c)[i] : i \in DOMAIN at(c)} \ {h} = ctxs(c)
    <3>1. ASSUME NEW i \in 0..N, at(c)[i] # h
          PROVE  at(c)[i] \in ctxs(c)
      <4>1. i < Len(q) /\ at(c)[i] = q[i + 1]
        BY <2>8, <3>1
      <4>2. i + 1 \in DOMAIN q
        BY <2>4, <2>5, <4>1, SMT
      <4> QED
        BY <2>6, <4>1, <4>2 DEF Among
    <3>2. ASSUME NEW y \in ctxs(c)
          PROVE  y # h /\ \E i \in 0..N : at(c)[i] = y
      <4>1. PICK j \in DOMAIN q : q[j] = y
        BY <2>6 DEF Among
      <4>2. j - 1 \in 0..N /\ j - 1 < Len(q) /\ (j - 1) + 1 = j
        BY <2>4, <2>5, SMT
      <4>3. at(c)[j - 1] = y
        BY <2>8, <4>1, <4>2
      <4>4. y # h
        BY <2>1, <2>4, <4>1
      <4> QED
        BY <4>2, <4>3, <4>4
    <3> DEFINE f == at(c)
    <3>3. DOMAIN f = 0..N /\ (\A i \in 0..N : f[i] # h => f[i] \in ctxs(c))
      BY <2>8, <3>1
    <3>4. \A y \in ctxs(c) : y # h /\ \E i \in 0..N : f[i] = y
      BY <3>2
    <3> HIDE DEF f
    <3>5. {f[i] : i \in DOMAIN f} \ {h} \subseteq ctxs(c)
      BY <3>3
    <3>6. ctxs(c) \subseteq {f[i] : i \in DOMAIN f} \ {h}
      BY <3>3, <3>4
    <3> QED
      BY <3>5, <3>6 DEF f
  <2>12. ASSUME NEW y \in ctxs(c)
         PROVE  nnext[pprev[y]] = y
    <3>1. PICK j \in DOMAIN q : q[j] = y
      BY <2>6 DEF Among
    <3>2. CASE j = 1
      BY <2>3, <3>1, <3>2
    <3>3. CASE j # 1
      <4>1. j - 1 \in DOMAIN q /\ j - 1 # Len(q) /\ (j - 1) + 1 = j
        BY <2>4, <3>3, SMT
      <4>2. pprev[y] = q[j - 1]
        BY <2>3, <3>1, <3>3
      <4>3. nnext[q[j - 1]] = q[(j - 1) + 1]
        BY <2>3, <4>1
      <4> QED
        BY <3>1, <4>1, <4>2, <4>3
    <3> QED
      BY <3>2, <3>3
  <2> QED
    BY <2>9, <2>10, <2>11, <2>12 DEF h
<1>9. ASSUME NEW c \in Channels
      PROVE  /\ channels[c] = None <=> calls(c) = {}
             /\ \A k \in calls(c) : seq[callContexts[k]] = k
             /\ channels[c] # None =>
                  /\ {at(c)[i] : i \in DOMAIN at(c)} \ {channels[c]} = ctxs(c)
                  /\ at(c)[N] = channels[c]
                  /\ \A y \in ctxs(c) : nnext[pprev[y]] = y
  <2> HIDE DEF at, N
  <2> QED
    BY <1>6, <1>7, <1>8
<1> QED
  BY <1>1, <1>9 DEF ListsMatch, calls, ctxs

-----------------------------------------------------------------------------
(* The client.                                                             *)

(* With any server, the client's invariant holds.                          *)
THEOREM ClientInvariance == Spec => []ClientInv
<1>1. Init => ClientInv
  BY InitClientInv DEF Init
<1>2. ClientInv /\ [Next]_vars => ClientInv'
  <2> SUFFICES ASSUME ClientInv, [Next]_vars PROVE ClientInv'
    OBVIOUS
  <2>1. CASE ClientNext
    BY <2>1, ClientStep
  <2>2. CASE UNCHANGED clientVars
    BY <2>2, ClientIdle
  <2> QED
    BY <2>1, <2>2 DEF Next, vars
<1> QED
  BY <1>1, <1>2, PTL DEF Spec

(* The handler of a call is called at most once, and a response reaches    *)
(* the handler of the call it answers, for any number of calls, contexts   *)
(* and channels.                                                           *)
THEOREM HandlersCalledOnce == Spec => []HandlerOnce
<1>1. ClientInv => HandlerOnce
  BY DEF ClientInv
<1> QED
  BY <1>1, ClientInvariance, PTL

(* A context goes back to the pool once, and only when nobody uses it for  *)
(* the call it stood for.                                                  *)
THEOREM ContextsReleasedOnce == Spec => []ReleasedOnce
<1>1. ClientInv => ReleasedOnce
  BY OneUseReleases DEF ClientInv, Core, ClientTypes, PoolTypes
<1> QED
  BY <1>1, ClientInvariance, PTL

(* A call that was accepted is in the map with its timer on its way, or    *)
(* someone is about to call its handler, or it was answered.               *)
THEOREM CallsKept == Spec => []CallNotForgotten
<1>1. ASSUME ClientInv
      PROVE  CallNotForgotten
  <2> SUFFICES ASSUME \A j \in Calls : apc[j] # "error", ~panicked, NEW k \in Calls,
                      apc[k] \in {"send", "sent"}, answers[k] = <<>>
               PROVE  \/ BeingAnswered(k)
                      \/ /\ callContexts[k] # None
                         /\ tctx[k] = callContexts[k]
                         /\ tpc[k] \in {"armed", "running"}
    BY DEF CallNotForgotten
  <2>1. Named /\ Mapped /\ Kept
    BY <1>1 DEF ClientInv, Core
  <2>2. CASE callContexts[k] # None
    BY <2>1, <2>2 DEF Mapped
  <2>3. CASE callContexts[k] = None
    <3>1. PICK x \in Contexts : seq[x] = k /\ Takers(x) # {}
      BY <2>1, <2>3 DEF Kept
    <3>2. onResponse[x] = k
      BY <2>1, <3>1 DEF Named
    <3>3. RespTakes(x) # {} \/ TimeTakes(x) # {} \/ WalkTakes(x) # {}
      BY <3>1, TakersAre
    <3> QED
      BY <3>2, <3>3 DEF BeingAnswered, RespTakes, TimeTakes, WalkTakes
  <2> QED
    BY <2>2, <2>3
<1> QED
  BY <1>1, ClientInvariance, PTL

-----------------------------------------------------------------------------
(* The server's invariant.                                                 *)

(* The server has not met the request of k.                                *)
Unserved(k) == replyer[k] = "none" /\ replies[k] = 0 /\ \A w \in Workers : wreq[w] # k

(* A request is in flight once, after the client has sent it and before    *)
(* the server met it.                                                      *)
SentOnce ==
  /\ requests \subseteq Request
  /\ \A m \in requests : Unserved(m.seq)
  /\ \A m, n \in requests : m.seq = n.seq => m = n
  /\ \A k \in Calls : apc[k] \in {"new", "send"} => Unserved(k) /\ \A m \in requests : m.seq # k

(* What a worker may rely on at each of its places.                        *)
PlaceOK(w) ==
  /\ wpc[w] # "idle" => wreq[w] \in Calls
  /\ wpc[w] \in {"found", "missing"} =>
       /\ replyer[wreq[w]] = "none" /\ replies[wreq[w]] = 0
       /\ \A u \in Workers : wreq[u] = wreq[w] => u = w
  /\ wpc[w] \in {"handler", "reply", "drop"} => replyer[wreq[w]] # "none"
  /\ wpc[w] \in {"send", "uncount"} => replyer[wreq[w]] = "fired"
  /\ wpc[w] = "send" =>
       /\ replies[wreq[w]] = 0
       /\ \A u \in Workers : wpc[u] = "send" /\ wreq[u] = wreq[w] => u = w

WorkerPlaces == \A w \in Workers : PlaceOK(w)

(* A replyer that was not used has sent nothing, and no request has more   *)
(* than one response.                                                      *)
OneReply == \A k \in Calls : replies[k] <= 1 /\ (replyer[k] = "open" => replies[k] = 0)

Open == {r \in Calls : replyer[r] = "open"}
Completing == {w \in Workers : wpc[w] \in {"send", "uncount"}}

Pending ==
  /\ IsFiniteSet(Open) /\ IsFiniteSet(Completing)
  /\ pendingCount = Cardinality(Open) + Cardinality(Completing)

(* The types of the variables the server's invariant is about.             *)
ServerTypes ==
  /\ ServerTypeOK
  /\ apc \in [Calls -> {"new", "posted", "send", "sent", "error"}]

ServerInv == ServerTypes /\ SentOnce /\ WorkerPlaces /\ OneReply /\ Pending

-----------------------------------------------------------------------------
(* The server's steps.                                                     *)

(* A worker that neither fires a replyer nor sends moves on.               *)
LEMMA MoveStep ==
  ASSUME ServerTypes, SentOnce, WorkerPlaces, OneReply,
         NEW w \in Workers, NEW l \in {"idle", "handler", "reply", "drop", "uncount"},
         NEW r \in Calls \cup {None},
         wpc' = [wpc EXCEPT ![w] = l], wreq' = [wreq EXCEPT ![w] = r],
         UNCHANGED <<requests, apc, replyer, replies>>,
         l # "idle" => r # None,
         r # None => replyer[r] # "none",
         l = "uncount" => replyer[r] = "fired"
  PROVE  SentOnce' /\ WorkerPlaces' /\ OneReply'
<1>1. /\ wpc'[w] = l /\ wreq'[w] = r
      /\ \A u \in Workers \ {w} : wpc'[u] = wpc[u] /\ wreq'[u] = wreq[u]
  BY DEF ServerTypes, ServerTypeOK
<1>2. None \notin Calls
  BY RPCClientAssumption
<1>3. \A k \in Calls : Unserved(k) => Unserved(k)'
  BY SMT, <1>1, <1>2 DEF Unserved
<1>4. SentOnce'
  BY <1>3 DEF SentOnce, Request
<1>5. ASSUME NEW u \in Workers \ {w}
      PROVE  PlaceOK(u)'
  <2>1. PlaceOK(u)
    BY DEF WorkerPlaces
  <2> QED
    BY SMT, <1>1, <1>2, <2>1 DEF PlaceOK
<1>6. PlaceOK(w)'
  BY <1>1, <1>2 DEF PlaceOK
<1>7. WorkerPlaces'
  BY <1>5, <1>6 DEF WorkerPlaces
<1> QED
  BY <1>4, <1>7 DEF OneReply

(* The worker that wins the compare-and-swap completes the request.        *)
LEMMA FireStep ==
  ASSUME ServerTypes, SentOnce, WorkerPlaces, OneReply,
         NEW w \in Workers, NEW l \in {"send", "uncount"}, NEW r \in Calls, r = wreq[w],
         wpc[w] # "idle", replyer[r] = "open",
         wpc' = [wpc EXCEPT ![w] = l], replyer' = [replyer EXCEPT ![r] = "fired"],
         UNCHANGED <<requests, apc, wreq, replies>>
  PROVE  SentOnce' /\ WorkerPlaces' /\ OneReply'
<1>1. wpc'[w] = l /\ \A u \in Workers \ {w} : wpc'[u] = wpc[u]
  BY DEF ServerTypes, ServerTypeOK
<1>2. replyer'[r] = "fired" /\ \A k \in Calls \ {r} : replyer'[k] = replyer[k]
  BY DEF ServerTypes, ServerTypeOK
<1>3. \A k \in Calls : Unserved(k) => Unserved(k)'
  BY <1>2 DEF Unserved
<1>4. SentOnce'
  BY <1>3 DEF SentOnce, Request
<1>5. ASSUME NEW u \in Workers \ {w}
      PROVE  PlaceOK(u)'
  <2>1. PlaceOK(u)
    BY DEF WorkerPlaces
  <2>2. wpc[u] = "send" => wreq[u] # r
    BY <2>1 DEF PlaceOK
  <2> QED
    BY SMT, <1>1, <1>2, <2>1, <2>2 DEF PlaceOK
<1>6. PlaceOK(w)'
  <2>1. \A u \in Workers \ {w} : wpc[u] = "send" => wreq[u] # r
    BY DEF WorkerPlaces, PlaceOK
  <2>2. replies[r] = 0
    BY DEF OneReply
  <2> QED
    BY <1>1, <1>2, <2>1, <2>2 DEF PlaceOK
<1>7. WorkerPlaces'
  BY <1>5, <1>6 DEF WorkerPlaces
<1>8. OneReply'
  BY <1>2 DEF OneReply
<1> QED
  BY <1>4, <1>7, <1>8

(* The response of the worker's request leaves.                            *)
LEMMA SentStep ==
  ASSUME ServerTypes, SentOnce, WorkerPlaces, OneReply,
         NEW w \in Workers, NEW r \in Calls, r = wreq[w], wpc[w] = "send",
         wpc' = [wpc EXCEPT ![w] = "uncount"], replies' = [replies EXCEPT ![r] = @ + 1],
         UNCHANGED <<requests, apc, wreq, replyer>>
  PROVE  SentOnce' /\ WorkerPlaces' /\ OneReply' /\ replies' \in [Calls -> Nat]
<1>1. wpc'[w] = "uncount" /\ \A u \in Workers \ {w} : wpc'[u] = wpc[u]
  BY DEF ServerTypes, ServerTypeOK
<1>2. replies[r] = 0 /\ replyer[r] = "fired"
  BY DEF WorkerPlaces, PlaceOK
<1>3. /\ replies' \in [Calls -> Nat] /\ replies'[r] = 1
      /\ \A k \in Calls \ {r} : replies'[k] = replies[k]
  BY SMT, <1>2 DEF ServerTypes, ServerTypeOK
<1>4. \A k \in Calls : Unserved(k) => Unserved(k)'
  BY <1>3 DEF Unserved
<1>5. SentOnce'
  BY <1>4 DEF SentOnce, Request
<1>6. ASSUME NEW u \in Workers \ {w}
      PROVE  PlaceOK(u)'
  <2>1. PlaceOK(u)
    BY DEF WorkerPlaces
  <2>2. wpc[u] \in {"send", "found", "missing"} => wreq[u] # r
    BY <1>2, <2>1 DEF PlaceOK
  <2> QED
    BY <1>1, <1>3, <2>1, <2>2 DEF PlaceOK
<1>7. PlaceOK(w)'
  BY <1>1, <1>2 DEF PlaceOK
<1>8. WorkerPlaces'
  BY <1>6, <1>7 DEF WorkerPlaces
<1>9. OneReply'
  BY SMT, <1>2, <1>3 DEF OneReply
<1> QED
  BY <1>3, <1>5, <1>8, <1>9

(* The count follows the requests that are open and those being completed. *)
LEMMA PendingStep ==
  ASSUME Pending
  PROVE  /\ pendingCount \in Nat
         /\ Open' = Open /\ Completing' = Completing /\ pendingCount' = pendingCount => Pending'
         /\ \A r : r \notin Open /\ Open' = Open \cup {r} /\ Completing' = Completing
                     /\ pendingCount' = pendingCount + 1 => Pending' /\ pendingCount' \in Nat
         /\ \A r, w : r \in Open /\ w \notin Completing /\ Open' = Open \ {r}
                        /\ Completing' = Completing \cup {w} /\ pendingCount' = pendingCount => Pending'
         /\ \A w : w \in Completing /\ Open' = Open /\ Completing' = Completing \ {w}
                     /\ pendingCount' = pendingCount - 1 => Pending' /\ pendingCount' \in Nat
<1>1. Cardinality(Open) \in Nat /\ Cardinality(Completing) \in Nat
  BY FS_CardinalityType DEF Pending
<1>2. pendingCount \in Nat
  BY SMT, <1>1 DEF Pending
<1>3. ASSUME Open' = Open, Completing' = Completing, pendingCount' = pendingCount
      PROVE  Pending'
  BY <1>3 DEF Pending
<1>4. ASSUME NEW r, r \notin Open, Open' = Open \cup {r}, Completing' = Completing,
             pendingCount' = pendingCount + 1
      PROVE  Pending' /\ pendingCount' \in Nat
  <2>1. IsFiniteSet(Open') /\ Cardinality(Open') = Cardinality(Open) + 1
    BY <1>4, FS_AddElement DEF Pending
  <2> QED
    BY SMT, <1>1, <1>2, <1>4, <2>1 DEF Pending
<1>5. ASSUME NEW r, NEW w, r \in Open, w \notin Completing, Open' = Open \ {r},
             Completing' = Completing \cup {w}, pendingCount' = pendingCount
      PROVE  Pending'
  <2>1. IsFiniteSet(Open') /\ Cardinality(Open') = Cardinality(Open) - 1
    BY <1>5, FS_RemoveElement DEF Pending
  <2>2. IsFiniteSet(Completing') /\ Cardinality(Completing') = Cardinality(Completing) + 1
    BY <1>5, FS_AddElement DEF Pending
  <2> QED
    BY SMT, <1>1, <1>5, <2>1, <2>2 DEF Pending
<1>6. ASSUME NEW w, w \in Completing, Open' = Open, Completing' = Completing \ {w},
             pendingCount' = pendingCount - 1
      PROVE  Pending' /\ pendingCount' \in Nat
  <2>1. IsFiniteSet(Completing') /\ Cardinality(Completing') = Cardinality(Completing) - 1
    BY <1>6, FS_RemoveElement DEF Pending
  <2>2. Cardinality(Completing') \in Nat
    BY <2>1, FS_CardinalityType
  <2> QED
    BY SMT, <1>1, <1>6, <2>1, <2>2 DEF Pending
<1> QED
  BY <1>2, <1>3, <1>4, <1>5, <1>6

(* A worker's step keeps the server's invariant.                           *)
LEMMA WorkerKeeps ==
  ASSUME ServerInv, UNCHANGED apc, NEW w \in Workers, WorkerStep(w)
  PROVE  ServerInv'
<1>1. ServerTypes /\ SentOnce /\ WorkerPlaces /\ OneReply /\ Pending /\ PlaceOK(w)
  BY DEF ServerInv, WorkerPlaces
<1>2. /\ replyer \in [Calls -> {"none", "open", "fired"}] /\ needResp \subseteq Calls
      /\ wpc \in [Workers -> {"idle", "found", "missing", "handler", "reply", "drop", "send", "uncount"}]
      /\ wreq \in [Workers -> Calls \cup {None}] /\ inMethod \subseteq Workers /\ replies \in [Calls -> Nat]
      /\ registered \in BOOLEAN /\ None \notin Calls
  BY <1>1, RPCClientAssumption DEF ServerTypes, ServerTypeOK
<1>3. ASSUME NEW l \in {"idle", "found", "missing", "handler", "reply", "drop", "send", "uncount"}, WGoto(w, l)
      PROVE  /\ wpc' \in [Workers -> {"idle", "found", "missing", "handler", "reply", "drop", "send", "uncount"}]
             /\ wpc'[w] = l /\ \A u \in Workers \ {w} : wpc'[u] = wpc[u]
  BY <1>2, <1>3 DEF WGoto
<1>4. ASSUME UNCHANGED <<requests, registered, replyer, needResp, replies>>, NEW r \in Calls \cup {None},
             NEW l \in {"idle", "handler", "reply", "drop", "uncount"}, WGoto(w, l),
             wreq' = [wreq EXCEPT ![w] = r], l # "idle" => r # None, r # None => replyer[r] # "none",
             l = "uncount" => replyer[r] = "fired", inMethod' \subseteq Workers,
             \/ /\ pendingCount' = pendingCount
                /\ w \in Completing <=> l = "uncount"
             \/ /\ pendingCount' = pendingCount - 1
                /\ w \in Completing /\ l # "uncount"
      PROVE  ServerInv'
  <2>1. SentOnce' /\ WorkerPlaces' /\ OneReply'
    BY <1>1, <1>4, MoveStep DEF WGoto
  <2>2. Open' = Open
    BY <1>4 DEF Open
  <2>3. Completing' = IF l = "uncount" THEN Completing \cup {w} ELSE Completing \ {w}
    BY <1>3, <1>4 DEF Completing
  <2>4. Pending' /\ pendingCount' \in Nat
    <3>1. CASE pendingCount' = pendingCount /\ (w \in Completing <=> l = "uncount")
      <4>1. Completing' = Completing
        BY <2>3, <3>1
      <4> QED
        BY <1>1, <2>2, <3>1, <4>1, PendingStep
    <3>2. CASE pendingCount' = pendingCount - 1 /\ w \in Completing /\ l # "uncount"
      <4>1. Completing' = Completing \ {w}
        BY <2>3, <3>2
      <4> QED
        BY <1>1, <2>2, <3>2, <4>1, PendingStep
    <3> QED
      BY <1>4, <3>1, <3>2
  <2>5. ServerTypes'
    <3>1. wpc' \in [Workers -> {"idle", "found", "missing", "handler", "reply", "drop", "send", "uncount"}]
      BY <1>3, <1>4
    <3>2. wreq' \in [Workers -> Calls \cup {None}]
      BY <1>2, <1>4
    <3> QED
      BY <1>1, <1>4, <2>4, <3>1, <3>2 DEF ServerTypes, ServerTypeOK
  <2> QED
    BY <2>1, <2>4, <2>5 DEF ServerInv
<1>5. ASSUME UNCHANGED <<requests, registered, replyer, needResp, inMethod, replies>>, WReturn(w),
             \/ wpc[w] \in {"reply", "drop"} /\ pendingCount' = pendingCount
             \/ wpc[w] = "uncount" /\ pendingCount' = pendingCount - 1
      PROVE  ServerInv'
  <2>1. wreq[w] \in Calls /\ replyer[wreq[w]] # "none"
    BY <1>1, <1>5 DEF PlaceOK
  <2>2. w \in Completing <=> wpc[w] = "uncount"
    BY <1>5 DEF Completing
  <2>3. CASE w \in inMethod
    <3>1. WGoto(w, "handler") /\ wreq' = [wreq EXCEPT ![w] = wreq[w]]
      BY <1>2, <1>5, <2>3 DEF WReturn
    <3> QED
      BY <1>2, <1>4, <1>5, <2>1, <2>2, <3>1
  <2>4. CASE w \notin inMethod
    <3>1. WGoto(w, "idle") /\ wreq' = [wreq EXCEPT ![w] = None]
      BY <1>5, <2>4 DEF WReturn
    <3> QED
      BY <1>2, <1>4, <1>5, <2>2, <3>1
  <2> QED
    BY <2>3, <2>4
<1>6. ASSUME UNCHANGED <<requests, registered, needResp, inMethod, replies, wreq, pendingCount>>,
             wpc[w] \in {"reply", "drop"}, replyer[wreq[w]] = "open",
             replyer' = [replyer EXCEPT ![wreq[w]] = "fired"],
             NEW l \in {"send", "uncount"}, WGoto(w, l)
      PROVE  ServerInv'
  <2>1. PICK r \in Calls : r = wreq[w]
    BY <1>1, <1>6 DEF PlaceOK
  <2>2. SentOnce' /\ WorkerPlaces' /\ OneReply'
    BY <1>1, <1>6, <2>1, FireStep DEF WGoto
  <2>3. /\ replyer' \in [Calls -> {"none", "open", "fired"}] /\ replyer'[r] = "fired"
        /\ \A k \in Calls \ {r} : replyer'[k] = replyer[k]
    BY <1>2, <1>6, <2>1
  <2>4. Open' = Open \ {r} /\ r \in Open
    BY <1>6, <2>1, <2>3 DEF Open
  <2>5. Completing' = Completing \cup {w} /\ w \notin Completing
    BY <1>3, <1>6 DEF Completing
  <2>6. Pending' /\ pendingCount \in Nat
    BY <1>1, <1>6, <2>4, <2>5, PendingStep
  <2>7. ServerTypes'
    <3>1. wpc' \in [Workers -> {"idle", "found", "missing", "handler", "reply", "drop", "send", "uncount"}]
      BY <1>3, <1>6
    <3> QED
      BY <1>1, <1>6, <2>3, <3>1 DEF ServerTypes, ServerTypeOK
  <2> QED
    BY <2>2, <2>6, <2>7 DEF ServerInv
<1>7. CASE OnRequest(w)
  <2>1. PICK m \in requests :
          /\ requests' = requests \ {m}
          /\ wreq' = [wreq EXCEPT ![w] = m.seq]
          /\ needResp' = IF m.needResp THEN needResp \cup {m.seq} ELSE needResp
    BY <1>7 DEF OnRequest
  <2>2. PICK k \in Calls : k = m.seq
    BY <1>1 DEF SentOnce, Request
  <2>3. /\ wpc[w] = "idle" /\ \E l \in {"found", "missing"} : WGoto(w, l)
        /\ UNCHANGED <<responses, registered, replyer, pendingCount, inMethod, replies>>
    BY <1>7 DEF OnRequest
  <2>4. PICK l \in {"found", "missing"} : WGoto(w, l)
    BY <2>3
  <2>5. /\ wpc' \in [Workers -> {"idle", "found", "missing", "handler", "reply", "drop", "send", "uncount"}]
        /\ wpc'[w] = l /\ \A u \in Workers \ {w} : wpc'[u] = wpc[u]
    BY <1>3, <2>4
  <2>6. /\ wreq' \in [Workers -> Calls \cup {None}] /\ wreq'[w] = k
        /\ \A u \in Workers \ {w} : wreq'[u] = wreq[u]
    BY <1>2, <2>1, <2>2
  <2>7. Unserved(k) /\ apc[k] \notin {"new", "send"} /\ \A n \in requests' : n.seq # k
    BY <1>1, <2>1, <2>2 DEF SentOnce
  <2>8. \A j \in Calls \ {k} : Unserved(j) => Unserved(j)'
    BY <2>3, <2>6 DEF Unserved
  <2>9. SentOnce'
    <3>1. requests' \subseteq Request /\ \A m1, m2 \in requests' : m1.seq = m2.seq => m1 = m2
      BY <1>1, <2>1 DEF SentOnce
    <3>2. \A n \in requests' : n.seq \in Calls \ {k} /\ Unserved(n.seq)
      BY <1>1, <2>1, <2>7 DEF SentOnce, Request
    <3>3. \A n \in requests' : Unserved(n.seq)'
      <4> SUFFICES ASSUME NEW n \in requests' PROVE Unserved(n.seq)'
        OBVIOUS
      <4>1. PICK j \in Calls : j = n.seq
        BY <3>2
      <4> QED
        BY <2>8, <3>2, <4>1
    <3>4. \A j \in Calls : apc'[j] \in {"new", "send"} => Unserved(j)' /\ \A n \in requests' : n.seq # j
      BY <1>1, <2>1, <2>7, <2>8 DEF SentOnce
    <3> QED
      BY <3>1, <3>3, <3>4 DEF SentOnce
  <2>10. ASSUME NEW u \in Workers \ {w}
         PROVE  PlaceOK(u)'
    <3>1. PlaceOK(u) /\ wreq[u] # k
      BY <1>1, <2>7 DEF WorkerPlaces, Unserved
    <3> QED
      BY <2>3, <2>5, <2>6, <3>1 DEF PlaceOK
  <2>11. PlaceOK(w)'
    BY <2>3, <2>5, <2>6, <2>7 DEF PlaceOK, Unserved
  <2>12. WorkerPlaces' /\ OneReply'
    BY <1>1, <2>3, <2>10, <2>11 DEF WorkerPlaces, OneReply
  <2>13. Open' = Open /\ Completing' = Completing
    BY <2>3, <2>5 DEF Open, Completing
  <2>14. Pending'
    BY <1>1, <2>3, <2>13, PendingStep
  <2>15. ServerTypes'
    <3>1. needResp' \subseteq Calls
      BY <1>2, <2>1, <2>2
    <3> QED
      BY <1>1, <2>3, <2>5, <2>6, <3>1 DEF ServerTypes, ServerTypeOK
  <2> QED
    BY <2>9, <2>12, <2>14, <2>15 DEF ServerInv
<1>8. CASE Count(w)
  <2>1. /\ wpc[w] \in {"found", "missing"} /\ \E l \in {"handler", "reply"} : WGoto(w, l)
        /\ replyer' = [replyer EXCEPT ![wreq[w]] = "open"] /\ pendingCount' = pendingCount + 1
        /\ inMethod' \subseteq Workers
        /\ UNCHANGED <<requests, registered, needResp, wreq, replies>>
    BY <1>2, <1>8 DEF Count, channelVars
  <2>2. PICK l \in {"handler", "reply"} : WGoto(w, l)
    BY <2>1
  <2>3. PICK k \in Calls : k = wreq[w]
    BY <1>1, <2>1 DEF PlaceOK
  <2>4. /\ wpc' \in [Workers -> {"idle", "found", "missing", "handler", "reply", "drop", "send", "uncount"}]
        /\ wpc'[w] = l /\ \A u \in Workers \ {w} : wpc'[u] = wpc[u]
    BY <1>3, <2>2
  <2>5. /\ replyer' \in [Calls -> {"none", "open", "fired"}] /\ replyer'[k] = "open"
        /\ \A j \in Calls \ {k} : replyer'[j] = replyer[j]
    BY <1>2, <2>1, <2>3
  <2>6. replyer[k] = "none" /\ replies[k] = 0 /\ \A u \in Workers \ {w} : wreq[u] # k
    BY <1>1, <2>1, <2>3 DEF PlaceOK
  <2>7. \A j \in Calls : Unserved(j) => Unserved(j)'
    BY <2>1, <2>3, <2>5 DEF Unserved
  <2>8. SentOnce'
    BY <1>1, <2>1, <2>7 DEF SentOnce, Request
  <2>9. ASSUME NEW u \in Workers \ {w}
        PROVE  PlaceOK(u)'
    <3>1. PlaceOK(u) /\ wreq[u] # k
      BY <1>1, <2>6 DEF WorkerPlaces
    <3> QED
      BY SMT, <1>2, <2>1, <2>4, <2>5, <3>1 DEF PlaceOK
  <2>10. PlaceOK(w)'
    BY <2>1, <2>3, <2>4, <2>5 DEF PlaceOK
  <2>11. WorkerPlaces' /\ OneReply'
    BY <1>1, <2>1, <2>5, <2>6, <2>9, <2>10 DEF WorkerPlaces, OneReply
  <2>12. Open' = Open \cup {k} /\ k \notin Open /\ Completing' = Completing
    BY SMT, <2>1, <2>4, <2>5, <2>6 DEF Open, Completing
  <2>13. Pending' /\ pendingCount' \in Nat
    BY <1>1, <2>1, <2>12, PendingStep
  <2>14. ServerTypes'
    BY <1>1, <2>1, <2>4, <2>5, <2>13 DEF ServerTypes, ServerTypeOK
  <2> QED
    BY <2>8, <2>11, <2>13, <2>14 DEF ServerInv
<1>9. CASE HandlerCalls(w)
  <2>1. wpc[w] = "handler" /\ wreq[w] \in Calls /\ replyer[wreq[w]] # "none" /\ w \notin Completing
    BY <1>1, <1>9 DEF HandlerCalls, PlaceOK, Completing
  <2>2. PICK l \in {"reply", "drop"} : WGoto(w, l)
    BY <1>9 DEF HandlerCalls
  <2>3. UNCHANGED <<requests, registered, replyer, needResp, pendingCount, wreq, inMethod, replies>>
    BY <1>9 DEF HandlerCalls, channelVars
  <2>4. wreq' = [wreq EXCEPT ![w] = wreq[w]]
    BY <1>2, <2>3
  <2> QED
    BY <1>2, <1>4, <2>1, <2>2, <2>3, <2>4
<1>10. CASE HandlerEnds(w)
  <2>1. wpc[w] = "handler" /\ wreq[w] \in Calls /\ replyer[wreq[w]] # "none" /\ w \notin Completing
    BY <1>1, <1>10 DEF HandlerEnds, PlaceOK, Completing
  <2>2. UNCHANGED <<requests, registered, replyer, needResp, pendingCount, replies>> /\ inMethod' \subseteq Workers
    BY <1>2, <1>10 DEF HandlerEnds, channelVars
  <2>3. CASE WGoto(w, "idle") /\ wreq' = [wreq EXCEPT ![w] = None]
    BY <1>4, <2>1, <2>2, <2>3
  <2>4. CASE WGoto(w, "reply") /\ UNCHANGED wreq
    <3>1. wreq' = [wreq EXCEPT ![w] = wreq[w]]
      BY <1>2, <2>4
    <3> QED
      BY <1>2, <1>4, <2>1, <2>2, <2>4, <3>1
  <2> QED
    BY <1>10, <2>3, <2>4 DEF HandlerEnds
<1>11. CASE Later(w)
  <2>1. PICK r \in Calls : replyer[r] # "none" /\ wreq' = [wreq EXCEPT ![w] = r]
    BY <1>11 DEF Later
  <2>2. PICK l \in {"reply", "drop"} : WGoto(w, l)
    BY <1>11 DEF Later
  <2>3. UNCHANGED <<requests, registered, replyer, needResp, pendingCount, inMethod, replies>> /\ w \notin Completing
    BY <1>11 DEF Later, channelVars, Completing
  <2> QED
    BY <1>2, <1>4, <2>1, <2>2, <2>3
<1>12. CASE Reply(w)
  <2>1. wpc[w] = "reply" /\ UNCHANGED <<requests, registered, needResp, pendingCount, inMethod, replies>>
    BY <1>12 DEF Reply, channelVars
  <2>2. CASE replyer[wreq[w]] = "open"
    <3>1. /\ replyer' = [replyer EXCEPT ![wreq[w]] = "fired"] /\ UNCHANGED wreq
          /\ \E l \in {"send", "uncount"} : WGoto(w, l)
      BY <1>12, <2>2 DEF Reply
    <3> QED
      BY <1>6, <2>1, <2>2, <3>1
  <2>3. CASE replyer[wreq[w]] # "open"
    BY <1>5, <1>12, <2>1, <2>3 DEF Reply
  <2> QED
    BY <2>2, <2>3
<1>13. CASE DropResponse(w)
  <2>1. wpc[w] = "drop" /\ UNCHANGED <<requests, registered, needResp, pendingCount, inMethod, replies>>
    BY <1>13 DEF DropResponse, channelVars
  <2>2. CASE replyer[wreq[w]] = "open"
    BY <1>6, <1>13, <2>1, <2>2 DEF DropResponse
  <2>3. CASE replyer[wreq[w]] # "open"
    BY <1>5, <1>13, <2>1, <2>3 DEF DropResponse
  <2> QED
    BY <2>2, <2>3
<1>14. CASE SendResponse(w)
  <2>1. /\ wpc[w] = "send" /\ WGoto(w, "uncount")
        /\ UNCHANGED <<requests, registered, replyer, needResp, pendingCount, wreq, inMethod>>
    BY <1>14 DEF SendResponse
  <2>2. PICK r \in Calls : r = wreq[w] /\ replyer[r] = "fired"
    BY <1>1, <2>1 DEF PlaceOK
  <2>3. CASE replies' = replies
    <3>1. wreq' = [wreq EXCEPT ![w] = r] /\ w \in Completing
      BY <1>2, <2>1, <2>2 DEF Completing
    <3> QED
      BY <1>2, <1>4, <2>1, <2>2, <2>3, <3>1
  <2>4. CASE replies' = [replies EXCEPT ![r] = @ + 1]
    <3>1. SentOnce' /\ WorkerPlaces' /\ OneReply' /\ replies' \in [Calls -> Nat]
      BY <1>1, <2>1, <2>2, <2>4, SentStep DEF WGoto
    <3>2. /\ wpc' \in [Workers -> {"idle", "found", "missing", "handler", "reply", "drop", "send", "uncount"}]
          /\ wpc'[w] = "uncount" /\ \A u \in Workers \ {w} : wpc'[u] = wpc[u]
      BY <1>3, <2>1
    <3>3. Open' = Open /\ Completing' = Completing
      BY <2>1, <3>2 DEF Open, Completing
    <3>4. Pending'
      BY <1>1, <2>1, <3>3, PendingStep
    <3>5. ServerTypes'
      BY <1>1, <2>1, <3>1, <3>2 DEF ServerTypes, ServerTypeOK
    <3> QED
      BY <3>1, <3>4, <3>5 DEF ServerInv
  <2> QED
    BY <1>14, <2>2, <2>3, <2>4 DEF SendResponse
<1>15. CASE Uncount(w)
  BY <1>5, <1>15 DEF Uncount, channelVars
<1> QED
  BY <1>7, <1>8, <1>9, <1>10, <1>11, <1>12, <1>13, <1>14, <1>15 DEF WorkerStep

(* A request leaves the channel unserved: it may have been answered once.  *)
LEMMA TakeRequestStep ==
  ASSUME ServerInv, NEW m \in requests, requests' = requests \ {m},
         UNCHANGED <<apc, registered, replyer, needResp, pendingCount, wpc, wreq, inMethod>>,
         replies' = replies \/ replies' = [replies EXCEPT ![m.seq] = @ + 1]
  PROVE  ServerInv'
<1>1. ServerTypes /\ SentOnce /\ WorkerPlaces /\ OneReply /\ Pending
  BY DEF ServerInv
<1>2. PICK k \in Calls : k = m.seq
  BY <1>1 DEF SentOnce, Request
<1>3. Unserved(k) /\ apc[k] \notin {"new", "send"} /\ \A n \in requests' : n.seq # k
  BY <1>1, <1>2 DEF SentOnce
<1>4. /\ replies' \in [Calls -> Nat] /\ replies'[k] \in {0, 1}
      /\ \A j \in Calls \ {k} : replies'[j] = replies[j]
  <2>1. replies \in [Calls -> Nat] /\ replies[k] = 0
    BY <1>1, <1>3 DEF ServerTypes, ServerTypeOK, Unserved
  <2> QED
    BY SMT, <1>2, <2>1
<1>5. \A j \in Calls \ {k} : Unserved(j) => Unserved(j)'
  BY <1>4 DEF Unserved
<1>6. SentOnce'
  <2>1. requests' \subseteq Request /\ \A m1, m2 \in requests' : m1.seq = m2.seq => m1 = m2
    BY <1>1 DEF SentOnce
  <2>2. \A n \in requests' : n.seq \in Calls \ {k} /\ Unserved(n.seq)
    BY <1>1, <1>3 DEF SentOnce, Request
  <2>3. \A n \in requests' : Unserved(n.seq)'
    <3> SUFFICES ASSUME NEW n \in requests' PROVE Unserved(n.seq)'
      OBVIOUS
    <3>1. PICK j \in Calls : j = n.seq
      BY <2>2
    <3> QED
      BY <1>5, <2>2, <3>1
  <2>4. \A j \in Calls : apc'[j] \in {"new", "send"} => Unserved(j)' /\ \A n \in requests' : n.seq # j
    BY <1>1, <1>3, <1>5 DEF SentOnce
  <2> QED
    BY <2>1, <2>3, <2>4 DEF SentOnce
<1>7. ASSUME NEW w \in Workers
      PROVE  PlaceOK(w)'
  <2>1. PlaceOK(w) /\ wreq[w] # k
    BY <1>1, <1>3 DEF WorkerPlaces, Unserved
  <2> QED
    BY <1>4, <2>1 DEF PlaceOK
<1>8. OneReply'
  BY SMT, <1>1, <1>3, <1>4 DEF OneReply, Unserved
<1>9. Pending'
  <2>1. Open' = Open /\ Completing' = Completing
    BY DEF Open, Completing
  <2> QED
    BY <1>1, <2>1, PendingStep
<1>10. ServerTypes'
  BY <1>1, <1>4 DEF ServerTypes, ServerTypeOK
<1> QED
  BY <1>6, <1>7, <1>8, <1>9, <1>10 DEF ServerInv, WorkerPlaces

(* What the server can see of a client's step: a call goes on, and its     *)
(* request may leave when its sender is done with it.                      *)
LEMMA ClientSends ==
  ASSUME ClientNext, apc \in [Calls -> {"new", "posted", "send", "sent", "error"}]
  PROVE  /\ apc' \in [Calls -> {"new", "posted", "send", "sent", "error"}]
         /\ \A k \in Calls : apc'[k] \in {"new", "send"} => apc[k] \in {"new", "send"}
         /\ \/ requests' = requests
            \/ \E k \in Calls, b \in BOOLEAN :
                 /\ requests' = requests \cup {[seq |-> k, needResp |-> b]}
                 /\ apc[k] \in {"new", "send"} /\ apc'[k] \notin {"new", "send"}
<1> DEFINE Goal == /\ apc' \in [Calls -> {"new", "posted", "send", "sent", "error"}]
                   /\ \A k \in Calls : apc'[k] \in {"new", "send"} => apc[k] \in {"new", "send"}
                   /\ \/ requests' = requests
                      \/ \E k \in Calls, b \in BOOLEAN :
                           /\ requests' = requests \cup {[seq |-> k, needResp |-> b]}
                           /\ apc[k] \in {"new", "send"} /\ apc'[k] \notin {"new", "send"}
<1>1. ASSUME UNCHANGED <<requests, apc>>
      PROVE  Goal
  BY <1>1
<1>2. ASSUME NEW k \in Calls, CallStep(k)
      PROVE  Goal
  <2>1. ASSUME NEW c, Post(k, c)
        PROVE  Goal
    <3>1. /\ apc[k] = "new" /\ apc' = [apc EXCEPT ![k] = "posted"]
          /\ requests' = requests \/ requests' = requests \cup {[seq |-> k, needResp |-> FALSE]}
      BY <2>1 DEF Post
    <3>2. apc'[k] = "posted" /\ \A j \in Calls \ {k} : apc'[j] = apc[j]
      BY <3>1
    <3> QED
      BY <3>1, <3>2
  <2>2. ASSUME NEW c, NEW x, AsynCall(k, c, x)
        PROVE  Goal
    <3>1. apc[k] = "new" /\ apc' = [apc EXCEPT ![k] = "send"] /\ requests' = requests
      BY <2>2 DEF AsynCall, channelVars
    <3> QED
      BY <3>1
  <2>3. CASE SendRequest(k)
    <3>1. /\ apc[k] = "send" /\ apc' = [apc EXCEPT ![k] = "sent"]
          /\ requests' = requests \cup {[seq |-> k, needResp |-> TRUE]}
      BY <2>3 DEF SendRequest
    <3>2. apc'[k] = "sent" /\ \A j \in Calls \ {k} : apc'[j] = apc[j]
      BY <3>1
    <3> QED
      BY <3>1, <3>2
  <2>4. CASE SendFails(k)
    <3>1. apc' = [apc EXCEPT ![k] = "error"] /\ requests' = requests
      BY <2>4 DEF SendFails, channelVars
    <3> QED
      BY <3>1
  <2> QED
    BY <1>2, <2>1, <2>2, <2>3, <2>4 DEF CallStep
<1>3. ASSUME NEW k \in Calls, TimerStep(k)
      PROVE  UNCHANGED <<requests, apc>>
  BY <1>3 DEF TimerStep, TimerFires, onTimeout, TimeoutAnswers, channelVars, callVars
<1>4. ASSUME NEW k \in Calls, ResponseStep(k)
      PROVE  UNCHANGED <<requests, apc>>
  BY <1>4 DEF ResponseStep, OnResponse, ResponseAnswers, channelVars, callVars
<1>5. ASSUME NEW c \in Channels, OnChannelDisconnect(c) \/ WalkStep(c)
      PROVE  UNCHANGED <<requests, apc>>
  BY <1>5 DEF OnChannelDisconnect, WalkStep, WalkFirst, WalkNext, WalkLook, WalkAnswers, channelVars, callVars
<1> HIDE DEF Goal
<1>6. Goal
  BY <1>1, <1>2, <1>3, <1>4, <1>5 DEF ClientNext
<1> QED
  BY <1>6 DEF Goal

(* A client's step puts a request the server has not met in flight.        *)
LEMMA ClientKeeps ==
  ASSUME ServerInv, ClientNext, UNCHANGED serverVars
  PROVE  ServerInv'
<1>1. ServerTypes /\ SentOnce /\ WorkerPlaces /\ OneReply /\ Pending
  BY DEF ServerInv
<1>2. UNCHANGED <<registered, replyer, needResp, pendingCount, wpc, wreq, inMethod, replies>>
  BY DEF serverVars, workerVars
<1>3. /\ apc' \in [Calls -> {"new", "posted", "send", "sent", "error"}]
      /\ \A k \in Calls : apc'[k] \in {"new", "send"} => apc[k] \in {"new", "send"}
      /\ \/ requests' = requests
         \/ \E k \in Calls, b \in BOOLEAN :
              /\ requests' = requests \cup {[seq |-> k, needResp |-> b]}
              /\ apc[k] \in {"new", "send"} /\ apc'[k] \notin {"new", "send"}
  BY <1>1, ClientSends DEF ServerTypes
<1>4. \A k \in Calls : Unserved(k)' <=> Unserved(k)
  BY <1>2 DEF Unserved
<1>5. SentOnce'
  <2>1. CASE requests' = requests
    BY <1>1, <1>3, <1>4, <2>1 DEF SentOnce, Request
  <2>2. ASSUME NEW k \in Calls, NEW b \in BOOLEAN,
               requests' = requests \cup {[seq |-> k, needResp |-> b]},
               apc[k] \in {"new", "send"}, apc'[k] \notin {"new", "send"}
        PROVE  SentOnce'
    <3> DEFINE new == [seq |-> k, needResp |-> b]
    <3>1. new \in Request /\ new.seq = k
      BY DEF Request
    <3>2. Unserved(k) /\ \A m \in requests : m.seq \in Calls /\ m.seq # k
      BY <1>1, <2>2 DEF SentOnce, Request
    <3> HIDE DEF new
    <3>3. requests' = requests \cup {new}
      BY <2>2 DEF new
    <3>4. requests' \subseteq Request /\ \A m, n \in requests' : m.seq = n.seq => m = n
      BY <1>1, <3>1, <3>2, <3>3 DEF SentOnce
    <3>5. \A m \in requests' : m.seq \in Calls /\ Unserved(m.seq)
      BY <1>1, <3>1, <3>2, <3>3 DEF SentOnce
    <3>6. \A m \in requests' : Unserved(m.seq)'
      <4> SUFFICES ASSUME NEW m \in requests' PROVE Unserved(m.seq)'
        OBVIOUS
      <4>1. PICK j \in Calls : j = m.seq
        BY <3>5
      <4> QED
        BY <1>4, <3>5, <4>1
    <3>7. \A j \in Calls : apc'[j] \in {"new", "send"} => Unserved(j)' /\ \A m \in requests' : m.seq # j
      BY <1>1, <1>3, <1>4, <2>2, <3>1, <3>3 DEF SentOnce
    <3> QED
      BY <3>4, <3>6, <3>7 DEF SentOnce
  <2> QED
    BY <1>3, <2>1, <2>2
<1>6. WorkerPlaces' /\ OneReply'
  BY <1>1, <1>2 DEF WorkerPlaces, PlaceOK, OneReply
<1>7. Pending'
  BY <1>1, <1>2 DEF Pending, Open, Completing
<1>8. ServerTypes'
  BY <1>1, <1>2, <1>3 DEF ServerTypes, ServerTypeOK
<1> QED
  BY <1>5, <1>6, <1>7, <1>8 DEF ServerInv

(* Before the first request.                                               *)
LEMMA InitServerInv == Init => ServerInv
<1> SUFFICES ASSUME Init PROVE ServerInv
  OBVIOUS
<1>1. None \notin Calls
  BY RPCClientAssumption
<1>2. ServerTypes
  BY DEF Init, ServerInit, ClientInit, ServerTypes, ServerTypeOK
<1>3. SentOnce
  BY <1>1 DEF Init, ServerInit, ChannelInit, SentOnce, Unserved
<1>4. WorkerPlaces /\ OneReply
  BY SMT DEF Init, ServerInit, WorkerPlaces, PlaceOK, OneReply
<1>5. Pending
  <2>1. Open = {} /\ Completing = {}
    BY DEF Init, ServerInit, Open, Completing
  <2> QED
    BY SMT, <2>1, FS_EmptySet DEF Init, ServerInit, Pending
<1> QED
  BY <1>2, <1>3, <1>4, <1>5 DEF ServerInv

(* With the client and the channel, the server's invariant holds.          *)
THEOREM ServerInvariance == Spec => []ServerInv
<1>1. ServerInv /\ [Next]_vars => ServerInv'
  <2> SUFFICES ASSUME ServerInv, [Next]_vars PROVE ServerInv'
    OBVIOUS
  <2>1. CASE ClientNext /\ UNCHANGED serverVars
    BY <2>1, ClientKeeps
  <2>2. CASE ServerNext /\ UNCHANGED clientVars
    <3>1. UNCHANGED apc
      BY <2>2 DEF clientVars, callVars
    <3>2. ASSUME NEW w \in Workers, WorkerStep(w)
          PROVE  ServerInv'
      BY <3>1, <3>2, WorkerKeeps
    <3>3. CASE SetMethod
      <4>1. UNCHANGED <<requests, replyer, needResp, pendingCount, wpc, wreq, inMethod, replies>>
        BY <3>3 DEF SetMethod, channelVars, workerVars
      <4>2. registered' \in BOOLEAN
        BY <3>3 DEF SetMethod
      <4>3. ServerTypes'
        BY <3>1, <4>1, <4>2 DEF ServerInv, ServerTypes, ServerTypeOK
      <4>4. SentOnce'
        BY <3>1, <4>1 DEF ServerInv, SentOnce, Unserved
      <4>5. WorkerPlaces' /\ OneReply' /\ Pending'
        BY <4>1 DEF ServerInv, WorkerPlaces, PlaceOK, OneReply, Pending, Open, Completing
      <4> QED
        BY <4>3, <4>4, <4>5 DEF ServerInv
    <3>4. CASE OnServiceStop
      BY <3>1, <3>4, TakeRequestStep DEF OnServiceStop, workerVars
    <3> QED
      BY <2>2, <3>2, <3>3, <3>4 DEF ServerNext
  <2>3. CASE AnyServer /\ UNCHANGED <<clientVars, serverVars>>
    BY <2>3, TakeRequestStep DEF AnyServer, clientVars, callVars, serverVars, workerVars
  <2>4. CASE UNCHANGED vars
    <3>1. UNCHANGED <<requests, apc, registered, replyer, needResp, pendingCount, wpc, wreq, inMethod, replies>>
      BY <2>4 DEF vars, channelVars, clientVars, callVars, serverVars, workerVars
    <3>2. ServerTypes'
      BY <3>1 DEF ServerInv, ServerTypes, ServerTypeOK
    <3>3. SentOnce'
      BY <3>1 DEF ServerInv, SentOnce, Unserved
    <3>4. WorkerPlaces' /\ OneReply' /\ Pending'
      BY <3>1 DEF ServerInv, WorkerPlaces, PlaceOK, OneReply, Pending, Open, Completing
    <3> QED
      BY <3>2, <3>3, <3>4 DEF ServerInv
  <2> QED
    BY <2>1, <2>2, <2>3, <2>4 DEF Next
<1> QED
  BY InitServerInv, <1>1, PTL DEF Spec

(* However often and from however many goroutines a replyer is used, one   *)
(* response leaves at most, and pendingCount counts what is not completed. *)
THEOREM OneReplyEach == Spec => []RepliesCounted
<1>1. ServerInv => RepliesCounted
  BY DEF ServerInv, OneReply, Pending, Open, Completing, RepliesCounted
<1> QED
  BY <1>1, ServerInvariance, PTL

-----------------------------------------------------------------------------
(* The map, the lists and the contexts.                                    *)

(* Responses answer calls.                                                 *)
LEMMA ResponsesStep ==
  ASSUME ServerInv, responses \subseteq Calls, [Next]_vars
  PROVE  responses' \subseteq Calls
<1>1. \A m \in requests : m.seq \in Calls
  BY DEF ServerInv, SentOnce, Request
<1>2. CASE ClientNext
  <2>1. ASSUME NEW k \in Calls, CallStep(k)
        PROVE  responses' = responses
    BY <2>1 DEF CallStep, Post, AsynCall, SendRequest, SendFails, channelVars
  <2>2. ASSUME NEW k \in Calls, TimerStep(k)
        PROVE  responses' = responses
    BY <2>2 DEF TimerStep, TimerFires, onTimeout, TimeoutAnswers, channelVars
  <2>3. ASSUME NEW k \in Calls, ResponseStep(k)
        PROVE  responses' = responses \/ responses' = responses \ {k}
    BY <2>3 DEF ResponseStep, OnResponse, ResponseAnswers, channelVars
  <2>4. ASSUME NEW c \in Channels, OnChannelDisconnect(c) \/ WalkStep(c)
        PROVE  responses' = responses
    BY <2>4 DEF OnChannelDisconnect, WalkStep, WalkFirst, WalkNext, WalkLook, WalkAnswers, channelVars
  <2>5. responses' = responses \/ \E k \in Calls : responses' = responses \ {k}
    BY <1>2, <2>1, <2>2, <2>3, <2>4 DEF ClientNext
  <2> QED
    BY <2>5
<1>3. CASE ServerNext
  <2>1. ASSUME NEW w \in Workers, SendResponse(w)
        PROVE  responses' \subseteq Calls
    <3>1. wreq[w] \in Calls
      <4>1. wpc[w] # "idle"
        BY <2>1, SMT DEF SendResponse
      <4> QED
        BY <4>1 DEF ServerInv, WorkerPlaces, PlaceOK
    <3> QED
      BY <2>1, <3>1 DEF SendResponse
  <2>2. CASE OnServiceStop
    BY <1>1, <2>2 DEF OnServiceStop
  <2>3. CASE SetMethod
    BY <2>3 DEF SetMethod, channelVars
  <2>4. ASSUME NEW w \in Workers, WorkerStep(w), ~SendResponse(w)
        PROVE  responses' = responses
    BY <2>4 DEF WorkerStep, OnRequest, Count, HandlerCalls, HandlerEnds, Later, Reply, DropResponse, Uncount, channelVars
  <2> QED
    BY <1>3, <2>1, <2>2, <2>3, <2>4 DEF ServerNext
<1>4. CASE AnyServer
  BY <1>1, <1>4 DEF AnyServer
<1>5. CASE UNCHANGED vars
  BY <1>5 DEF vars, channelVars
<1> QED
  BY <1>2, <1>3, <1>4, <1>5 DEF Next

(* The list of every channel is a ring through the contexts of its calls,  *)
(* as long as no channel disconnects.                                      *)
THEOREM ListInvariance == Spec => []ListInv
<1>1. Init => ListInv
  BY InitLists DEF Init
<1>2. ClientInv /\ ListInv /\ [Next]_vars => ListInv'
  <2> SUFFICES ASSUME ClientInv, ListInv, [Next]_vars
               PROVE  ListInv'
    OBVIOUS
  <2>1. CASE ClientNext
    BY <2>1, ListStep
  <2>2. CASE UNCHANGED clientVars
    <3>1. UNCHANGED <<env, panicked, dpc, callContexts, channels, nnext, pprev, channelID>>
      BY <2>2 DEF clientVars, contextVars, listVars, mapVars, walkVars
    <3> QED
      BY <3>1, ListsStay
  <2> QED
    BY <2>1, <2>2 DEF Next, vars
<1> QED
  BY <1>1, <1>2, ClientInvariance, PTL DEF Spec

(* The types of both sides, the release of the contexts, and, while no     *)
(* channel disconnects, the agreement of the map with the lists addCall    *)
(* and removeCallBySeqno keep: for any number of calls and channels, and   *)
(* any finite number of contexts.                                          *)
THEOREM MapAndListsAgree ==
  ASSUME IsFiniteSet(Contexts)
  PROVE  Spec => []ContextsMatch
<1> DEFINE Answers == responses \subseteq Calls
<1>1. ClientInv => ReleasedOnce
  BY OneUseReleases DEF ClientInv, Core, ClientTypes, PoolTypes
<1>2. ClientInv /\ ListInv => ListsMatch
  BY ListsAgree
<1>3. ClientInv /\ ServerInv /\ Answers => TypeOK
  <2> SUFFICES ASSUME ClientTypes, ServerInv, Answers
               PROVE  TypeOK
    BY DEF ClientInv
  <2>1. ClientTypeOK
    <3>1. \A c \in Channels : Node(dcc[c]) /\ Node(dc[c]) /\ Node(dnext[c])
      BY DEF ClientTypes, WalkTypes, Node, Nodes
    <3> QED
      BY <3>1 DEF ClientTypeOK, ClientTypes, PoolTypes, FieldTypes, LinkTypes, MapTypes, CallTypes,
                  TimerTypes, TimerStates, RespTypes, WalkTypes
  <2> QED
    BY <2>1 DEF TypeOK, ServerInv, ServerTypes, SentOnce
<1>4. Init => Answers
  BY DEF Init, ChannelInit
<1>5. ServerInv /\ Answers /\ [Next]_vars => Answers'
  BY ResponsesStep
<1> HIDE DEF Answers
<1>6. ReleasedOnce /\ ListsMatch /\ TypeOK => ContextsMatch
  BY DEF ContextsMatch
<1> QED
  BY <1>1, <1>2, <1>3, <1>4, <1>5, <1>6, ClientInvariance, ListInvariance, ServerInvariance, PTL DEF Spec
=============================================================================

