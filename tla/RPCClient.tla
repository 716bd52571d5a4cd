----------------------------- MODULE RPCClient ------------------------------
(***************************************************************************)
(* The client side, rpc/client.go.  A call in progress is a pooled         *)
(* callContext that is in the map callContexts and in the doubly linked    *)
(* list of its channel.  It is taken out by the response, by its deadline  *)
(* timer, by a failed send or by the disconnection of its channel, and     *)
(* goes back to the pool; the goroutine of a timer, of a sender and of a   *)
(* disconnection may still hold it then.                                   *)
(*                                                                         *)
(* Each section under mu is one action.  OnChannelDisconnect walks the     *)
(* list between its sections, without the lock.  The fields AsynCall       *)
(* writes into a context before addCall are written with it: a stale       *)
(* goroutine that reads them in between finds neither the old nor the new  *)
(* call in the map.                                                        *)
(***************************************************************************)
EXTENDS RPCChannel, Sequences

CONSTANTS
  Contexts,  \* the callContexts the pool can hand out
  Heads,     \* the channelCalls (their list heads)
  Channels,  \* channels, by UID
  Envs       \* environments of a behaviour: the channels it uses and what
             \* there is of "disconnect", "sendfail", "server" (RPCServer answers)

ASSUME RPCClientAssumption ==
  /\ None \notin Calls \cup Contexts \cup Heads \cup Channels
  /\ Contexts \cap Heads = {}
  /\ \A e \in Envs : e.channels \subseteq Channels

VARIABLES
  env,           \* the environment of this behaviour
  pool,          \* how many times the pool holds each context
  seq, channelID, onResponse, deadlineTimer,  \* fields of contexts
  nnext, pprev,  \* links of contexts and heads
  callContexts, channels,
  apc, actx, achan,  \* the goroutine in AsynCall or Post for each call
  tpc, tctx,     \* the deadline timer of each call and the context bound to it
  rpc, rctx,     \* the goroutine that handles the response of each call
  dpc, dcc, dc, dnext,  \* OnChannelDisconnect of each channel
  answers,       \* history: what the handler of each call was called with
  panicked       \* a nil pointer was dereferenced

contextVars == <<seq, channelID, onResponse, deadlineTimer>>
listVars == <<nnext, pprev>>
mapVars == <<callContexts, channels>>
callVars == <<apc, actx, achan>>
timerVars == <<tpc, tctx>>
respVars == <<rpc, rctx>>
walkVars == <<dpc, dcc, dc, dnext>>
clientVars == <<env, pool, contextVars, listVars, mapVars, callVars, timerVars,
                respVars, walkVars, answers, panicked>>

Nodes == Contexts \cup Heads

(* NewClient.                                                              *)
ClientInit ==
  /\ env \in Envs
  /\ pool = [x \in Contexts |-> 1]
  /\ seq = [x \in Contexts |-> None]
  /\ channelID = [x \in Contexts |-> None]
  /\ onResponse = [x \in Contexts |-> None]
  /\ deadlineTimer = [x \in Contexts |-> None]
  /\ nnext = [n \in Nodes |-> None]
  /\ pprev = [n \in Nodes |-> None]
  /\ callContexts = [k \in Calls |-> None]
  /\ channels = [c \in Channels |-> None]
  /\ apc = [k \in Calls |-> "new"]
  /\ actx = [k \in Calls |-> None]
  /\ achan = [k \in Calls |-> None]
  /\ tpc = [k \in Calls |-> "none"]
  /\ tctx = [k \in Calls |-> None]
  /\ rpc = [k \in Calls |-> "none"]
  /\ rctx = [k \in Calls |-> None]
  /\ dpc = [c \in Channels |-> "none"]
  /\ dcc = [c \in Channels |-> None]
  /\ dc = [c \in Channels |-> None]
  /\ dnext = [c \in Channels |-> None]
  /\ answers = [k \in Calls |-> <<>>]
  /\ panicked = FALSE

Release(x) == pool' = [pool EXCEPT ![x] = @ + 1]

(* A call's handler, as the context has it, is called.                     *)
Answer(x, how, by) == answers' = [answers EXCEPT ![onResponse[x]] = Append(@, <<how, by>>)]

(* time.Timer.Stop in the timer states t.                                  *)
Stopped(t, k) == IF k # None /\ t[k] = "armed" THEN [t EXCEPT ![k] = "none"] ELSE t

(* The heads nothing refers to: any of them can be the next channelCalls   *)
(* to be allocated.                                                        *)
FreeHeads ==
  {h \in Heads :
    /\ \A c \in Channels : h \notin {channels[c], dcc[c], dc[c], dnext[c]}
    /\ \A n \in Nodes \ {h} : h \notin {nnext[n], pprev[n]}}

NewHead == CHOOSE h \in FreeHeads : TRUE

(* Mutant: add does not link the old first call back to the new one.       *)
addNoBack(h, x, next) ==
  /\ nnext' = [nnext EXCEPT ![x] = next, ![h] = x]
  /\ pprev' = [pprev EXCEPT ![x] = h]

(* channelCalls.add, where next is the first node of the list of h, or h.  *)
add(h, x, next) ==
  /\ nnext' = [nnext EXCEPT ![x] = next, ![h] = x]
  /\ pprev' = [pprev EXCEPT ![x] = h, ![next] = IF next = h THEN h ELSE x]

(* addCall: the call k becomes findable and its timer is armed.            *)
addCall(k, c, x) ==
  LET new == channels[c] = None
      h   == IF new THEN NewHead ELSE channels[c]
  IN  /\ callContexts' = [callContexts EXCEPT ![k] = x]
      /\ channels' = [channels EXCEPT ![c] = h]
      /\ add(h, x, IF new THEN h ELSE nnext[h])
      /\ deadlineTimer' = [deadlineTimer EXCEPT ![x] = k]
      /\ tpc' = [tpc EXCEPT ![k] = "armed"]
      /\ tctx' = [tctx EXCEPT ![k] = x]

(* removeCallBySeqno with channelCalls.remove; t are the timer states with *)
(* the caller's own change.  The channel has no entry any more once        *)
(* OnChannelDisconnect took it, and empty() then dereferences nil.         *)
removeCallBySeqno(s, t) ==
  LET x    == callContexts[s]
      cc   == channels[channelID[x]]
      prev == pprev[x]
      next == nnext[x]
  IN  IF x = None
      THEN tpc' = t /\ UNCHANGED <<mapVars, listVars, panicked>>
      ELSE IF cc = None \/ prev = None \/ next = None
      THEN /\ panicked' = TRUE
           /\ tpc' = t
           /\ UNCHANGED <<mapVars, listVars>>
      ELSE /\ callContexts' = [callContexts EXCEPT ![s] = None]
           /\ nnext' = [nnext EXCEPT ![prev] = next, ![x] = None]
           /\ pprev' = [pprev EXCEPT ![next] = prev, ![x] = None]
           /\ channels' = IF nnext'[cc] = cc
                          THEN [channels EXCEPT ![channelID[x]] = None] ELSE channels
           /\ tpc' = Stopped(t, deadlineTimer[x])
           /\ UNCHANGED panicked

(* The call a context stands for is in the map.                            *)
Findable(x) == x \in Contexts /\ callContexts[seq[x]] # None

(* SendRequest of the program's channel fails on a closed connection and   *)
(* whenever the session refuses the message.                               *)
MayFail(c) == "sendfail" \in env.has \/ dpc[c] # "none"

(* callContextPool.Get: a context that was put back, or a new one; one     *)
(* context the program has not used yet is as good as another.             *)
getCallContext ==
  LET fresh == {x \in Contexts : seq[x] = None}
  IN  {x \in Contexts \ fresh : pool[x] > 0}
        \cup (IF fresh = {} THEN {} ELSE {CHOOSE x \in fresh : TRUE})

(* Post.                                                                   *)
Post(k, c) ==
  /\ apc[k] = "new"
  /\ apc' = [apc EXCEPT ![k] = "posted"]
  /\ achan' = [achan EXCEPT ![k] = c]
  /\ \/ dpc[c] = "none" /\ requests' = requests \cup {[seq |-> k, needResp |-> FALSE]}
     \/ MayFail(c) /\ UNCHANGED requests
  /\ UNCHANGED <<responses, env, pool, contextVars, listVars, mapVars, actx, timerVars,
                 respVars, walkVars, answers, panicked>>

(* AsynCall up to addCall; Call is AsynCall and a wait for its handler.    *)
(* Contexts and Heads bound what can be allocated.                         *)
AsynCall(k, c, x) ==
  /\ apc[k] = "new"
  /\ x \in getCallContext
  /\ channels[c] = None => FreeHeads # {}
  /\ pool' = [pool EXCEPT ![x] = @ - 1]
  /\ onResponse' = [onResponse EXCEPT ![x] = k]
  /\ seq' = [seq EXCEPT ![x] = k]
  /\ channelID' = [channelID EXCEPT ![x] = c]
  /\ addCall(k, c, x)
  /\ apc' = [apc EXCEPT ![k] = "send"]
  /\ actx' = [actx EXCEPT ![k] = x]
  /\ achan' = [achan EXCEPT ![k] = c]
  /\ UNCHANGED <<channelVars, env, respVars, walkVars, answers, panicked>>

(* AsynCall: the request is sent.                                          *)
SendRequest(k) ==
  /\ apc[k] = "send"
  /\ dpc[achan[k]] = "none"
  /\ requests' = requests \cup {[seq |-> k, needResp |-> TRUE]}
  /\ apc' = [apc EXCEPT ![k] = "sent"]
  /\ actx' = [actx EXCEPT ![k] = None]
  /\ UNCHANGED <<responses, env, pool, contextVars, listVars, mapVars, achan,
                 timerVars, respVars, walkVars, answers, panicked>>

(* Mutant: the context is released although the call was already removed.  *)
SendFailsReleases(k) ==
  LET x == actx[k]
  IN  /\ apc[k] = "send"
      /\ MayFail(achan[k])
      /\ apc' = [apc EXCEPT ![k] = "error"]
      /\ actx' = [actx EXCEPT ![k] = None]
      /\ removeCallBySeqno(seq[x], tpc)
      /\ Release(x)
      /\ UNCHANGED <<channelVars, env, contextVars, achan, tctx, respVars,
                     walkVars, answers>>

(* AsynCall: SendRequest fails; the call the context stands for now is     *)
(* removed without an answer.                                              *)
SendFails(k) ==
  LET x == actx[k]
  IN  /\ apc[k] = "send"
      /\ MayFail(achan[k])
      /\ apc' = [apc EXCEPT ![k] = "error"]
      /\ actx' = [actx EXCEPT ![k] = None]
      /\ removeCallBySeqno(seq[x], tpc)
      /\ IF Findable(x) /\ ~panicked' THEN Release(x) ELSE UNCHANGED pool
      /\ UNCHANGED <<channelVars, env, contextVars, achan, tctx, respVars,
                     walkVars, answers>>

(* The deadline passes and the runtime starts onTimeout.                   *)
TimerFires(k) ==
  /\ tpc[k] = "armed"
  /\ tpc' = [tpc EXCEPT ![k] = "running"]
  /\ UNCHANGED <<channelVars, env, pool, contextVars, listVars, mapVars, callVars, tctx,
                 respVars, walkVars, answers, panicked>>

(* onTimeout: the call the context stands for now is removed.              *)
onTimeout(k) ==
  /\ tpc[k] = "running"
  /\ removeCallBySeqno(seq[tctx[k]],
       [tpc EXCEPT ![k] = IF Findable(tctx[k]) THEN "respond" ELSE "done"])
  /\ tctx' = [tctx EXCEPT ![k] = IF Findable(@) THEN @ ELSE None]
  /\ UNCHANGED <<channelVars, env, pool, contextVars, callVars, respVars,
                 walkVars, answers>>

(* onTimeout: the handler is called and the context released.              *)
TimeoutAnswers(k) ==
  /\ tpc[k] = "respond"
  /\ Answer(tctx[k], "timeout", k)
  /\ Release(tctx[k])
  /\ tpc' = [tpc EXCEPT ![k] = "done"]
  /\ tctx' = [tctx EXCEPT ![k] = None]
  /\ UNCHANGED <<channelVars, env, contextVars, listVars, mapVars, callVars,
                 respVars, walkVars, panicked>>

(* Mutant: responses are matched to calls in the order they arrive.        *)
OnResponseInOrder(k) ==
  /\ k \in responses
  /\ rpc[k] # "respond"
  /\ responses' = responses \ {k}
  /\ \E j \in Calls :
       /\ callContexts[j] # None
       /\ removeCallBySeqno(j, tpc)
       /\ rctx' = [rctx EXCEPT ![k] = callContexts[j]]
  /\ rpc' = [rpc EXCEPT ![k] = "respond"]
  /\ UNCHANGED <<requests, env, pool, contextVars, callVars, tctx, walkVars, answers>>

(* OnRPCMessage: the response of k arrives and its call is removed.        *)
OnResponse(k) ==
  /\ k \in responses
  /\ rpc[k] # "respond"
  /\ responses' = responses \ {k}
  /\ removeCallBySeqno(k, tpc)
  /\ rpc' = [rpc EXCEPT ![k] = IF callContexts[k] # None THEN "respond" ELSE "done"]
  /\ rctx' = [rctx EXCEPT ![k] = callContexts[k]]
  /\ UNCHANGED <<requests, env, pool, contextVars, callVars, tctx, walkVars, answers>>

(* OnRPCMessage: the handler is called and the context released.           *)
ResponseAnswers(k) ==
  /\ rpc[k] = "respond"
  /\ Answer(rctx[k], "response", k)
  /\ Release(rctx[k])
  /\ rpc' = [rpc EXCEPT ![k] = "done"]
  /\ rctx' = [rctx EXCEPT ![k] = None]
  /\ UNCHANGED <<channelVars, env, contextVars, listVars, mapVars, callVars, timerVars,
                 walkVars, panicked>>

(* OnChannelDisconnect: the channel's list is taken.                       *)
OnChannelDisconnect(c) ==
  /\ "disconnect" \in env.has
  /\ dpc[c] = "none"
  /\ dpc' = [dpc EXCEPT ![c] = IF channels[c] = None THEN "done" ELSE "first"]
  /\ dcc' = [dcc EXCEPT ![c] = channels[c]]
  /\ channels' = [channels EXCEPT ![c] = None]
  /\ UNCHANGED <<channelVars, env, pool, contextVars, listVars, callContexts, callVars,
                 timerVars, respVars, dc, dnext, answers, panicked>>

(* The walk reads the first node, without the lock.                        *)
WalkFirst(c) ==
  /\ dpc[c] = "first"
  /\ dc' = [dc EXCEPT ![c] = nnext[dcc[c]]]
  /\ dpc' = [dpc EXCEPT ![c] = "next"]
  /\ UNCHANGED <<channelVars, env, pool, contextVars, listVars, mapVars, callVars,
                 timerVars, respVars, dcc, dnext, answers, panicked>>

(* The walk ends at its head or reads the link of a node without the lock; *)
(* a node that was removed meanwhile has a nil link, which is dereferenced *)
(* in the next round.                                                      *)
WalkNext(c) ==
  /\ dpc[c] = "next"
  /\ IF dc[c] = dcc[c]
     THEN /\ dpc' = [dpc EXCEPT ![c] = "done"]
          /\ dcc' = [dcc EXCEPT ![c] = None]
          /\ dc' = [dc EXCEPT ![c] = None]
          /\ dnext' = [dnext EXCEPT ![c] = None]
          /\ UNCHANGED panicked
     ELSE IF dc[c] = None
     THEN panicked' = TRUE /\ UNCHANGED walkVars
     ELSE /\ dnext' = [dnext EXCEPT ![c] = nnext[dc[c]]]
          /\ dpc' = [dpc EXCEPT ![c] = "look"]
          /\ UNCHANGED <<dcc, dc, panicked>>
  /\ UNCHANGED <<channelVars, env, pool, contextVars, listVars, mapVars, callVars,
                 timerVars, respVars, answers>>

(* Mutant: the walk removes a call and does not answer it.                 *)
WalkLookSilent(c) ==
  /\ dpc[c] = "look"
  /\ callContexts' = IF Findable(dc[c])
                     THEN [callContexts EXCEPT ![seq[dc[c]]] = None] ELSE callContexts
  /\ dc' = [dc EXCEPT ![c] = dnext[c]]
  /\ dpc' = [dpc EXCEPT ![c] = "next"]
  /\ UNCHANGED <<channelVars, env, pool, contextVars, listVars, channels, callVars,
                 timerVars, respVars, dcc, dnext, answers, panicked>>

(* The walk takes the call its node stands for out of the map.             *)
WalkLook(c) ==
  /\ dpc[c] = "look"
  /\ IF Findable(dc[c])
     THEN /\ callContexts' = [callContexts EXCEPT ![seq[dc[c]]] = None]
          /\ dpc' = [dpc EXCEPT ![c] = "respond"]
          /\ UNCHANGED dc
     ELSE /\ dc' = [dc EXCEPT ![c] = dnext[c]]
          /\ dpc' = [dpc EXCEPT ![c] = "next"]
          /\ UNCHANGED callContexts
  /\ UNCHANGED <<channelVars, env, pool, contextVars, listVars, channels, callVars,
                 timerVars, respVars, dcc, dnext, answers, panicked>>

(* The walk stops the timer, calls the handler and releases the context.   *)
WalkAnswers(c) ==
  /\ dpc[c] = "respond"
  /\ tpc' = Stopped(tpc, deadlineTimer[dc[c]])
  /\ Answer(dc[c], "disconnected", c)
  /\ Release(dc[c])
  /\ dc' = [dc EXCEPT ![c] = dnext[c]]
  /\ dpc' = [dpc EXCEPT ![c] = "next"]
  /\ UNCHANGED <<channelVars, env, contextVars, listVars, mapVars, callVars, tctx,
                 respVars, dcc, dnext, panicked>>

CallStep(k) ==
  \/ \E c \in env.channels : Post(k, c) \/ \E x \in Contexts : AsynCall(k, c, x)
  \/ SendRequest(k) \/ SendFails(k)
TimerStep(k) == TimerFires(k) \/ onTimeout(k) \/ TimeoutAnswers(k)
ResponseStep(k) == OnResponse(k) \/ ResponseAnswers(k)
WalkStep(c) == WalkFirst(c) \/ WalkNext(c) \/ WalkLook(c) \/ WalkAnswers(c)

(* A panic ends the client's process.                                      *)
ClientNext ==
  /\ ~panicked
  /\ \/ \E k \in Calls : CallStep(k) \/ TimerStep(k) \/ ResponseStep(k)
     \/ \E c \in Channels : OnChannelDisconnect(c) \/ WalkStep(c)

-----------------------------------------------------------------------------

Node(n) == n \in Nodes \cup {None}

ClientTypeOK ==
  /\ env \in Envs
  /\ pool \in [Contexts -> Nat]
  /\ seq \in [Contexts -> Calls \cup {None}]
  /\ onResponse \in [Contexts -> Calls \cup {None}]
  /\ deadlineTimer \in [Contexts -> Calls \cup {None}]
  /\ channelID \in [Contexts -> Channels \cup {None}]
  /\ nnext \in [Nodes -> Nodes \cup {None}]
  /\ pprev \in [Nodes -> Nodes \cup {None}]
  /\ callContexts \in [Calls -> Contexts \cup {None}]
  /\ channels \in [Channels -> Heads \cup {None}]
  /\ apc \in [Calls -> {"new", "posted", "send", "sent", "error"}]
  /\ actx \in [Calls -> Contexts \cup {None}]
  /\ achan \in [Calls -> Channels \cup {None}]
  /\ tpc \in [Calls -> {"none", "armed", "running", "respond", "done"}]
  /\ tctx \in [Calls -> Contexts \cup {None}]
  /\ rpc \in [Calls -> {"none", "respond", "done"}]
  /\ rctx \in [Calls -> Contexts \cup {None}]
  /\ dpc \in [Channels -> {"none", "first", "next", "look", "respond", "done"}]
  /\ \A c \in Channels : Node(dcc[c]) /\ Node(dc[c]) /\ Node(dnext[c])
  /\ panicked \in BOOLEAN

(* The handler of a call is called at most once, whichever of the          *)
(* response, the timer and the disconnection come, and in which order;     *)
(* Call closes its channel there, which may happen only once.  A response  *)
(* reaches the handler of the call it answers, although contexts are       *)
(* reused and other goroutines still hold them.                            *)
HandlerOnce ==
  \A k \in Calls :
    /\ Len(answers[k]) <= 1
    /\ \A i \in 1..Len(answers[k]), j \in Calls : answers[k][i] = <<"response", j>> => k = j

(* A context is in the pool once at most, and not while a call that is in  *)
(* the map or whose handler is about to be called uses it.                 *)
ReleasedOnce ==
  \A x \in Contexts :
    /\ pool[x] <= 1
    /\ pool[x] = 1 => /\ \A k \in Calls : callContexts[k] # x
                      /\ \A k \in Calls : ~(rpc[k] = "respond" /\ rctx[k] = x)
                      /\ \A k \in Calls : ~(tpc[k] = "respond" /\ tctx[k] = x)
                      /\ \A c \in Channels : ~(dpc[c] = "respond" /\ dc[c] = x)

(* The i-th node after the head h.                                         *)
NodeAt(h) ==
  LET at[i \in 0..Cardinality(Contexts)] ==
        IF i = 0 THEN nnext[h] ELSE IF at[i - 1] \in Contexts THEN nnext[at[i - 1]]
                                    ELSE at[i - 1]
  IN  at

(* While no channel disconnects, the list of every channel is exactly the  *)
(* calls of the map that use it, closed at its head and linked backwards,  *)
(* and a channel without calls has no list: the two structures addCall and *)
(* removeCallBySeqno keep never come apart, and no nil is dereferenced.    *)
ListsMatch ==
  "disconnect" \notin env.has => ~panicked /\
    \A c \in Channels :
      LET h     == channels[c]
          calls == {k \in Calls : callContexts[k] # None /\ channelID[callContexts[k]] = c}
          ctxs  == {callContexts[k] : k \in calls}
          at    == NodeAt(h)
      IN  /\ h = None <=> calls = {}
          /\ \A k \in calls : seq[callContexts[k]] = k
          /\ h # None =>
               /\ {at[i] : i \in DOMAIN at} \ {h} = ctxs
               /\ at[Cardinality(Contexts)] = h
               /\ \A x \in ctxs : nnext[pprev[x]] = x

(* Someone has taken the call of k out and is about to call its handler.   *)
BeingAnswered(k) ==
  \/ \E j \in Calls : rpc[j] = "respond" /\ onResponse[rctx[j]] = k
  \/ \E j \in Calls : tpc[j] = "respond" /\ onResponse[tctx[j]] = k
  \/ \E c \in Channels : dpc[c] = "respond" /\ onResponse[dc[c]] = k

(* As long as no send fails, a call that AsynCall accepted and that is not *)
(* answered yet either is being answered or is in the map with its own     *)
(* deadline timer on its way: it cannot wait for ever, even if the server  *)
(* never replies, the channel disconnects or its context had other users.  *)
CallNotForgotten ==
  (\A j \in Calls : apc[j] # "error") /\ ~panicked =>
    \A k \in Calls :
      apc[k] \in {"send", "sent"} /\ answers[k] = <<>> =>
        \/ BeingAnswered(k)
        \/ /\ callContexts[k] # None
           /\ tctx[k] = callContexts[k]
           /\ tpc[k] \in {"armed", "running"}
=============================================================================
