-------------------------- MODULE RPCClientProofs ---------------------------
(***************************************************************************)
(* The inductive invariant of the client, for any calls, contexts,         *)
(* channels and environments; RPCProofs concludes from it that HandlerOnce,*)
(* ReleasedOnce, CallNotForgotten and ContextsMatch hold in every behaviour*)
(* of RPC.                                                                 *)
(*                                                                         *)
(* The difficulty is the pool.  A goroutine may hold a context that was    *)
(* released and stands for another call by now, and then takes that other  *)
(* call out of the map.  What keeps this harmless is OneUse: a context is  *)
(* in the pool, or in the map under the number it has, or with exactly one *)
(* goroutine that took it out of there, its taker.  A taker calls the      *)
(* handler the context has, which is that of the call it took out (Named), *)
(* and no call is put into the map twice (Over).                           *)
(*                                                                         *)
(* The links of the lists play no part in that: a disconnection can leave  *)
(* them in any shape, and a step that meets a nil link ends the client.    *)
(* While nothing disconnects they are sound: ListInv says that the list of *)
(* a channel is a ring through its head and the contexts of its calls.     *)
(***************************************************************************)
EXTENDS RPCClient, TLAPS

(* Steps of logic and sets are for Zenon; those that need arithmetic,      *)
(* sequences or updates of functions cite SMT.                             *)
USE Zenon

-----------------------------------------------------------------------------
(* The client's invariant.                                                 *)

TimerStates == {"none", "armed", "running", "respond", "done"}

(* The types of the client's variables, by what they describe.             *)
PoolTypes == env \in Envs /\ pool \in [Contexts -> Nat] /\ panicked \in BOOLEAN
FieldTypes ==
  /\ seq \in [Contexts -> Calls \cup {None}] /\ onResponse \in [Contexts -> Calls \cup {None}]
  /\ deadlineTimer \in [Contexts -> Calls \cup {None}] /\ channelID \in [Contexts -> Channels \cup {None}]
LinkTypes == nnext \in [Nodes -> Nodes \cup {None}] /\ pprev \in [Nodes -> Nodes \cup {None}]
MapTypes == callContexts \in [Calls -> Contexts \cup {None}] /\ channels \in [Channels -> Heads \cup {None}]
CallTypes ==
  /\ apc \in [Calls -> {"new", "posted", "send", "sent", "error"}]
  /\ actx \in [Calls -> Contexts \cup {None}] /\ achan \in [Calls -> Channels \cup {None}]
TimerTypes == tpc \in [Calls -> TimerStates] /\ tctx \in [Calls -> Contexts \cup {None}]
RespTypes == rpc \in [Calls -> {"none", "respond", "done"}] /\ rctx \in [Calls -> Contexts \cup {None}]
WalkTypes ==
  /\ dpc \in [Channels -> {"none", "first", "next", "look", "respond", "done"}]
  /\ dcc \in [Channels -> Heads \cup {None}]
  /\ dc \in [Channels -> Nodes \cup {None}] /\ dnext \in [Channels -> Nodes \cup {None}]
AnswerTypes ==
  answers \in [Calls -> Seq({"response", "timeout", "disconnected"} \X (Calls \cup Channels))]
ClientTypes ==
  /\ PoolTypes /\ FieldTypes /\ LinkTypes /\ MapTypes /\ CallTypes
  /\ TimerTypes /\ RespTypes /\ WalkTypes /\ AnswerTypes

(* x has stood for a call.                                                 *)
Used(x) == x \in Contexts /\ seq[x] # None

(* The fields of a context belong to one call, no other context ever had   *)
(* its number, and whoever remembers a context remembers one that was used.*)
Named ==
  /\ onResponse = seq /\ deadlineTimer = seq
  /\ \A x, y \in Contexts : seq[x] = seq[y] /\ seq[x] # None => x = y
  /\ \A x \in Contexts : seq[x] # None => apc[seq[x]] # "new"
  /\ \A n \in Nodes : nnext[n] \in Contexts => Used(nnext[n])
  /\ \A c \in Channels : dc[c] \in Contexts => Used(dc[c])
  /\ \A c \in Channels : dnext[c] \in Contexts => Used(dnext[c])

(* A goroutine that goes on with a context has one, and the one that goes  *)
(* on with a response has that of its call.                                *)
Holding ==
  /\ \A k \in Calls : apc[k] = "new" => tpc[k] = "none"
  /\ \A k \in Calls : apc[k] = "send" => Used(actx[k])
  /\ \A k \in Calls : tpc[k] \in {"armed", "running", "respond"} => Used(tctx[k])
  /\ \A k \in Calls : rpc[k] = "respond" => Used(rctx[k]) /\ seq[rctx[k]] = k
  /\ \A c \in Channels : dpc[c] = "respond" => Used(dc[c])
  /\ \A c \in Channels : dpc[c] = "first" => dcc[c] \in Heads

(* A call in the map has its own context and its timer on its way.         *)
Mapped ==
  \A k \in Calls : callContexts[k] # None =>
    /\ seq[callContexts[k]] = k
    /\ tctx[k] = callContexts[k] /\ tpc[k] \in {"armed", "running"}

(* Who has taken the call of the context x out and will call its handler.  *)
RespTakes(x) == {k \in Calls : rpc[k] = "respond" /\ rctx[k] = x}
TimeTakes(x) == {k \in Calls : tpc[k] = "respond" /\ tctx[k] = x}
WalkTakes(x) == {c \in Channels : dpc[c] = "respond" /\ dc[c] = x}
Takers(x) ==
  ({"response"} \X RespTakes(x)) \cup ({"timeout"} \X TimeTakes(x))
    \cup ({"disconnected"} \X WalkTakes(x))

InMap(x) == \E k \in Calls : callContexts[k] = x

(* A context is in the pool, in the map or with one taker, or nowhere.     *)
OneUse ==
  \A x \in Contexts :
    /\ pool[x] <= 1
    /\ seq[x] = None => pool[x] = 1
    /\ pool[x] = 1 => ~InMap(x) /\ Takers(x) = {}
    /\ InMap(x) => Takers(x) = {}
    /\ \A one, other \in Takers(x) : one = other

(* A call that was answered is over.                                       *)
Over ==
  \A k \in Calls : answers[k] # <<>> =>
    /\ apc[k] # "new" /\ callContexts[k] = None
    /\ \A x \in Contexts : seq[x] = k => Takers(x) = {}

(* Without a failed send, a call that left the map unanswered has a taker. *)
Kept ==
  (\A j \in Calls : apc[j] # "error") =>
    \A k \in Calls : apc[k] \in {"send", "sent"} /\ answers[k] = <<>> /\ callContexts[k] = None =>
      \E x \in Contexts : seq[x] = k /\ Takers(x) # {}

Core == Mapped /\ OneUse /\ Over /\ Kept

(* A panic ends the client between two steps: then only what is said of    *)
(* every state is left.                                                    *)
ClientInv ==
  /\ ClientTypes /\ HandlerOnce
  /\ IF panicked THEN ReleasedOnce ELSE Named /\ Holding /\ Core

-----------------------------------------------------------------------------
(* What a client's steps have in common.                                   *)

(* No step makes a call new again, accepted later or forgets an error.     *)
Onward ==
  \A k \in Calls :
    /\ apc[k] # "new" => apc'[k] # "new"
    /\ apc'[k] \in {"send", "sent"} => apc[k] \in {"send", "sent"}
    /\ apc[k] = "error" => apc'[k] = "error"

(* The timers of the calls that stay in the map are left alone, or fire.   *)
TimersStay ==
  \A k \in Calls : callContexts'[k] # None =>
    /\ tctx'[k] = tctx[k]
    /\ tpc[k] \in {"armed", "running"} => tpc'[k] \in {"armed", "running"}

(* What is left alone keeps its type.                                      *)
LEMMA TypesStay ==
  ASSUME ClientTypes
  PROVE  /\ UNCHANGED <<env, pool, panicked>> => PoolTypes'
         /\ UNCHANGED <<seq, onResponse, deadlineTimer, channelID>> => FieldTypes'
         /\ UNCHANGED <<nnext, pprev>> => LinkTypes'
         /\ UNCHANGED <<callContexts, channels>> => MapTypes'
         /\ UNCHANGED <<apc, actx, achan>> => CallTypes'
         /\ UNCHANGED <<tpc, tctx>> => TimerTypes'
         /\ UNCHANGED <<rpc, rctx>> => RespTypes'
         /\ UNCHANGED <<dpc, dcc, dc, dnext>> => WalkTypes'
         /\ UNCHANGED answers => AnswerTypes'
<1>1. UNCHANGED <<env, pool, panicked>> => PoolTypes'
  BY DEF ClientTypes, PoolTypes
<1>2. UNCHANGED <<seq, onResponse, deadlineTimer, channelID>> => FieldTypes'
  BY DEF ClientTypes, FieldTypes
<1>3. UNCHANGED <<nnext, pprev>> => LinkTypes'
  BY DEF ClientTypes, LinkTypes
<1>4. UNCHANGED <<callContexts, channels>> => MapTypes'
  BY DEF ClientTypes, MapTypes
<1>5. UNCHANGED <<apc, actx, achan>> => CallTypes'
  BY DEF ClientTypes, CallTypes
<1>6. UNCHANGED <<tpc, tctx>> => TimerTypes'
  BY DEF ClientTypes, TimerTypes
<1>7. UNCHANGED <<rpc, rctx>> => RespTypes'
  BY DEF ClientTypes, RespTypes
<1>8. UNCHANGED <<dpc, dcc, dc, dnext>> => WalkTypes'
  BY DEF ClientTypes, WalkTypes
<1>9. UNCHANGED answers => AnswerTypes'
  BY DEF ClientTypes, AnswerTypes
<1> QED
  BY <1>1, <1>2, <1>3, <1>4, <1>5, <1>6, <1>7, <1>8, <1>9

(* Named holds while contexts keep their calls, no call becomes new and    *)
(* who remembers a context remembers one that was used.                    *)
LEMMA NamedStays ==
  ASSUME FieldTypes, Named, UNCHANGED <<seq, onResponse, deadlineTimer>>,
         \A k \in Calls : apc[k] # "new" => apc'[k] # "new",
         \A n \in Nodes : nnext'[n] \in Contexts => Used(nnext'[n]),
         \A c \in Channels : dc'[c] \in Contexts => Used(dc'[c]),
         \A c \in Channels : dnext'[c] \in Contexts => Used(dnext'[c])
  PROVE  Named'
<1>1. \A x \in Contexts : seq[x] # None => seq[x] \in Calls
  BY DEF FieldTypes
<1>2. \A x \in Contexts : seq'[x] # None => apc'[seq'[x]] # "new"
  BY <1>1 DEF Named
<1>3. /\ onResponse' = seq' /\ deadlineTimer' = seq'
      /\ \A x, y \in Contexts : seq'[x] = seq'[y] /\ seq'[x] # None => x = y
  BY DEF Named
<1> QED
  BY <1>2, <1>3 DEF Named, Used

(* Holding holds while contexts keep their calls and no goroutine gets to  *)
(* go on with another context.                                             *)
LEMMA HoldingStays ==
  ASSUME Holding, UNCHANGED seq,
         \A k \in Calls : apc'[k] = "new" => apc[k] = "new" /\ tpc'[k] = tpc[k],
         \A k \in Calls : apc'[k] = "send" => apc[k] = "send" /\ actx'[k] = actx[k],
         \A k \in Calls : tpc'[k] \in {"armed", "running", "respond"} =>
                             tpc[k] \in {"armed", "running", "respond"} /\ tctx'[k] = tctx[k],
         \A k \in Calls : rpc'[k] = "respond" => rpc[k] = "respond" /\ rctx'[k] = rctx[k],
         \A c \in Channels : dpc'[c] = "respond" => dpc[c] = "respond" /\ dc'[c] = dc[c],
         \A c \in Channels : dpc'[c] = "first" => dpc[c] = "first" /\ dcc'[c] = dcc[c]
  PROVE  Holding'
<1>1. /\ \A k \in Calls : apc'[k] = "new" => tpc'[k] = "none"
      /\ \A k \in Calls : apc'[k] = "send" => actx'[k] \in Contexts /\ seq'[actx'[k]] # None
  BY SMT DEF Holding, Used
<1>2. \A k \in Calls : tpc'[k] \in {"armed", "running", "respond"} =>
                         tctx'[k] \in Contexts /\ seq'[tctx'[k]] # None
  BY SMT DEF Holding, Used
<1>3. \A k \in Calls : rpc'[k] = "respond" =>
                         rctx'[k] \in Contexts /\ seq'[rctx'[k]] # None /\ seq'[rctx'[k]] = k
  BY SMT DEF Holding, Used
<1>4. /\ \A c \in Channels : dpc'[c] = "respond" => dc'[c] \in Contexts /\ seq'[dc'[c]] # None
      /\ \A c \in Channels : dpc'[c] = "first" => dcc'[c] \in Heads
  BY SMT DEF Holding, Used
<1> QED
  BY <1>1, <1>2, <1>3, <1>4 DEF Holding, Used

(* A step that neither uses nor releases a context.                        *)
LEMMA QuietStep ==
  ASSUME Core, Onward, TimersStay, UNCHANGED <<pool, seq, callContexts, answers>>,
         \A x \in Contexts : Takers(x)' = Takers(x)
  PROVE  Core'
<1>1. Mapped'
  BY DEF Core, Mapped, TimersStay
<1>2. \A x \in Contexts : InMap(x)' <=> InMap(x)
  BY DEF InMap
<1>3. OneUse'
  BY SMT, <1>2 DEF Core, OneUse
<1>4. Over'
  BY DEF Core, Over, Onward
<1>5. Kept'
  BY SMT DEF Core, Kept, Onward
<1> QED
  BY <1>1, <1>3, <1>4, <1>5 DEF Core

(* The call s, which the context x stands for, is taken out of the map by  *)
(* a goroutine that will call its handler.                                 *)
LEMMA TakeOutStep ==
  ASSUME ClientTypes, Named, Core, Onward, TimersStay,
         NEW s \in Calls, NEW x \in Contexts, callContexts[s] = x, NEW taker,
         callContexts' = [callContexts EXCEPT ![s] = None],
         UNCHANGED <<pool, seq, answers>>,
         Takers(x)' = Takers(x) \cup {taker},
         \A y \in Contexts \ {x} : Takers(y)' = Takers(y)
  PROVE  Core'
<1>1. /\ callContexts \in [Calls -> Contexts \cup {None}] /\ None \notin Contexts
      /\ callContexts'[s] = None
      /\ \A k \in Calls \ {s} : callContexts'[k] = callContexts[k]
  BY RPCClientAssumption DEF ClientTypes, MapTypes
<1>2. seq[x] = s /\ InMap(x) /\ Takers(x) = {} /\ pool[x] # 1 /\ seq[x] # None
  BY <1>1, RPCClientAssumption DEF Core, Mapped, OneUse, InMap
<1>3. Mapped'
  BY <1>1 DEF Core, Mapped, TimersStay
<1>4. /\ ~InMap(x)'
      /\ \A y \in Contexts \ {x} : InMap(y)' => InMap(y)
  <2>1. \A k \in Calls \ {s} : callContexts[k] # x
    BY SMT, <1>1, <1>2 DEF Core, Mapped
  <2> QED
    BY <1>1, <2>1 DEF InMap
<1>5. OneUse'
  <2>1. ASSUME NEW y \in Contexts \ {x}
        PROVE  /\ pool'[y] <= 1 /\ (seq'[y] = None => pool'[y] = 1)
               /\ pool'[y] = 1 => ~InMap(y)' /\ Takers(y)' = {}
               /\ InMap(y)' => Takers(y)' = {}
               /\ \A one, other \in Takers(y)' : one = other
    BY SMT, <1>4 DEF Core, OneUse
  <2>2. /\ pool'[x] <= 1 /\ pool'[x] # 1 /\ seq'[x] # None /\ ~InMap(x)'
        /\ \A one, other \in Takers(x)' : one = other
    BY <1>2, <1>4 DEF Core, OneUse
  <2> QED
    BY <2>1, <2>2 DEF OneUse
<1>6. Over'
  <2>1. answers[s] = <<>>
    BY <1>1 DEF Core, Over
  <2> QED
    BY SMT, <1>1, <1>2, <2>1 DEF Core, Over, Onward
<1>7. Kept'
  <2>1. Takers(x)' # {}
    OBVIOUS
  <2> SUFFICES ASSUME \A j \in Calls : apc'[j] # "error", NEW k \in Calls,
                      apc'[k] \in {"send", "sent"}, answers'[k] = <<>>, callContexts'[k] = None
               PROVE  \E y \in Contexts : seq'[y] = k /\ Takers(y)' # {}
    BY DEF Kept
  <2>2. CASE k = s
    BY <1>2, <2>1, <2>2
  <2>3. CASE k # s
    <3>1. PICK y \in Contexts : seq[y] = k /\ Takers(y) # {}
      BY <1>1, <2>3 DEF Core, Kept, Onward
    <3>2. y # x
      BY <1>2, <2>3, <3>1
    <3> QED
      BY <3>1, <3>2
  <2> QED
    BY <2>2, <2>3
<1> QED
  BY <1>3, <1>5, <1>6, <1>7 DEF Core

(* The taker of the context x calls the handler and releases x.            *)
LEMMA AnswerStep ==
  ASSUME ClientTypes, Named, Core, Onward, TimersStay,
         NEW x \in Contexts, Used(x), NEW taker \in Takers(x),
         UNCHANGED <<seq, callContexts>>, Release(x),
         answers' = [answers EXCEPT ![seq[x]] = Append(@, taker)],
         Takers(x)' = Takers(x) \ {taker},
         \A y \in Contexts \ {x} : Takers(y)' = Takers(y)
  PROVE  /\ Core'
         /\ answers[seq[x]] = <<>>
         /\ pool' \in [Contexts -> Nat] /\ pool[x] = 0 /\ ~InMap(x)
<1>1. /\ seq[x] \in Calls /\ seq[x] # None /\ pool \in [Contexts -> Nat]
      /\ callContexts \in [Calls -> Contexts \cup {None}] /\ None \notin Contexts
      /\ DOMAIN answers = Calls
  BY RPCClientAssumption DEF ClientTypes, PoolTypes, FieldTypes, MapTypes, AnswerTypes, Used
<1>2. pool[x] = 0 /\ ~InMap(x) /\ Takers(x) = {taker}
  BY SMT, <1>1 DEF Core, OneUse
<1>3. answers[seq[x]] = <<>>
  BY <1>1, <1>2 DEF Core, Over
<1>4. /\ pool' \in [Contexts -> Nat] /\ pool'[x] = 1
      /\ \A y \in Contexts \ {x} : pool'[y] = pool[y]
  BY SMT, <1>1, <1>2 DEF Release
<1>5. \A y \in Contexts : InMap(y)' <=> InMap(y)
  BY DEF InMap
<1>6. Mapped'
  BY DEF Core, Mapped, TimersStay
<1>7. OneUse'
  <2>1. ASSUME NEW y \in Contexts \ {x}
        PROVE  /\ pool'[y] <= 1 /\ (seq'[y] = None => pool'[y] = 1)
               /\ pool'[y] = 1 => ~InMap(y)' /\ Takers(y)' = {}
               /\ InMap(y)' => Takers(y)' = {}
               /\ \A one, other \in Takers(y)' : one = other
    BY SMT, <1>4, <1>5 DEF Core, OneUse
  <2>2. pool'[x] <= 1 /\ pool'[x] = 1 /\ ~InMap(x)' /\ Takers(x)' = {}
    BY SMT, <1>2, <1>4, <1>5
  <2> QED
    BY <2>1, <2>2 DEF OneUse
<1>8. \A k \in Calls \ {seq[x]} : answers'[k] = answers[k]
  BY <1>1
<1>9. Over'
  <2>1. callContexts[seq[x]] = None /\ apc[seq[x]] # "new"
    <3>1. ASSUME callContexts[seq[x]] # None
          PROVE  FALSE
      <4>1. callContexts[seq[x]] \in Contexts /\ seq[callContexts[seq[x]]] = seq[x]
        BY SMT, <1>1, <3>1 DEF Core, Mapped
      <4>2. callContexts[seq[x]] = x
        BY <1>1, <4>1 DEF Named
      <4> QED
        BY <1>1, <1>2, <4>2 DEF InMap
    <3> QED
      BY <1>1, <3>1 DEF Named
  <2>2. \A y \in Contexts : seq[y] = seq[x] => Takers(y)' = {}
    BY <1>1, <1>2 DEF Named
  <2>3. \A y \in Contexts : Takers(y) = {} => Takers(y)' = {}
    OBVIOUS
  <2> QED
    BY <1>8, <2>1, <2>2, <2>3 DEF Core, Over, Onward
<1>10. Kept'
  <2> SUFFICES ASSUME \A j \in Calls : apc'[j] # "error", NEW k \in Calls,
                      apc'[k] \in {"send", "sent"}, answers'[k] = <<>>, callContexts'[k] = None
               PROVE  \E y \in Contexts : seq'[y] = k /\ Takers(y)' # {}
    BY DEF Kept
  <2>1. k # seq[x]
    <3>1. answers'[seq[x]] = Append(<<>>, taker)
      BY <1>1, <1>3
    <3>2. Append(<<>>, taker) # <<>>
      BY SMT
    <3> QED
      BY <3>1, <3>2
  <2>2. PICK y \in Contexts : seq[y] = k /\ Takers(y) # {}
    BY <1>8, <2>1 DEF Core, Kept, Onward
  <2>3. y # x
    BY <2>1, <2>2
  <2> QED
    BY <2>2, <2>3
<1> QED
  BY <1>2, <1>3, <1>4, <1>6, <1>7, <1>9, <1>10 DEF Core

(* The call s, which the context x stands for, is taken out of the map     *)
(* after a failed send, and x is released.                                 *)
LEMMA DropStep ==
  ASSUME ClientTypes, Named, Core, Onward, TimersStay,
         NEW s \in Calls, NEW x \in Contexts, callContexts[s] = x,
         callContexts' = [callContexts EXCEPT ![s] = None], Release(x),
         UNCHANGED <<seq, answers>>, \E j \in Calls : apc'[j] = "error",
         \A y \in Contexts : Takers(y)' = Takers(y)
  PROVE  Core'
<1>1. /\ callContexts \in [Calls -> Contexts \cup {None}] /\ None \notin Contexts
      /\ pool \in [Contexts -> Nat]
      /\ callContexts'[s] = None
      /\ \A k \in Calls \ {s} : callContexts'[k] = callContexts[k]
  BY RPCClientAssumption DEF ClientTypes, PoolTypes, MapTypes
<1>2. seq[x] = s /\ InMap(x) /\ Takers(x) = {} /\ pool[x] = 0
  BY SMT, <1>1, RPCClientAssumption DEF Core, Mapped, OneUse, InMap
<1>3. Mapped'
  BY SMT, <1>1 DEF Core, Mapped, TimersStay
<1>4. ~InMap(x)' /\ \A y \in Contexts \ {x} : InMap(y)' => InMap(y)
  <2>1. \A k \in Calls \ {s} : callContexts[k] # x
    BY SMT, <1>1, <1>2 DEF Core, Mapped
  <2> QED
    BY <1>1, <2>1 DEF InMap
<1>5. pool'[x] = 1 /\ \A y \in Contexts \ {x} : pool'[y] = pool[y]
  BY SMT, <1>1, <1>2 DEF Release
<1>6. OneUse'
  <2>1. ASSUME NEW y \in Contexts \ {x}
        PROVE  /\ pool'[y] <= 1 /\ (seq'[y] = None => pool'[y] = 1)
               /\ pool'[y] = 1 => ~InMap(y)' /\ Takers(y)' = {}
               /\ InMap(y)' => Takers(y)' = {}
               /\ \A one, other \in Takers(y)' : one = other
    BY SMT, <1>4, <1>5 DEF Core, OneUse
  <2>2. pool'[x] <= 1 /\ pool'[x] = 1 /\ ~InMap(x)' /\ Takers(x)' = {}
    BY SMT, <1>2, <1>4, <1>5
  <2> QED
    BY <2>1, <2>2 DEF OneUse
<1>7. Over'
  BY SMT, <1>1 DEF Core, Over, Onward
<1>8. Kept'
  BY DEF Kept
<1> QED
  BY <1>3, <1>6, <1>7, <1>8 DEF Core

(* A new call k is put into the map with a context x of the pool.          *)
LEMMA NewCallStep ==
  ASSUME ClientTypes, Named, Core,
         NEW k \in Calls, NEW x \in Contexts, apc[k] = "new", answers[k] = <<>>, pool[x] = 1,
         pool' = [pool EXCEPT ![x] = @ - 1], seq' = [seq EXCEPT ![x] = k],
         callContexts' = [callContexts EXCEPT ![k] = x],
         tpc' = [tpc EXCEPT ![k] = "armed"], tctx' = [tctx EXCEPT ![k] = x],
         apc' = [apc EXCEPT ![k] = "send"], UNCHANGED answers,
         \A y \in Contexts : Takers(y)' = Takers(y)
  PROVE  Core'
<1>1. /\ k # None /\ None \notin Contexts
      /\ pool'[x] = 0 /\ \A y \in Contexts \ {x} : pool'[y] = pool[y]
      /\ seq'[x] = k /\ \A y \in Contexts \ {x} : seq'[y] = seq[y]
      /\ callContexts'[k] = x /\ \A j \in Calls \ {k} : callContexts'[j] = callContexts[j]
      /\ tpc'[k] = "armed" /\ \A j \in Calls \ {k} : tpc'[j] = tpc[j]
      /\ tctx'[k] = x /\ \A j \in Calls \ {k} : tctx'[j] = tctx[j]
      /\ apc'[k] = "send" /\ \A j \in Calls \ {k} : apc'[j] = apc[j]
  BY SMT, RPCClientAssumption DEF ClientTypes, PoolTypes, FieldTypes, MapTypes, CallTypes, TimerTypes
<1>2. ~InMap(x) /\ Takers(x) = {}
  BY DEF Core, OneUse
<1>3. Mapped'
  <2>1. \A j \in Calls \ {k} : callContexts[j] # x
    BY <1>2 DEF InMap
  <2>2. \A j \in Calls : callContexts[j] \in Contexts \cup {None}
    BY DEF ClientTypes, MapTypes
  <2>3. ASSUME NEW j \in Calls \ {k}, callContexts'[j] # None
        PROVE  /\ seq'[callContexts'[j]] = j
               /\ tctx'[j] = callContexts'[j] /\ tpc'[j] \in {"armed", "running"}
    BY SMT, <1>1, <2>1, <2>2, <2>3 DEF Core, Mapped
  <2> QED
    BY SMT, <1>1, <2>3 DEF Mapped
<1>4. OneUse'
  <2>1. \A y \in Contexts \ {x} : InMap(y)' => InMap(y)
    BY SMT, <1>1 DEF InMap
  <2>2. ASSUME NEW y \in Contexts \ {x}
        PROVE  /\ pool'[y] <= 1 /\ (seq'[y] = None => pool'[y] = 1)
               /\ pool'[y] = 1 => ~InMap(y)' /\ Takers(y)' = {}
               /\ InMap(y)' => Takers(y)' = {}
               /\ \A one, other \in Takers(y)' : one = other
    BY SMT, <1>1, <2>1 DEF Core, OneUse
  <2>3. pool'[x] <= 1 /\ pool'[x] # 1 /\ seq'[x] # None /\ Takers(x)' = {}
    BY SMT, <1>1, <1>2
  <2> QED
    BY <2>2, <2>3 DEF OneUse
<1>5. Over'
  <2>1. ASSUME NEW j \in Calls, answers'[j] # <<>>
        PROVE  /\ apc'[j] # "new" /\ callContexts'[j] = None
               /\ \A y \in Contexts : seq'[y] = j => Takers(y)' = {}
    <3>1. j # k /\ answers[j] # <<>>
      BY <2>1
    <3>2. /\ apc[j] # "new" /\ callContexts[j] = None
          /\ \A y \in Contexts : seq[y] = j => Takers(y) = {}
      BY <3>1 DEF Core, Over
    <3> QED
      BY SMT, <1>1, <3>1, <3>2
  <2> QED
    BY <2>1 DEF Over
<1>6. Kept'
  <2> SUFFICES ASSUME \A j \in Calls : apc'[j] # "error", NEW j \in Calls,
                      apc'[j] \in {"send", "sent"}, answers'[j] = <<>>, callContexts'[j] = None
               PROVE  \E y \in Contexts : seq'[y] = j /\ Takers(y)' # {}
    BY DEF Kept
  <2>1. j # k /\ \A i \in Calls : apc[i] # "error"
    BY SMT, <1>1
  <2>2. PICK y \in Contexts : seq[y] = j /\ Takers(y) # {}
    BY <1>1, <2>1 DEF Core, Kept
  <2> QED
    BY <1>1, <1>2, <2>2
<1> QED
  BY <1>3, <1>4, <1>5, <1>6 DEF Core

(* Then its fields belong to k, and whoever remembers a context still      *)
(* remembers one that was used.                                            *)
LEMMA NewCallNamed ==
  ASSUME ClientTypes, Named, NEW k \in Calls, NEW x \in Contexts, apc[k] = "new",
         seq' = [seq EXCEPT ![x] = k], onResponse' = [onResponse EXCEPT ![x] = k],
         deadlineTimer' = [deadlineTimer EXCEPT ![x] = k], apc' = [apc EXCEPT ![k] = "send"],
         NEW next, next \in Contexts => Used(next),
         \A n \in Nodes : nnext'[n] = nnext[n] \/ nnext'[n] = next \/ nnext'[n] = x,
         UNCHANGED <<dc, dnext>>
  PROVE  Named'
<1>1. /\ k # None /\ seq'[x] = k /\ \A y \in Contexts \ {x} : seq'[y] = seq[y]
      /\ apc'[k] = "send" /\ \A j \in Calls \ {k} : apc'[j] = apc[j]
      /\ \A y \in Contexts : seq[y] \in Calls \cup {None}
  BY RPCClientAssumption DEF ClientTypes, FieldTypes, CallTypes
<1>2. \A y \in Contexts : seq[y] # k
  BY <1>1 DEF Named
<1>3. onResponse' = seq' /\ deadlineTimer' = seq'
  BY DEF Named
<1>4. \A y, z \in Contexts : seq'[y] = seq'[z] /\ seq'[y] # None => y = z
  BY SMT, <1>1, <1>2 DEF Named
<1>5. \A y \in Contexts : seq'[y] # None => apc'[seq'[y]] # "new"
  BY SMT, <1>1, <1>2 DEF Named
<1>6. \A y \in Contexts : seq[y] # None \/ y = x => seq'[y] # None
  BY <1>1
<1>7. \A n \in Nodes : nnext'[n] \in Contexts => seq[nnext'[n]] # None \/ nnext'[n] = x
  BY DEF Named, Used
<1>8. \A d \in Channels : dc[d] \in Contexts => seq[dc[d]] # None
  BY DEF Named, Used
<1>9. \A d \in Channels : dnext[d] \in Contexts => seq[dnext[d]] # None
  BY DEF Named, Used
<1> QED
  BY <1>3, <1>4, <1>5, <1>6, <1>7, <1>8, <1>9 DEF Named, Used

(* One taker more, or fewer, of each kind.                                 *)
LEMMA TakersMove ==
  ASSUME NEW x, NEW k
  PROVE  /\ RespTakes(x)' = RespTakes(x) \cup {k} /\ TimeTakes(x)' = TimeTakes(x) /\ WalkTakes(x)' = WalkTakes(x) =>
              Takers(x)' = Takers(x) \cup {<<"response", k>>}
         /\ RespTakes(x)' = RespTakes(x) /\ TimeTakes(x)' = TimeTakes(x) \cup {k} /\ WalkTakes(x)' = WalkTakes(x) =>
              Takers(x)' = Takers(x) \cup {<<"timeout", k>>}
         /\ RespTakes(x)' = RespTakes(x) /\ TimeTakes(x)' = TimeTakes(x) /\ WalkTakes(x)' = WalkTakes(x) \cup {k} =>
              Takers(x)' = Takers(x) \cup {<<"disconnected", k>>}
         /\ RespTakes(x)' = RespTakes(x) \ {k} /\ TimeTakes(x)' = TimeTakes(x) /\ WalkTakes(x)' = WalkTakes(x) =>
              Takers(x)' = Takers(x) \ {<<"response", k>>}
         /\ RespTakes(x)' = RespTakes(x) /\ TimeTakes(x)' = TimeTakes(x) \ {k} /\ WalkTakes(x)' = WalkTakes(x) =>
              Takers(x)' = Takers(x) \ {<<"timeout", k>>}
         /\ RespTakes(x)' = RespTakes(x) /\ TimeTakes(x)' = TimeTakes(x) /\ WalkTakes(x)' = WalkTakes(x) \ {k} =>
              Takers(x)' = Takers(x) \ {<<"disconnected", k>>}
<1>1. ASSUME RespTakes(x)' = RespTakes(x) \cup {k}, TimeTakes(x)' = TimeTakes(x), WalkTakes(x)' = WalkTakes(x)
      PROVE  Takers(x)' = Takers(x) \cup {<<"response", k>>}
  BY SMT, <1>1 DEF Takers
<1>2. ASSUME RespTakes(x)' = RespTakes(x), TimeTakes(x)' = TimeTakes(x) \cup {k}, WalkTakes(x)' = WalkTakes(x)
      PROVE  Takers(x)' = Takers(x) \cup {<<"timeout", k>>}
  BY SMT, <1>2 DEF Takers
<1>3. ASSUME RespTakes(x)' = RespTakes(x), TimeTakes(x)' = TimeTakes(x), WalkTakes(x)' = WalkTakes(x) \cup {k}
      PROVE  Takers(x)' = Takers(x) \cup {<<"disconnected", k>>}
  BY SMT, <1>3 DEF Takers
<1>4. ASSUME RespTakes(x)' = RespTakes(x) \ {k}, TimeTakes(x)' = TimeTakes(x), WalkTakes(x)' = WalkTakes(x)
      PROVE  Takers(x)' = Takers(x) \ {<<"response", k>>}
  BY SMT, <1>4 DEF Takers
<1>5. ASSUME RespTakes(x)' = RespTakes(x), TimeTakes(x)' = TimeTakes(x) \ {k}, WalkTakes(x)' = WalkTakes(x)
      PROVE  Takers(x)' = Takers(x) \ {<<"timeout", k>>}
  BY SMT, <1>5 DEF Takers
<1>6. ASSUME RespTakes(x)' = RespTakes(x), TimeTakes(x)' = TimeTakes(x), WalkTakes(x)' = WalkTakes(x) \ {k}
      PROVE  Takers(x)' = Takers(x) \ {<<"disconnected", k>>}
  BY SMT, <1>6 DEF Takers
<1> QED
  BY <1>1, <1>2, <1>3, <1>4, <1>5, <1>6

(* The members of Takers, by kind.                                         *)
LEMMA TakersAre ==
  ASSUME NEW x
  PROVE  /\ \A k : <<"response", k>> \in Takers(x) <=> k \in RespTakes(x)
         /\ \A k : <<"timeout", k>> \in Takers(x) <=> k \in TimeTakes(x)
         /\ \A c : <<"disconnected", c>> \in Takers(x) <=> c \in WalkTakes(x)
         /\ \A y \in Takers(x) :
              \/ \E k \in RespTakes(x) : y = <<"response", k>>
              \/ \E k \in TimeTakes(x) : y = <<"timeout", k>>
              \/ \E c \in WalkTakes(x) : y = <<"disconnected", c>>
<1>1. \A k : <<"response", k>> \in Takers(x) <=> k \in RespTakes(x)
  BY DEF Takers
<1>2. \A k : <<"timeout", k>> \in Takers(x) <=> k \in TimeTakes(x)
  BY DEF Takers
<1>3. \A c : <<"disconnected", c>> \in Takers(x) <=> c \in WalkTakes(x)
  BY DEF Takers
<1>4. ASSUME NEW y \in Takers(x)
      PROVE  \/ \E k \in RespTakes(x) : y = <<"response", k>>
             \/ \E k \in TimeTakes(x) : y = <<"timeout", k>>
             \/ \E c \in WalkTakes(x) : y = <<"disconnected", c>>
  BY SMT DEF Takers
<1> QED
  BY <1>1, <1>2, <1>3, <1>4

(* A context with one use is released once.                                *)
LEMMA OneUseReleases ==
  ASSUME OneUse, pool \in [Contexts -> Nat]
  PROVE  ReleasedOnce
<1> SUFFICES ASSUME NEW x \in Contexts
             PROVE  /\ pool[x] <= 1
                    /\ pool[x] = 1 => /\ \A k \in Calls : callContexts[k] # x
                                      /\ \A k \in Calls : ~(rpc[k] = "respond" /\ rctx[k] = x)
                                      /\ \A k \in Calls : ~(tpc[k] = "respond" /\ tctx[k] = x)
                                      /\ \A c \in Channels : ~(dpc[c] = "respond" /\ dc[c] = x)
  BY DEF ReleasedOnce
<1>1. pool[x] <= 1 /\ (pool[x] = 1 => ~InMap(x) /\ Takers(x) = {})
  BY DEF OneUse
<1>2. Takers(x) = {} => RespTakes(x) = {} /\ TimeTakes(x) = {} /\ WalkTakes(x) = {}
  BY TakersAre
<1> QED
  BY <1>1, <1>2 DEF InMap, RespTakes, TimeTakes, WalkTakes

(* The response, the timer and the walk that have a context to answer.     *)
LEMMA TakersStay ==
  ASSUME NEW x, RespTakes(x)' = RespTakes(x), TimeTakes(x)' = TimeTakes(x), WalkTakes(x)' = WalkTakes(x)
  PROVE  Takers(x)' = Takers(x)
BY DEF Takers

(* Stop affects a timer that has not fired.                                *)
LEMMA StopOne ==
  ASSUME NEW ts \in [Calls -> TimerStates], NEW k \in Calls
  PROVE  /\ Stopped(ts, k) \in [Calls -> TimerStates]
         /\ \A j \in Calls \ {k} : Stopped(ts, k)[j] = ts[j]
         /\ Stopped(ts, k)[k] = IF ts[k] = "armed" THEN "none" ELSE ts[k]
BY RPCClientAssumption DEF Stopped, TimerStates

(* The call a used context stands for, if it is in the map, has this       *)
(* context.                                                                *)
LEMMA Found ==
  ASSUME ClientTypes, Named, Mapped, NEW x \in Contexts, Used(x)
  PROVE  /\ seq[x] \in Calls
         /\ Findable(x) => callContexts[seq[x]] = x
         /\ ~Findable(x) => callContexts[seq[x]] = None /\ ~InMap(x)
<1>1. /\ seq[x] \in Calls /\ seq[x] # None /\ None \notin Contexts
      /\ callContexts \in [Calls -> Contexts \cup {None}]
  BY RPCClientAssumption DEF ClientTypes, FieldTypes, MapTypes, Used
<1>2. ASSUME Findable(x)
      PROVE  callContexts[seq[x]] = x
  <2>1. callContexts[seq[x]] \in Contexts /\ seq[callContexts[seq[x]]] = seq[x]
    BY <1>1, <1>2 DEF Findable, Mapped
  <2> QED
    BY <1>1, <2>1 DEF Named
<1>3. ASSUME ~Findable(x)
      PROVE  callContexts[seq[x]] = None /\ ~InMap(x)
  <2>1. callContexts[seq[x]] = None
    BY <1>3 DEF Findable
  <2> QED
    BY <1>1, <2>1 DEF InMap, Mapped
<1> QED
  BY <1>1, <1>2, <1>3

(* removeCallBySeqno finds no call, or takes the call out and stops its    *)
(* timer, or panics.                                                       *)
LEMMA RemoveStep ==
  ASSUME ClientTypes, Named, Mapped, NEW s \in Calls, NEW ts \in [Calls -> TimerStates],
         removeCallBySeqno(s, ts)
  PROVE  /\ LinkTypes' /\ MapTypes' /\ tpc' \in [Calls -> TimerStates] /\ panicked' \in BOOLEAN
         /\ \A n \in Nodes : nnext'[n] \in Contexts => Used(nnext'[n])
         /\ \/ /\ callContexts[s] = None
               /\ callContexts' = callContexts /\ tpc' = ts /\ panicked' = panicked
            \/ /\ callContexts[s] # None
               /\ callContexts' = [callContexts EXCEPT ![s] = None]
               /\ tpc' = Stopped(ts, s) /\ panicked' = panicked
            \/ /\ callContexts[s] # None
               /\ callContexts' = callContexts /\ tpc' = ts /\ panicked' = TRUE
<1> DEFINE x == callContexts[s]
           cc == channels[channelID[x]]
           prev == pprev[x]
           next == nnext[x]
<1>1. /\ nnext \in [Nodes -> Nodes \cup {None}] /\ pprev \in [Nodes -> Nodes \cup {None}]
      /\ channels \in [Channels -> Heads \cup {None}]
      /\ callContexts \in [Calls -> Contexts \cup {None}] /\ panicked \in BOOLEAN
      /\ \A n \in Nodes : nnext[n] \in Contexts => Used(nnext[n])
      /\ None \notin Contexts
  BY RPCClientAssumption DEF ClientTypes, PoolTypes, LinkTypes, MapTypes, Named
<1>2. CASE x = None
  BY <1>1, <1>2 DEF removeCallBySeqno, mapVars, listVars, LinkTypes, MapTypes
<1>3. CASE x # None /\ (cc = None \/ prev = None \/ next = None)
  BY <1>1, <1>3 DEF removeCallBySeqno, mapVars, listVars, LinkTypes, MapTypes
<1>4. CASE x # None /\ ~(cc = None \/ prev = None \/ next = None)
  <2>1. /\ callContexts' = [callContexts EXCEPT ![s] = None]
        /\ nnext' = [nnext EXCEPT ![prev] = next, ![x] = None]
        /\ pprev' = [pprev EXCEPT ![next] = prev, ![x] = None]
        /\ channels' = IF nnext'[cc] = cc
                       THEN [channels EXCEPT ![channelID[x]] = None] ELSE channels
        /\ tpc' = Stopped(ts, deadlineTimer[x])
        /\ UNCHANGED panicked
    BY <1>4 DEF removeCallBySeqno
  <2>2. x \in Contexts /\ x \in Nodes /\ deadlineTimer[x] = s
    BY SMT, <1>1, <1>4 DEF Nodes, Named, Mapped
  <2>3. next \in Nodes \cup {None} /\ prev \in Nodes \cup {None} /\ (next \in Contexts => Used(next))
    BY <1>1, <2>2
  <2> HIDE DEF x, cc, prev, next
  <2>4. /\ nnext' \in [Nodes -> Nodes \cup {None}] /\ pprev' \in [Nodes -> Nodes \cup {None}]
        /\ \A n \in Nodes : nnext'[n] = nnext[n] \/ nnext'[n] = next \/ nnext'[n] = None
    BY <1>1, <2>1, <2>3
  <2>5. \A n \in Nodes : nnext'[n] \in Contexts => Used(nnext'[n])
    BY <1>1, <2>3, <2>4
  <2>6. channels' \in [Channels -> Heads \cup {None}]
    BY <1>1, <2>1
  <2>7. callContexts' \in [Calls -> Contexts \cup {None}]
    BY <1>1, <2>1
  <2>8. tpc' = Stopped(ts, s) /\ tpc' \in [Calls -> TimerStates]
    BY <2>1, <2>2, StopOne
  <2>9. callContexts[s] # None
    BY <1>4 DEF x
  <2> QED
    BY <1>1, <2>1, <2>4, <2>5, <2>6, <2>7, <2>8, <2>9 DEF LinkTypes, MapTypes
<1> QED
  BY <1>2, <1>3, <1>4

(* The handler of the call k is called for the first time.                 *)
LEMMA FirstAnswer ==
  ASSUME ClientTypes, HandlerOnce, NEW k \in Calls, answers[k] = <<>>,
         NEW how \in {"response", "timeout", "disconnected"}, NEW by \in Calls \cup Channels,
         how = "response" => by = k,
         answers' = [answers EXCEPT ![k] = Append(@, <<how, by>>)]
  PROVE  AnswerTypes' /\ HandlerOnce'
<1> DEFINE A == {"response", "timeout", "disconnected"} \X (Calls \cup Channels)
<1>1. answers \in [Calls -> Seq(A)] /\ <<how, by>> \in A
  BY DEF ClientTypes, AnswerTypes
<1>2. /\ answers' \in [Calls -> Seq(A)] /\ answers'[k] = Append(answers[k], <<how, by>>)
      /\ \A j \in Calls \ {k} : answers'[j] = answers[j]
  BY SMT, <1>1
<1>3. Append(answers[k], <<how, by>>) = << <<how, by>> >>
  BY SMT, <1>1
<1>4. Len(answers'[k]) = 1 /\ answers'[k][1] = <<how, by>>
  BY SMT, <1>2, <1>3
<1>5. \A i \in 1..1, j \in Calls : answers'[k][i] = <<"response", j>> => k = j
  BY SMT, <1>4
<1> HIDE DEF A
<1>6. HandlerOnce'
  BY SMT, <1>2, <1>4, <1>5 DEF HandlerOnce
<1> QED
  BY <1>2, <1>6 DEF A, AnswerTypes

-----------------------------------------------------------------------------
(* The client's steps.                                                     *)

(* A post uses no context.                                                 *)
LEMMA PostStep ==
  ASSUME ClientInv, ~panicked, NEW k \in Calls, NEW c \in Channels, Post(k, c)
  PROVE  ClientInv'
<1>1. ClientTypes /\ HandlerOnce /\ Named /\ Holding /\ Core
  BY DEF ClientInv
<1>2. UNCHANGED <<env, pool, seq, channelID, onResponse, deadlineTimer,
                   nnext, pprev, callContexts, channels, actx, tpc, tctx, rpc, rctx, dpc,
                   dcc, dc, dnext, answers, panicked>>
  BY DEF Post, contextVars, listVars, mapVars, callVars, timerVars, respVars, walkVars
<1>3. /\ apc[k] = "new" /\ apc' = [apc EXCEPT ![k] = "posted"]
      /\ achan' = [achan EXCEPT ![k] = c]
  BY DEF Post
<1>4. ClientTypes'
  <2>1. CallTypes'
    BY <1>1, <1>2, <1>3 DEF ClientTypes, CallTypes
  <2> QED
    BY <1>1, <1>2, <2>1, TypesStay DEF ClientTypes
<1>5. apc'[k] = "posted" /\ \A j \in Calls \ {k} : apc'[j] = apc[j]
  BY <1>1, <1>3 DEF ClientTypes, CallTypes
<1>6. Named'
  BY <1>1, <1>2, <1>5, NamedStays DEF ClientTypes, Named
<1>7. Holding'
  BY <1>1, <1>2, <1>5, HoldingStays
<1>8. Onward
  BY <1>3, <1>5 DEF Onward
<1>9. TimersStay
  BY <1>2 DEF TimersStay
<1>10. \A x \in Contexts : Takers(x)' = Takers(x)
  BY <1>2, TakersStay DEF RespTakes, TimeTakes, WalkTakes
<1>11. Core'
  BY <1>1, <1>2, <1>8, <1>9, <1>10, QuietStep
<1>12. HandlerOnce'
  BY <1>1, <1>2 DEF HandlerOnce
<1> QED
  BY <1>2, <1>4, <1>6, <1>7, <1>11, <1>12 DEF ClientInv

(* The request is sent; the caller forgets the context.                    *)
LEMMA SendRequestStep ==
  ASSUME ClientInv, ~panicked, NEW k \in Calls, SendRequest(k)
  PROVE  ClientInv'
<1>1. ClientTypes /\ HandlerOnce /\ Named /\ Holding /\ Core
  BY DEF ClientInv
<1>2. UNCHANGED <<env, pool, seq, channelID, onResponse, deadlineTimer,
                   nnext, pprev, callContexts, channels, achan, tpc, tctx, rpc, rctx, dpc,
                   dcc, dc, dnext, answers, panicked>>
  BY DEF SendRequest, contextVars, listVars, mapVars, callVars, timerVars, respVars, walkVars
<1>3. /\ apc[k] = "send" /\ apc' = [apc EXCEPT ![k] = "sent"]
      /\ actx' = [actx EXCEPT ![k] = None]
  BY DEF SendRequest
<1>4. ClientTypes'
  <2>1. CallTypes'
    BY <1>1, <1>2, <1>3 DEF ClientTypes, CallTypes
  <2> QED
    BY <1>1, <1>2, <2>1, TypesStay DEF ClientTypes
<1>5. apc'[k] = "sent" /\ \A j \in Calls \ {k} : apc'[j] = apc[j] /\ actx'[j] = actx[j]
  BY <1>1, <1>3 DEF ClientTypes, CallTypes
<1>6. Named'
  BY <1>1, <1>2, <1>5, NamedStays DEF ClientTypes, Named
<1>7. Holding'
  BY <1>1, <1>2, <1>5, HoldingStays
<1>8. Onward
  BY <1>3, <1>5 DEF Onward
<1>9. TimersStay
  BY <1>2 DEF TimersStay
<1>10. \A x \in Contexts : Takers(x)' = Takers(x)
  BY <1>2, TakersStay DEF RespTakes, TimeTakes, WalkTakes
<1>11. Core'
  BY <1>1, <1>2, <1>8, <1>9, <1>10, QuietStep
<1>12. HandlerOnce'
  BY <1>1, <1>2 DEF HandlerOnce
<1> QED
  BY <1>2, <1>4, <1>6, <1>7, <1>11, <1>12 DEF ClientInv

(* A timer that fires is still on its way.                                 *)
LEMMA TimerFiresStep ==
  ASSUME ClientInv, ~panicked, NEW k \in Calls, TimerFires(k)
  PROVE  ClientInv'
<1>1. ClientTypes /\ HandlerOnce /\ Named /\ Holding /\ Core
  BY DEF ClientInv
<1>2. UNCHANGED <<env, pool, seq, channelID, onResponse, deadlineTimer,
                   nnext, pprev, callContexts, channels, apc, actx, achan, tctx, rpc,
                   rctx, dpc, dcc, dc, dnext, answers, panicked>>
  BY DEF TimerFires, contextVars, listVars, mapVars, callVars, timerVars, respVars, walkVars
<1>3. tpc[k] = "armed" /\ tpc' = [tpc EXCEPT ![k] = "running"]
  BY DEF TimerFires
<1>4. ClientTypes'
  <2>1. TimerTypes'
    BY <1>1, <1>2, <1>3 DEF ClientTypes, TimerTypes, TimerStates
  <2> QED
    BY <1>1, <1>2, <2>1, TypesStay DEF ClientTypes
<1>5. tpc'[k] = "running" /\ \A j \in Calls \ {k} : tpc'[j] = tpc[j]
  BY <1>1, <1>3 DEF ClientTypes, TimerTypes
<1>6. Named'
  BY <1>1, <1>2, NamedStays DEF ClientTypes, Named
<1>7. Holding'
  <2>1. apc[k] # "new"
    BY <1>1, <1>3 DEF Holding
  <2> QED
    BY <1>1, <1>2, <1>3, <1>5, <2>1, HoldingStays
<1>8. Onward
  BY <1>2 DEF Onward
<1>9. TimersStay
  BY <1>2, <1>3, <1>5 DEF TimersStay
<1>10. \A x \in Contexts : Takers(x)' = Takers(x)
  BY <1>2, <1>3, <1>5, TakersStay DEF RespTakes, TimeTakes, WalkTakes
<1>11. Core'
  BY <1>1, <1>2, <1>8, <1>9, <1>10, QuietStep
<1>12. HandlerOnce'
  BY <1>1, <1>2 DEF HandlerOnce
<1> QED
  BY <1>2, <1>4, <1>6, <1>7, <1>11, <1>12 DEF ClientInv

(* The walk begins with the list of its channel.                           *)
LEMMA OnChannelDisconnectStep ==
  ASSUME ClientInv, ~panicked, NEW c \in Channels, OnChannelDisconnect(c)
  PROVE  ClientInv'
<1>1. ClientTypes /\ HandlerOnce /\ Named /\ Holding /\ Core
  BY DEF ClientInv
<1>2. UNCHANGED <<env, pool, seq, channelID, onResponse, deadlineTimer,
                   nnext, pprev, callContexts, apc, actx, achan, tpc, tctx, rpc, rctx, dc,
                   dnext, answers, panicked>>
  BY DEF OnChannelDisconnect, contextVars, listVars, mapVars, callVars, timerVars, respVars, walkVars
<1>3. /\ dpc[c] = "none" /\ dpc' = [dpc EXCEPT ![c] = IF channels[c] = None THEN "done" ELSE "first"]
      /\ dcc' = [dcc EXCEPT ![c] = channels[c]]
      /\ channels' = [channels EXCEPT ![c] = None]
  BY DEF OnChannelDisconnect
<1>4. ClientTypes'
  <2>1. WalkTypes' /\ MapTypes'
    BY <1>1, <1>2, <1>3 DEF ClientTypes, WalkTypes, MapTypes
  <2> QED
    BY <1>1, <1>2, <2>1, TypesStay DEF ClientTypes
<1>5. Named'
  BY <1>1, <1>2, NamedStays DEF ClientTypes, Named
<1>12. /\ dpc'[c] \in {"done", "first"} /\ (dpc'[c] = "first" => dcc'[c] \in Heads)
       /\ \A d \in Channels \ {c} : dpc'[d] = dpc[d] /\ dcc'[d] = dcc[d]
  BY <1>1, <1>3 DEF ClientTypes, WalkTypes, MapTypes
<1>6. Holding'
  BY <1>1, <1>2, <1>12 DEF Holding, Used
<1>7. Onward
  BY <1>2 DEF Onward
<1>8. TimersStay
  BY <1>2 DEF TimersStay
<1>9. \A x \in Contexts : Takers(x)' = Takers(x)
  BY <1>2, <1>3, <1>12, TakersStay DEF RespTakes, TimeTakes, WalkTakes
<1>10. Core'
  BY <1>1, <1>2, <1>7, <1>8, <1>9, QuietStep
<1>11. HandlerOnce'
  BY <1>1, <1>2 DEF HandlerOnce
<1> QED
  BY <1>2, <1>4, <1>5, <1>6, <1>10, <1>11 DEF ClientInv

(* The walk reads the first link.                                          *)
LEMMA WalkFirstStep ==
  ASSUME ClientInv, ~panicked, NEW c \in Channels, WalkFirst(c)
  PROVE  ClientInv'
<1>1. ClientTypes /\ HandlerOnce /\ Named /\ Holding /\ Core
  BY DEF ClientInv
<1>2. UNCHANGED <<env, pool, seq, channelID, onResponse, deadlineTimer,
                   nnext, pprev, callContexts, channels, apc, actx, achan, tpc, tctx, rpc,
                   rctx, dcc, dnext, answers, panicked>>
  BY DEF WalkFirst, contextVars, listVars, mapVars, callVars, timerVars, respVars, walkVars
<1>3. /\ dpc[c] = "first" /\ dpc' = [dpc EXCEPT ![c] = "next"]
      /\ dc' = [dc EXCEPT ![c] = nnext[dcc[c]]]
      /\ nnext[dcc[c]] \in Nodes \cup {None}
      /\ nnext[dcc[c]] \in Contexts => Used(nnext[dcc[c]])
  <2>1. dpc[c] = "first" /\ dcc[c] \in Nodes
    BY <1>1 DEF WalkFirst, Holding, Nodes
  <2> QED
    BY <1>1, <2>1 DEF WalkFirst, Named, ClientTypes, LinkTypes
<1>4. ClientTypes'
  <2>1. WalkTypes'
    BY <1>1, <1>2, <1>3 DEF ClientTypes, WalkTypes
  <2> QED
    BY <1>1, <1>2, <2>1, TypesStay DEF ClientTypes
<1>12. /\ dpc'[c] = "next" /\ dc'[c] = nnext[dcc[c]]
       /\ \A d \in Channels \ {c} : dpc'[d] = dpc[d] /\ dc'[d] = dc[d]
  BY <1>1, <1>3 DEF ClientTypes, WalkTypes
<1>5. Named'
  <2>1. \A d \in Channels : dc'[d] \in Contexts => Used(dc'[d])
    BY <1>1, <1>3, <1>12 DEF Named
  <2> QED
    BY <1>1, <1>2, <2>1, NamedStays DEF ClientTypes, Named
<1>6. Holding'
  BY <1>1, <1>2, <1>12, HoldingStays
<1>7. Onward
  BY <1>2 DEF Onward
<1>8. TimersStay
  BY <1>2 DEF TimersStay
<1>9. \A x \in Contexts : Takers(x)' = Takers(x)
  BY SMT, <1>2, <1>3, <1>12, TakersStay DEF RespTakes, TimeTakes, WalkTakes
<1>10. Core'
  BY <1>1, <1>2, <1>7, <1>8, <1>9, QuietStep
<1>11. HandlerOnce'
  BY <1>1, <1>2 DEF HandlerOnce
<1> QED
  BY <1>2, <1>4, <1>5, <1>6, <1>10, <1>11 DEF ClientInv

(* The walk ends, goes on to the next link or panics.                      *)
LEMMA WalkNextStep ==
  ASSUME ClientInv, ~panicked, NEW c \in Channels, WalkNext(c)
  PROVE  ClientInv'
<1>1. ClientTypes /\ HandlerOnce /\ Named /\ Holding /\ Core
  BY DEF ClientInv
<1>2. UNCHANGED <<env, pool, seq, channelID, onResponse, deadlineTimer, nnext, pprev,
                   callContexts, channels, apc, actx, achan, tpc, tctx, rpc, rctx, answers>>
  BY DEF WalkNext, contextVars, listVars, mapVars, callVars, timerVars, respVars
<1>3. HandlerOnce'
  BY <1>1, <1>2 DEF HandlerOnce
<1>4. CASE panicked'
  <2>1. UNCHANGED walkVars
    BY <1>4 DEF WalkNext
  <2>2. UNCHANGED <<dpc, dcc, dc, dnext>>
    BY <2>1 DEF walkVars
  <2>3. ClientTypes'
    <3>1. PoolTypes'
      BY <1>1, <1>2, <1>4 DEF ClientTypes, PoolTypes
    <3> QED
      BY <1>1, <1>2, <2>2, <3>1, TypesStay DEF ClientTypes
  <2>4. ReleasedOnce
    BY <1>1, OneUseReleases DEF Core, ClientTypes, PoolTypes
  <2>5. ReleasedOnce'
    BY <1>2, <2>2, <2>4 DEF ReleasedOnce
  <2> QED
    BY <1>3, <1>4, <2>3, <2>5 DEF ClientInv
<1>5. CASE ~panicked'
  <2>1. /\ dpc[c] = "next" /\ UNCHANGED panicked
        /\ dpc' = [dpc EXCEPT ![c] = "done"] \/ dpc' = [dpc EXCEPT ![c] = "look"]
        /\ dcc' = dcc \/ dcc' = [dcc EXCEPT ![c] = None]
        /\ dc' = dc \/ dc' = [dc EXCEPT ![c] = None]
    BY <1>5 DEF WalkNext
  <2>2. PICK n \in Nodes \cup {None} :
          dnext' = [dnext EXCEPT ![c] = n] /\ (n \in Contexts => Used(n))
    <3>1. CASE dnext' = [dnext EXCEPT ![c] = None]
      BY <3>1, RPCClientAssumption
    <3>2. CASE dc[c] # None /\ dnext' = [dnext EXCEPT ![c] = nnext[dc[c]]]
      <4>1. dc[c] \in Nodes
        BY <1>1, <3>2 DEF ClientTypes, WalkTypes
      <4>2. nnext[dc[c]] \in Nodes \cup {None} /\ (nnext[dc[c]] \in Contexts => Used(nnext[dc[c]]))
        BY <1>1, <4>1 DEF ClientTypes, LinkTypes, Named
      <4> QED
        BY <3>2, <4>2
    <3>3. \/ dnext' = [dnext EXCEPT ![c] = None]
          \/ dc[c] # None /\ dnext' = [dnext EXCEPT ![c] = nnext[dc[c]]]
      BY <1>5 DEF WalkNext
    <3> QED
      BY <3>1, <3>2, <3>3
  <2>3. ClientTypes'
    <3>1. WalkTypes
      BY <1>1 DEF ClientTypes
    <3>2. /\ dpc' \in [Channels -> {"none", "first", "next", "look", "respond", "done"}]
          /\ dcc' \in [Channels -> Heads \cup {None}]
      BY <2>1, <3>1 DEF WalkTypes
    <3>3. dc' \in [Channels -> Nodes \cup {None}] /\ dnext' \in [Channels -> Nodes \cup {None}]
      BY <2>1, <2>2, <3>1 DEF WalkTypes
    <3>4. WalkTypes'
      BY <3>2, <3>3 DEF WalkTypes
    <3> QED
      BY <1>1, <1>2, <2>1, <3>4, TypesStay DEF ClientTypes
  <2>4. Named'
    <3>1. \A d \in Channels : dc'[d] = dc[d] \/ dc'[d] = None
      BY <1>1, <2>1 DEF ClientTypes, WalkTypes
    <3>2. \A d \in Channels : dnext'[d] = dnext[d] \/ dnext'[d] = n
      BY <1>1, <2>2 DEF ClientTypes, WalkTypes
    <3> QED
      <4>1. \A d \in Channels : dc'[d] \in Contexts => Used(dc'[d])
        BY <1>1, <3>1, RPCClientAssumption DEF Named
      <4>2. \A d \in Channels : dnext'[d] \in Contexts => Used(dnext'[d])
        BY <1>1, <2>2, <3>2 DEF Named
      <4> QED
        BY <1>1, <1>2, <4>1, <4>2, NamedStays DEF ClientTypes, Named
  <2>5. /\ \A d \in Channels \ {c} : dpc'[d] = dpc[d] /\ dc'[d] = dc[d] /\ dcc'[d] = dcc[d]
        /\ dpc'[c] \in {"done", "look"}
    BY <1>1, <2>1 DEF ClientTypes, WalkTypes
  <2>6. Holding'
    BY <1>1, <1>2, <2>5, HoldingStays
  <2>7. Onward /\ TimersStay
    BY <1>2 DEF Onward, TimersStay
  <2>8. \A x \in Contexts : Takers(x)' = Takers(x)
    BY <1>2, <2>1, <2>5, TakersStay DEF RespTakes, TimeTakes, WalkTakes
  <2>9. Core'
    BY <1>1, <1>2, <2>7, <2>8, QuietStep
  <2> QED
    BY <1>3, <1>5, <2>3, <2>4, <2>6, <2>9 DEF ClientInv
<1> QED
  BY <1>4, <1>5

(* The walk finds the call of its node in the map and takes it out, or     *)
(* goes on.                                                                *)
LEMMA WalkLookStep ==
  ASSUME ClientInv, ~panicked, NEW c \in Channels, WalkLook(c)
  PROVE  ClientInv'
<1>1. ClientTypes /\ HandlerOnce /\ Named /\ Holding /\ Core /\ Mapped
  BY DEF ClientInv, Core
<1>2. UNCHANGED <<env, pool, seq, channelID, onResponse, deadlineTimer, nnext, pprev,
                   channels, apc, actx, achan, tpc, tctx, rpc, rctx, dcc, dnext, answers, panicked>>
  BY DEF WalkLook, contextVars, listVars, callVars, timerVars, respVars
<1>3. HandlerOnce'
  BY <1>1, <1>2 DEF HandlerOnce
<1>4. Onward /\ dpc[c] = "look"
  BY <1>2 DEF Onward, WalkLook
<1>5. CASE ~Findable(dc[c])
  <2>1. /\ dc' = [dc EXCEPT ![c] = dnext[c]] /\ dpc' = [dpc EXCEPT ![c] = "next"]
        /\ callContexts' = callContexts
    BY <1>5 DEF WalkLook
  <2>2. ClientTypes'
    <3>1. WalkTypes'
      BY <1>1, <1>2, <2>1 DEF ClientTypes, WalkTypes
    <3> QED
      BY <1>1, <1>2, <2>1, <3>1, TypesStay DEF ClientTypes
  <2>4. /\ \A d \in Channels \ {c} : dpc'[d] = dpc[d] /\ dc'[d] = dc[d]
        /\ dpc'[c] = "next" /\ dc'[c] = dnext[c]
    BY <1>1, <2>1 DEF ClientTypes, WalkTypes
  <2>3. Named'
    <3>1. \A d \in Channels : dc'[d] \in Contexts => Used(dc'[d])
      BY <1>1, <2>4 DEF Named
    <3> QED
      BY <1>1, <1>2, <3>1, NamedStays DEF ClientTypes, Named
  <2>5. Holding'
    BY <1>1, <1>2, <2>4, HoldingStays
  <2>6. \A x \in Contexts : Takers(x)' = Takers(x)
    BY <1>2, <1>4, <2>4, TakersStay DEF RespTakes, TimeTakes, WalkTakes
  <2>7. TimersStay
    BY <1>2, <2>1 DEF TimersStay
  <2>8. Core'
    BY <1>1, <1>2, <1>4, <2>1, <2>6, <2>7, QuietStep
  <2> QED
    BY <1>2, <1>3, <2>2, <2>3, <2>5, <2>8 DEF ClientInv
<1>6. CASE Findable(dc[c])
  <2>0. PICK x \in Contexts : x = dc[c]
    BY <1>6 DEF Findable
  <2>1. /\ callContexts' = [callContexts EXCEPT ![seq[x]] = None]
        /\ dpc' = [dpc EXCEPT ![c] = "respond"] /\ dc' = dc
    BY <1>6, <2>0 DEF WalkLook
  <2>2. Used(x)
    BY <1>1, <2>0 DEF Named
  <2>3. seq[x] \in Calls /\ callContexts[seq[x]] = x
    BY <1>1, <1>6, <2>0, <2>2, Found
  <2>4. ClientTypes'
    <3>1. WalkTypes' /\ MapTypes'
      BY <1>1, <1>2, <2>1 DEF ClientTypes, WalkTypes, MapTypes
    <3> QED
      BY <1>1, <1>2, <3>1, TypesStay DEF ClientTypes
  <2>5. Named'
    BY <1>1, <1>2, <2>1, NamedStays DEF ClientTypes, Named
  <2>6. /\ \A d \in Channels \ {c} : dpc'[d] = dpc[d]
        /\ dpc'[c] = "respond"
    BY <1>1, <2>1 DEF ClientTypes, WalkTypes
  <2>7. Holding'
    BY <1>1, <1>2, <2>0, <2>1, <2>2, <2>6 DEF Holding, Used
  <2>8. \A y \in Contexts : RespTakes(y)' = RespTakes(y) /\ TimeTakes(y)' = TimeTakes(y)
    BY <1>2 DEF RespTakes, TimeTakes
  <2>9. /\ WalkTakes(x)' = WalkTakes(x) \cup {c}
        /\ \A y \in Contexts \ {x} : WalkTakes(y)' = WalkTakes(y)
    BY <1>4, <2>0, <2>1, <2>6 DEF WalkTakes
  <2>10. /\ Takers(x)' = Takers(x) \cup {<<"disconnected", c>>}
         /\ \A y \in Contexts \ {x} : Takers(y)' = Takers(y)
    BY <2>8, <2>9, TakersMove, TakersStay
  <2>11. TimersStay
    BY <1>2 DEF TimersStay
  <2>12. Core'
    BY <1>1, <1>2, <1>4, <2>1, <2>2, <2>3, <2>10, <2>11, TakeOutStep
  <2> QED
    BY <1>2, <1>3, <2>4, <2>5, <2>7, <2>12 DEF ClientInv
<1> QED
  BY <1>5, <1>6

(* The handler of the call is called by the response that took it out.     *)
LEMMA ResponseAnswersStep ==
  ASSUME ClientInv, ~panicked, NEW k \in Calls, ResponseAnswers(k)
  PROVE  ClientInv'
<1>1. ClientTypes /\ HandlerOnce /\ Named /\ Holding /\ Core
  BY DEF ClientInv
<1>2. UNCHANGED <<env, seq, channelID, onResponse, deadlineTimer, nnext, pprev, callContexts,
                   channels, apc, actx, achan, tpc, tctx, dpc, dcc, dc, dnext, panicked>>
  BY DEF ResponseAnswers, contextVars, listVars, mapVars, callVars, timerVars, walkVars
<1>3. rpc[k] = "respond" /\ Used(rctx[k]) /\ seq[rctx[k]] = k
  BY <1>1 DEF ResponseAnswers, Holding
<1>4. PICK x \in Contexts : x = rctx[k]
  BY <1>3 DEF Used
<1>5. /\ rpc' = [rpc EXCEPT ![k] = "done"] /\ rctx' = [rctx EXCEPT ![k] = None] /\ Release(x)
      /\ answers' = [answers EXCEPT ![seq[x]] = Append(@, <<"response", k>>)]
  BY <1>1, <1>4 DEF ResponseAnswers, Answer, Named
<1>6. /\ rpc'[k] = "done" /\ \A j \in Calls \ {k} : rpc'[j] = rpc[j] /\ rctx'[j] = rctx[j]
  BY <1>1, <1>5 DEF ClientTypes, RespTypes
<1>7. \A y \in Contexts : TimeTakes(y)' = TimeTakes(y) /\ WalkTakes(y)' = WalkTakes(y)
  BY <1>2 DEF TimeTakes, WalkTakes
<1>8. /\ RespTakes(x)' = RespTakes(x) \ {k}
      /\ \A y \in Contexts \ {x} : RespTakes(y)' = RespTakes(y)
  BY <1>4, <1>6 DEF RespTakes
<1>9. /\ Takers(x)' = Takers(x) \ {<<"response", k>>}
      /\ \A y \in Contexts \ {x} : Takers(y)' = Takers(y)
  BY <1>7, <1>8, TakersMove, TakersStay
<1>10. <<"response", k>> \in Takers(x)
  BY <1>3, <1>4, TakersAre DEF RespTakes
<1>11. Onward /\ TimersStay
  BY <1>2 DEF Onward, TimersStay
<1>12. Core' /\ answers[seq[x]] = <<>> /\ pool' \in [Contexts -> Nat]
  BY <1>1, <1>2, <1>3, <1>4, <1>5, <1>9, <1>10, <1>11, AnswerStep
<1>13. AnswerTypes' /\ HandlerOnce'
  BY <1>1, <1>3, <1>4, <1>5, <1>12, FirstAnswer
<1>14. ClientTypes'
  <2>1. RespTypes' /\ PoolTypes'
    BY <1>1, <1>2, <1>5, <1>12 DEF ClientTypes, RespTypes, PoolTypes
  <2> QED
    BY <1>1, <1>2, <1>13, <2>1, TypesStay DEF ClientTypes
<1>15. Named'
  BY <1>1, <1>2, NamedStays DEF ClientTypes, Named
<1>16. Holding'
  BY <1>1, <1>2, <1>6, HoldingStays
<1> QED
  BY <1>2, <1>12, <1>13, <1>14, <1>15, <1>16 DEF ClientInv

(* The handler is called by the timer that took the call out.              *)
LEMMA TimeoutAnswersStep ==
  ASSUME ClientInv, ~panicked, NEW k \in Calls, TimeoutAnswers(k)
  PROVE  ClientInv'
<1>1. ClientTypes /\ HandlerOnce /\ Named /\ Holding /\ Core
  BY DEF ClientInv
<1>2. UNCHANGED <<env, seq, channelID, onResponse, deadlineTimer, nnext, pprev, callContexts,
                   channels, apc, actx, achan, rpc, rctx, dpc, dcc, dc, dnext, panicked>>
  BY DEF TimeoutAnswers, contextVars, listVars, mapVars, callVars, respVars, walkVars
<1>3. tpc[k] = "respond" /\ Used(tctx[k])
  BY <1>1 DEF TimeoutAnswers, Holding
<1>4. PICK x \in Contexts : x = tctx[k]
  BY <1>3 DEF Used
<1>5. /\ tpc' = [tpc EXCEPT ![k] = "done"] /\ tctx' = [tctx EXCEPT ![k] = None] /\ Release(x)
      /\ answers' = [answers EXCEPT ![seq[x]] = Append(@, <<"timeout", k>>)]
  BY <1>1, <1>4 DEF TimeoutAnswers, Answer, Named
<1>6. /\ tpc'[k] = "done" /\ \A j \in Calls \ {k} : tpc'[j] = tpc[j] /\ tctx'[j] = tctx[j]
  BY <1>1, <1>5 DEF ClientTypes, TimerTypes
<1>7. \A y \in Contexts : RespTakes(y)' = RespTakes(y) /\ WalkTakes(y)' = WalkTakes(y)
  BY <1>2 DEF RespTakes, WalkTakes
<1>8. /\ TimeTakes(x)' = TimeTakes(x) \ {k}
      /\ \A y \in Contexts \ {x} : TimeTakes(y)' = TimeTakes(y)
  BY <1>4, <1>6 DEF TimeTakes
<1>9. /\ Takers(x)' = Takers(x) \ {<<"timeout", k>>}
      /\ \A y \in Contexts \ {x} : Takers(y)' = Takers(y)
  BY <1>7, <1>8, TakersMove, TakersStay
<1>10. <<"timeout", k>> \in Takers(x)
  BY <1>3, <1>4, TakersAre DEF TimeTakes
<1>11. Onward /\ TimersStay
  <2>1. callContexts[k] = None
    BY <1>1, <1>3 DEF Core, Mapped
  <2> QED
    BY <1>2, <1>6, <2>1 DEF Onward, TimersStay
<1>12. Core' /\ answers[seq[x]] = <<>> /\ pool' \in [Contexts -> Nat]
  BY <1>1, <1>2, <1>3, <1>4, <1>5, <1>9, <1>10, <1>11, AnswerStep
<1>13. AnswerTypes' /\ HandlerOnce'
  <2>1. seq[x] \in Calls
    BY <1>1, <1>3, <1>4 DEF Used, ClientTypes, FieldTypes
  <2> QED
    BY <1>1, <1>5, <1>12, <2>1, FirstAnswer
<1>14. ClientTypes'
  <2>1. TimerTypes' /\ PoolTypes'
    BY <1>1, <1>2, <1>5, <1>12 DEF ClientTypes, TimerTypes, TimerStates, PoolTypes
  <2> QED
    BY <1>1, <1>2, <1>13, <2>1, TypesStay DEF ClientTypes
<1>15. Named'
  BY <1>1, <1>2, NamedStays DEF ClientTypes, Named
<1>16. Holding'
  <2>1. apc[k] # "new"
    BY <1>1, <1>3 DEF Holding
  <2> QED
    BY <1>1, <1>2, <1>6, <2>1, HoldingStays
<1> QED
  BY <1>2, <1>12, <1>13, <1>14, <1>15, <1>16 DEF ClientInv

(* The handler is called by the walk that took the call out.               *)
LEMMA WalkAnswersStep ==
  ASSUME ClientInv, ~panicked, NEW c \in Channels, WalkAnswers(c)
  PROVE  ClientInv'
<1>1. ClientTypes /\ HandlerOnce /\ Named /\ Holding /\ Core
  BY DEF ClientInv
<1>2. UNCHANGED <<env, seq, channelID, onResponse, deadlineTimer, nnext, pprev, callContexts,
                   channels, apc, actx, achan, tctx, rpc, rctx, dcc, dnext, panicked>>
  BY DEF WalkAnswers, contextVars, listVars, mapVars, callVars, respVars
<1>3. dpc[c] = "respond" /\ Used(dc[c])
  BY <1>1 DEF WalkAnswers, Holding
<1>4. PICK x \in Contexts : x = dc[c]
  BY <1>3 DEF Used
<1>5. /\ tpc' = Stopped(tpc, seq[x]) /\ Release(x)
      /\ answers' = [answers EXCEPT ![seq[x]] = Append(@, <<"disconnected", c>>)]
      /\ dc' = [dc EXCEPT ![c] = dnext[c]] /\ dpc' = [dpc EXCEPT ![c] = "next"]
  BY <1>1, <1>4 DEF WalkAnswers, Answer, Named
<1>6. seq[x] \in Calls /\ tpc \in [Calls -> TimerStates]
  BY <1>1, <1>3, <1>4 DEF Used, ClientTypes, FieldTypes, TimerTypes
<1>7. /\ tpc' \in [Calls -> TimerStates]
      /\ \A j \in Calls \ {seq[x]} : tpc'[j] = tpc[j]
      /\ tpc'[seq[x]] = IF tpc[seq[x]] = "armed" THEN "none" ELSE tpc[seq[x]]
  BY <1>5, <1>6, StopOne
<1>8. dpc'[c] = "next" /\ dc'[c] = dnext[c] /\ \A d \in Channels \ {c} : dpc'[d] = dpc[d] /\ dc'[d] = dc[d]
  BY <1>1, <1>5 DEF ClientTypes, WalkTypes
<1>9. \A y \in Contexts : RespTakes(y)' = RespTakes(y) /\ TimeTakes(y)' = TimeTakes(y)
  BY SMT, <1>2, <1>6, <1>7 DEF RespTakes, TimeTakes
<1>10. /\ WalkTakes(x)' = WalkTakes(x) \ {c}
       /\ \A y \in Contexts \ {x} : WalkTakes(y)' = WalkTakes(y)
  BY <1>4, <1>8 DEF WalkTakes
<1>11. /\ Takers(x)' = Takers(x) \ {<<"disconnected", c>>}
       /\ \A y \in Contexts \ {x} : Takers(y)' = Takers(y)
  BY <1>9, <1>10, TakersMove, TakersStay
<1>12. <<"disconnected", c>> \in Takers(x)
  BY <1>3, <1>4, TakersAre DEF WalkTakes
<1>13. callContexts[seq[x]] = None
  <2>1. ~InMap(x)
    BY <1>1, <1>12 DEF Core, OneUse
  <2>2. Mapped /\ Used(x)
    BY <1>1, <1>3, <1>4 DEF Core
  <2> QED
    BY <1>1, <1>6, <2>1, <2>2, Found DEF InMap
<1>14. Onward /\ TimersStay
  BY <1>2, <1>7, <1>13 DEF Onward, TimersStay
<1>15. Core' /\ answers[seq[x]] = <<>> /\ pool' \in [Contexts -> Nat]
  BY <1>1, <1>2, <1>3, <1>4, <1>5, <1>11, <1>12, <1>14, AnswerStep
<1>16. AnswerTypes' /\ HandlerOnce'
  BY <1>1, <1>5, <1>6, <1>15, FirstAnswer
<1>17. ClientTypes'
  <2>1. WalkTypes'
    BY <1>1, <1>2, <1>5 DEF ClientTypes, WalkTypes
  <2>2. TimerTypes' /\ PoolTypes'
    BY <1>1, <1>2, <1>7, <1>15 DEF ClientTypes, TimerTypes, PoolTypes
  <2> QED
    BY <1>1, <1>2, <1>16, <2>1, <2>2, TypesStay DEF ClientTypes
<1>18. Named'
  <2>1. \A d \in Channels : dc'[d] \in Contexts => Used(dc'[d])
    BY <1>1, <1>8 DEF Named
  <2> QED
    BY <1>1, <1>2, <2>1, NamedStays DEF ClientTypes, Named
<1>19. Holding'
  <2>1. \A j \in Calls : tpc'[j] = tpc[j] \/ tpc'[j] = "none"
    BY <1>6, <1>7
  <2>2. \A j \in Calls : apc[j] = "new" => tpc'[j] = tpc[j]
    BY <1>1, <1>6, <1>7 DEF Holding
  <2> QED
    BY <1>1, <1>2, <1>8, <2>1, <2>2, HoldingStays
<1> QED
  BY <1>2, <1>15, <1>16, <1>17, <1>18, <1>19 DEF ClientInv

(* The response of k takes the call k out, if it is in the map.            *)
LEMMA OnResponseStep ==
  ASSUME ClientInv, ~panicked, NEW k \in Calls, OnResponse(k)
  PROVE  ClientInv'
<1>1. ClientTypes /\ HandlerOnce /\ Named /\ Holding /\ Core /\ Mapped
  BY DEF ClientInv, Core
<1>2. UNCHANGED <<env, pool, seq, channelID, onResponse, deadlineTimer, apc, actx, achan, tctx,
                   dpc, dcc, dc, dnext, answers>>
  BY DEF OnResponse, contextVars, callVars, walkVars
<1>3. /\ rpc[k] # "respond" /\ removeCallBySeqno(k, tpc)
      /\ rpc' = [rpc EXCEPT ![k] = IF callContexts[k] # None THEN "respond" ELSE "done"]
      /\ rctx' = [rctx EXCEPT ![k] = callContexts[k]]
  BY DEF OnResponse
<1>4. tpc \in [Calls -> TimerStates]
  BY <1>1 DEF ClientTypes, TimerTypes
<1>5. /\ LinkTypes' /\ MapTypes' /\ tpc' \in [Calls -> TimerStates] /\ panicked' \in BOOLEAN
      /\ \A n \in Nodes : nnext'[n] \in Contexts => Used(nnext'[n])
  BY <1>1, <1>3, <1>4, RemoveStep
<1>6. \/ /\ callContexts[k] = None
         /\ callContexts' = callContexts /\ tpc' = tpc /\ panicked' = panicked
      \/ /\ callContexts[k] # None
         /\ callContexts' = [callContexts EXCEPT ![k] = None]
         /\ tpc' = Stopped(tpc, k) /\ panicked' = panicked
      \/ /\ callContexts[k] # None
         /\ callContexts' = callContexts /\ tpc' = tpc /\ panicked' = TRUE
  BY <1>1, <1>3, <1>4, RemoveStep
<1>7. /\ rpc'[k] = (IF callContexts[k] # None THEN "respond" ELSE "done") /\ rctx'[k] = callContexts[k]
      /\ \A j \in Calls \ {k} : rpc'[j] = rpc[j] /\ rctx'[j] = rctx[j]
  BY <1>1, <1>3 DEF ClientTypes, RespTypes
<1>8. ClientTypes'
  <2>1. RespTypes'
    BY <1>1, <1>3 DEF ClientTypes, RespTypes, MapTypes
  <2>2. PoolTypes' /\ TimerTypes'
    BY <1>1, <1>2, <1>5 DEF ClientTypes, PoolTypes, TimerTypes
  <2> QED
    BY <1>1, <1>2, <1>5, <2>1, <2>2, TypesStay DEF ClientTypes
<1>9. HandlerOnce'
  BY <1>1, <1>2 DEF HandlerOnce
<1>10. Named'
  BY <1>1, <1>2, <1>5, NamedStays DEF ClientTypes, Named
<1>11. callContexts[k] # None => callContexts[k] \in Contexts /\ Used(callContexts[k]) /\ seq[callContexts[k]] = k
  BY SMT, <1>1, RPCClientAssumption DEF ClientTypes, MapTypes, Used, Mapped
<1>12. \A j \in Calls : tpc'[j] = tpc[j] \/ tpc'[j] = "none"
  BY SMT, <1>4, <1>6, StopOne
<1>13. Holding'
  <2>1. \A j \in Calls : apc[j] = "new" => tpc'[j] = "none"
    BY <1>1, <1>12 DEF Holding
  <2>2. \A j \in Calls : rpc'[j] = "respond" => Used(rctx'[j]) /\ seq[rctx'[j]] = j
    BY <1>1, <1>7, <1>11 DEF Holding
  <2>3. \A j \in Calls : tpc'[j] \in {"armed", "running", "respond"} => Used(tctx[j])
    BY <1>1, <1>12 DEF Holding
  <2> QED
    BY <1>1, <1>2, <2>1, <2>2, <2>3 DEF Holding, Used
<1>14. Onward
  BY <1>2 DEF Onward
<1>15. \A y \in Contexts : WalkTakes(y)' = WalkTakes(y)
  BY <1>2 DEF WalkTakes
<1>16. CASE callContexts[k] = None
  <2>1. callContexts' = callContexts /\ tpc' = tpc /\ panicked' = panicked
    BY <1>6, <1>16
  <2>2. \A y \in Contexts : RespTakes(y)' = RespTakes(y) /\ TimeTakes(y)' = TimeTakes(y)
    BY SMT, <1>2, <1>3, <1>7, <1>16, <2>1 DEF RespTakes, TimeTakes
  <2>3. \A y \in Contexts : Takers(y)' = Takers(y)
    BY <1>15, <2>2, TakersStay
  <2>4. TimersStay
    BY <1>2, <2>1 DEF TimersStay
  <2>5. Core'
    BY <1>1, <1>2, <1>14, <2>1, <2>3, <2>4, QuietStep
  <2> QED
    BY <1>8, <1>9, <1>10, <1>13, <2>1, <2>5 DEF ClientInv
<1>17. CASE callContexts[k] # None /\ panicked'
  <2>1. callContexts' = callContexts /\ tpc' = tpc
    BY <1>6, <1>17
  <2>2. ReleasedOnce /\ pool[callContexts[k]] # 1
    BY <1>1, <1>11, OneUseReleases, <1>17 DEF Core, ClientTypes, PoolTypes, OneUse, InMap
  <2>3. ReleasedOnce'
    BY SMT, <1>2, <1>7, <2>1, <2>2 DEF ReleasedOnce
  <2> QED
    BY <1>8, <1>9, <1>17, <2>3 DEF ClientInv
<1>18. CASE callContexts[k] # None /\ ~panicked'
  <2>1. /\ callContexts' = [callContexts EXCEPT ![k] = None]
        /\ tpc' = Stopped(tpc, k) /\ panicked' = panicked
    BY <1>6, <1>18
  <2>2. PICK x \in Contexts : x = callContexts[k]
    BY <1>11, <1>18
  <2>3. \A j \in Calls : tpc'[j] = "respond" <=> tpc[j] = "respond"
    BY SMT, <1>4, <2>1, StopOne
  <2>4. \A y \in Contexts : TimeTakes(y)' = TimeTakes(y)
    BY <1>2, <2>3 DEF TimeTakes
  <2>5. /\ RespTakes(x)' = RespTakes(x) \cup {k}
        /\ \A y \in Contexts \ {x} : RespTakes(y)' = RespTakes(y)
    BY <1>3, <1>7, <1>18, <2>2 DEF RespTakes
  <2>6. /\ Takers(x)' = Takers(x) \cup {<<"response", k>>}
        /\ \A y \in Contexts \ {x} : Takers(y)' = Takers(y)
    BY <1>15, <2>4, <2>5, TakersMove, TakersStay
  <2>7. TimersStay
    <3>1. callContexts'[k] = None
      BY <1>1, <2>1 DEF ClientTypes, MapTypes
    <3>2. \A j \in Calls \ {k} : tpc'[j] = tpc[j]
      BY <1>4, <2>1, StopOne
    <3> QED
      BY <1>2, <3>1, <3>2 DEF TimersStay
  <2>8. Core'
    BY <1>1, <1>2, <1>14, <2>1, <2>2, <2>6, <2>7, TakeOutStep
  <2> QED
    BY <1>8, <1>9, <1>10, <1>13, <1>18, <2>8 DEF ClientInv
<1> QED
  BY <1>16, <1>17, <1>18

(* A timer that ran takes out the call its context stands for now, if that *)
(* one is in the map.                                                      *)
LEMMA onTimeoutStep ==
  ASSUME ClientInv, ~panicked, NEW k \in Calls, onTimeout(k)
  PROVE  ClientInv'
<1> DEFINE ts == [tpc EXCEPT ![k] = IF Findable(tctx[k]) THEN "respond" ELSE "done"]
<1>1. ClientTypes /\ HandlerOnce /\ Named /\ Holding /\ Core /\ Mapped
  BY DEF ClientInv, Core
<1>2. UNCHANGED <<env, pool, seq, channelID, onResponse, deadlineTimer, apc, actx, achan, rpc, rctx,
                   dpc, dcc, dc, dnext, answers>>
  BY DEF onTimeout, contextVars, callVars, respVars, walkVars
<1>3. tpc[k] = "running" /\ Used(tctx[k])
  BY <1>1 DEF onTimeout, Holding
<1>4. PICK x \in Contexts : x = tctx[k]
  BY <1>3 DEF Used
<1>5. PICK s \in Calls : s = seq[x]
  BY <1>1, <1>3, <1>4, Found
<1>6. tpc \in [Calls -> TimerStates] /\ ts \in [Calls -> TimerStates]
  BY <1>1 DEF ClientTypes, TimerTypes, TimerStates
<1>7. removeCallBySeqno(s, ts)
  BY <1>4, <1>5 DEF onTimeout
<1>8. /\ ts[k] = (IF Findable(x) THEN "respond" ELSE "done")
      /\ \A j \in Calls \ {k} : ts[j] = tpc[j]
  BY <1>4, <1>6
<1> HIDE DEF ts
<1>9. /\ LinkTypes' /\ MapTypes' /\ tpc' \in [Calls -> TimerStates] /\ panicked' \in BOOLEAN
      /\ \A n \in Nodes : nnext'[n] \in Contexts => Used(nnext'[n])
  BY <1>1, <1>6, <1>7, RemoveStep
<1>10. \/ /\ callContexts[s] = None
          /\ callContexts' = callContexts /\ tpc' = ts /\ panicked' = panicked
       \/ /\ callContexts[s] # None
          /\ callContexts' = [callContexts EXCEPT ![s] = None]
          /\ tpc' = Stopped(ts, s) /\ panicked' = panicked
       \/ /\ callContexts[s] # None
          /\ callContexts' = callContexts /\ tpc' = ts /\ panicked' = TRUE
  BY <1>1, <1>6, <1>7, RemoveStep
<1>11. /\ tctx' \in [Calls -> Contexts \cup {None}]
       /\ tctx'[k] = IF Findable(x) THEN x ELSE None
       /\ \A j \in Calls \ {k} : tctx'[j] = tctx[j]
  BY <1>1, <1>4 DEF onTimeout, ClientTypes, TimerTypes
<1>12. ClientTypes'
  <2>1. PoolTypes' /\ TimerTypes'
    BY <1>1, <1>2, <1>9, <1>11 DEF ClientTypes, PoolTypes, TimerTypes
  <2> QED
    BY <1>1, <1>2, <1>9, <2>1, TypesStay DEF ClientTypes
<1>13. HandlerOnce'
  BY <1>1, <1>2 DEF HandlerOnce
<1>14. Named'
  BY <1>1, <1>2, <1>9, NamedStays DEF ClientTypes, Named
<1>15. /\ tpc'[k] = ts[k]
       /\ \A j \in Calls \ {k} : tpc'[j] = tpc[j] \/ (tpc'[j] = "none" /\ tpc[j] = "armed")
  BY SMT, <1>6, <1>8, <1>10, StopOne
<1>16. Holding'
  <2>1. apc[k] # "new"
    BY <1>1, <1>3 DEF Holding
  <2> QED
    <3>1. \A j \in Calls : apc[j] = "new" => tpc'[j] = tpc[j]
      BY <1>1, <1>15, <2>1 DEF Holding
    <3>2. \A j \in Calls : tpc'[j] \in {"armed", "running", "respond"} =>
                             tpc[j] \in {"armed", "running", "respond"} /\ tctx'[j] = tctx[j]
      BY <1>3, <1>4, <1>8, <1>11, <1>15
    <3> QED
      BY <1>1, <1>2, <3>1, <3>2, HoldingStays
<1>17. Onward
  BY <1>2 DEF Onward
<1>18. /\ \A y \in Contexts : RespTakes(y)' = RespTakes(y) /\ WalkTakes(y)' = WalkTakes(y)
       /\ \A y \in Contexts \ {x} : TimeTakes(y)' = TimeTakes(y)
  BY <1>2, <1>3, <1>4, <1>8, <1>11, <1>15 DEF RespTakes, TimeTakes, WalkTakes
<1>19. callContexts[k] # None => s = k
  BY <1>1, <1>4, <1>5 DEF Mapped
<1>20. Findable(x) <=> callContexts[s] # None
  BY <1>5 DEF Findable
<1>21. CASE callContexts[s] = None
  <2>1. callContexts' = callContexts /\ tpc' = ts /\ panicked' = panicked
    BY <1>10, <1>21
  <2>2. TimeTakes(x)' = TimeTakes(x)
    BY <1>3, <1>4, <1>8, <1>11, <1>20, <1>21, <2>1 DEF TimeTakes
  <2>3. \A y \in Contexts : Takers(y)' = Takers(y)
    BY <1>18, <2>2, TakersStay
  <2>4. TimersStay
    BY <1>8, <1>11, <1>19, <1>21, <2>1 DEF TimersStay
  <2>5. Core'
    BY <1>1, <1>2, <1>17, <2>1, <2>3, <2>4, QuietStep
  <2> QED
    BY <1>12, <1>13, <1>14, <1>16, <2>1, <2>5 DEF ClientInv
<1>22. CASE callContexts[s] # None
  <2>1. callContexts[s] = x /\ Findable(x)
    BY <1>1, <1>3, <1>4, <1>5, <1>20, <1>22, Found
  <2>2. CASE panicked'
    <3>1. callContexts' = callContexts
      BY <1>10, <2>2
    <3>2. ReleasedOnce /\ pool[x] # 1
      BY <1>1, <2>1, OneUseReleases DEF Core, ClientTypes, PoolTypes, OneUse, InMap
    <3>3. ReleasedOnce'
      BY SMT, <1>2, <1>4, <1>11, <1>15, <2>1, <3>1, <3>2 DEF ReleasedOnce
    <3> QED
      BY <1>12, <1>13, <2>2, <3>3 DEF ClientInv
  <2>3. CASE ~panicked'
    <3>1. callContexts' = [callContexts EXCEPT ![s] = None] /\ tpc' = Stopped(ts, s)
      BY <1>10, <1>22, <2>3
    <3>2. TimeTakes(x)' = TimeTakes(x) \cup {k}
      BY <1>3, <1>4, <1>8, <1>11, <1>15, <2>1 DEF TimeTakes
    <3>3. /\ Takers(x)' = Takers(x) \cup {<<"timeout", k>>}
          /\ \A y \in Contexts \ {x} : Takers(y)' = Takers(y)
      BY <1>18, <3>2, TakersMove, TakersStay
    <3>4. callContexts'[s] = None /\ \A j \in Calls \ {s} : callContexts'[j] = callContexts[j]
      BY <1>1, <3>1 DEF ClientTypes, MapTypes
    <3>5. \A j \in Calls \ {s} : tpc'[j] = ts[j]
      BY <1>6, <3>1, StopOne
    <3>6. TimersStay
      BY <1>8, <1>11, <1>19, <3>4, <3>5 DEF TimersStay
    <3>7. Core'
      BY <1>1, <1>2, <1>17, <2>1, <3>1, <3>3, <3>6, TakeOutStep
    <3> QED
      BY <1>12, <1>13, <1>14, <1>16, <2>3, <3>7 DEF ClientInv
  <2> QED
    BY <2>2, <2>3
<1> QED
  BY <1>21, <1>22

(* A failed send takes out the call its context stands for now, if that    *)
(* one is in the map, and releases the context.                            *)
LEMMA SendFailsStep ==
  ASSUME ClientInv, ~panicked, NEW k \in Calls, SendFails(k)
  PROVE  ClientInv'
<1>1. ClientTypes /\ HandlerOnce /\ Named /\ Holding /\ Core /\ Mapped
  BY DEF ClientInv, Core
<1>2. UNCHANGED <<env, seq, channelID, onResponse, deadlineTimer, achan, tctx, rpc, rctx,
                   dpc, dcc, dc, dnext, answers>>
  BY DEF SendFails, contextVars, respVars, walkVars
<1>3. apc[k] = "send" /\ Used(actx[k])
  BY <1>1 DEF SendFails, Holding
<1>4. PICK x \in Contexts : x = actx[k]
  BY <1>3 DEF Used
<1>5. PICK s \in Calls : s = seq[x]
  BY <1>1, <1>3, <1>4, Found
<1>6. tpc \in [Calls -> TimerStates]
  BY <1>1 DEF ClientTypes, TimerTypes
<1>7. /\ removeCallBySeqno(s, tpc)
      /\ IF Findable(x) /\ ~panicked' THEN Release(x) ELSE UNCHANGED pool
  BY <1>4, <1>5 DEF SendFails
<1>8. /\ LinkTypes' /\ MapTypes' /\ tpc' \in [Calls -> TimerStates] /\ panicked' \in BOOLEAN
      /\ \A n \in Nodes : nnext'[n] \in Contexts => Used(nnext'[n])
  BY <1>1, <1>6, <1>7, RemoveStep
<1>9. \/ /\ callContexts[s] = None
         /\ callContexts' = callContexts /\ tpc' = tpc /\ panicked' = panicked
      \/ /\ callContexts[s] # None
         /\ callContexts' = [callContexts EXCEPT ![s] = None]
         /\ tpc' = Stopped(tpc, s) /\ panicked' = panicked
      \/ /\ callContexts[s] # None
         /\ callContexts' = callContexts /\ tpc' = tpc /\ panicked' = TRUE
  BY <1>1, <1>6, <1>7, RemoveStep
<1>10. /\ apc' \in [Calls -> {"new", "posted", "send", "sent", "error"}]
       /\ actx' \in [Calls -> Contexts \cup {None}]
       /\ apc'[k] = "error" /\ actx'[k] = None
       /\ \A j \in Calls \ {k} : apc'[j] = apc[j] /\ actx'[j] = actx[j]
  BY <1>1 DEF SendFails, ClientTypes, CallTypes
<1>11. pool' \in [Contexts -> Nat] /\ \A y \in Contexts \ {x} : pool'[y] = pool[y]
  <2>1. pool \in [Contexts -> Nat]
    BY <1>1 DEF ClientTypes, PoolTypes
  <2>2. CASE pool' = pool
    BY <2>1, <2>2
  <2>3. CASE pool' = [pool EXCEPT ![x] = @ + 1]
    BY SMT, <2>1, <2>3
  <2> QED
    BY <1>7, <2>2, <2>3 DEF Release
<1>12. ClientTypes'
  <2>1. PoolTypes' /\ TimerTypes' /\ CallTypes'
    BY <1>1, <1>2, <1>8, <1>10, <1>11 DEF ClientTypes, PoolTypes, TimerTypes, CallTypes
  <2> QED
    BY <1>1, <1>2, <1>8, <2>1, TypesStay DEF ClientTypes
<1>13. HandlerOnce'
  BY <1>1, <1>2 DEF HandlerOnce
<1>14. Onward
  BY <1>3, <1>10 DEF Onward
<1>15. Named'
  <2>1. \A j \in Calls : apc[j] # "new" => apc'[j] # "new"
    BY <1>14 DEF Onward
  <2> QED
    BY <1>1, <1>2, <1>8, <2>1, NamedStays DEF ClientTypes, Named
<1>16. \A j \in Calls : tpc'[j] = tpc[j] \/ (tpc'[j] = "none" /\ tpc[j] = "armed")
  <2>1. CASE tpc' = tpc
    BY <2>1
  <2>2. CASE tpc' = Stopped(tpc, s)
    BY SMT, <1>6, <2>2, StopOne
  <2> QED
    BY <1>9, <2>1, <2>2
<1>17. Holding'
  <2>1. \A j \in Calls : apc'[j] = "new" => tpc'[j] = "none"
    BY <1>1, <1>10, <1>16 DEF Holding
  <2>2. \A j \in Calls : apc'[j] = "send" => Used(actx'[j])
    BY <1>1, <1>10 DEF Holding
  <2>3. \A j \in Calls : tpc'[j] \in {"armed", "running", "respond"} => Used(tctx[j])
    BY <1>1, <1>16 DEF Holding
  <2> QED
    BY <1>1, <1>2, <2>1, <2>2, <2>3 DEF Holding, Used
<1>18. \A y \in Contexts : RespTakes(y)' = RespTakes(y) /\ WalkTakes(y)' = WalkTakes(y)
                           /\ TimeTakes(y)' = TimeTakes(y)
  BY <1>2, <1>16 DEF RespTakes, TimeTakes, WalkTakes
<1>19. \A y \in Contexts : Takers(y)' = Takers(y)
  BY <1>18, TakersStay
<1>20. Findable(x) <=> callContexts[s] # None
  BY <1>5 DEF Findable
<1>21. CASE callContexts[s] = None
  <2>1. callContexts' = callContexts /\ tpc' = tpc /\ panicked' = panicked /\ pool' = pool
    BY <1>7, <1>9, <1>20, <1>21
  <2>2. TimersStay
    BY <1>2, <2>1 DEF TimersStay
  <2>3. Core'
    BY <1>1, <1>2, <1>14, <1>19, <2>1, <2>2, QuietStep
  <2> QED
    BY <1>12, <1>13, <1>15, <1>17, <2>1, <2>3 DEF ClientInv
<1>22. CASE callContexts[s] # None
  <2>1. callContexts[s] = x /\ Findable(x)
    BY <1>1, <1>3, <1>4, <1>5, <1>20, <1>22, Found
  <2>2. CASE panicked'
    <3>1. callContexts' = callContexts /\ tpc' = tpc /\ pool' = pool
      BY <1>7, <1>9, <2>2
    <3>2. ReleasedOnce
      BY <1>1, OneUseReleases DEF Core, ClientTypes, PoolTypes
    <3>3. ReleasedOnce'
      BY <1>2, <3>1, <3>2 DEF ReleasedOnce
    <3> QED
      BY <1>12, <1>13, <2>2, <3>3 DEF ClientInv
  <2>3. CASE ~panicked'
    <3>1. /\ callContexts' = [callContexts EXCEPT ![s] = None] /\ tpc' = Stopped(tpc, s)
          /\ Release(x)
      BY <1>7, <1>9, <1>22, <2>1, <2>3
    <3>2. callContexts'[s] = None /\ \A j \in Calls \ {s} : callContexts'[j] = callContexts[j]
      BY <1>1, <3>1 DEF ClientTypes, MapTypes
    <3>3. \A j \in Calls \ {s} : tpc'[j] = tpc[j]
      BY <1>6, <3>1, StopOne
    <3>4. TimersStay
      BY <1>2, <3>2, <3>3 DEF TimersStay
    <3>5. Core'
      BY <1>1, <1>2, <1>10, <1>14, <1>19, <2>1, <3>1, <3>4, DropStep
    <3> QED
      BY <1>12, <1>13, <1>15, <1>17, <2>3, <3>5 DEF ClientInv
  <2> QED
    BY <2>2, <2>3
<1> QED
  BY <1>21, <1>22

(* A new call takes a context that is in the pool and nowhere else.        *)
LEMMA AsynCallStep ==
  ASSUME ClientInv, ~panicked, NEW k \in Calls, NEW c \in Channels, NEW x \in Contexts,
         AsynCall(k, c, x)
  PROVE  ClientInv'
<1> DEFINE h == IF channels[c] = None THEN NewHead ELSE channels[c]
           next == IF channels[c] = None THEN h ELSE nnext[h]
<1>1. ClientTypes /\ HandlerOnce /\ Named /\ Holding /\ Core /\ Mapped /\ OneUse /\ Over /\ Kept
  BY DEF ClientInv, Core
<1>2. UNCHANGED <<env, rpc, rctx, dpc, dcc, dc, dnext, answers, panicked>>
  BY DEF AsynCall, respVars, walkVars
<1>3. /\ pool' = [pool EXCEPT ![x] = @ - 1]
      /\ onResponse' = [onResponse EXCEPT ![x] = k]
      /\ seq' = [seq EXCEPT ![x] = k]
      /\ channelID' = [channelID EXCEPT ![x] = c]
      /\ deadlineTimer' = [deadlineTimer EXCEPT ![x] = k]
      /\ apc' = [apc EXCEPT ![k] = "send"]
      /\ actx' = [actx EXCEPT ![k] = x]
      /\ achan' = [achan EXCEPT ![k] = c]
      /\ callContexts' = [callContexts EXCEPT ![k] = x]
      /\ channels' = [channels EXCEPT ![c] = h]
      /\ tpc' = [tpc EXCEPT ![k] = "armed"]
      /\ tctx' = [tctx EXCEPT ![k] = x]
  BY DEF AsynCall, addCall
<1>4. /\ nnext' = [nnext EXCEPT ![x] = next, ![h] = x]
      /\ pprev' = [pprev EXCEPT ![x] = h, ![next] = IF next = h THEN h ELSE x]
  BY DEF AsynCall, addCall, add
<1>5. apc[k] = "new" /\ tpc[k] = "none" /\ answers[k] = <<>>
  BY <1>1 DEF AsynCall, Holding, Over
<1>6. /\ k # None /\ None \notin Contexts /\ None \notin Heads
      /\ pool \in [Contexts -> Nat] /\ seq \in [Contexts -> Calls \cup {None}]
      /\ callContexts \in [Calls -> Contexts \cup {None}]
      /\ tpc \in [Calls -> TimerStates] /\ tctx \in [Calls -> Contexts \cup {None}]
      /\ nnext \in [Nodes -> Nodes \cup {None}] /\ pprev \in [Nodes -> Nodes \cup {None}]
      /\ channels \in [Channels -> Heads \cup {None}]
      /\ apc \in [Calls -> {"new", "posted", "send", "sent", "error"}]
      /\ actx \in [Calls -> Contexts \cup {None}]
  BY <1>1, RPCClientAssumption DEF ClientTypes, PoolTypes, FieldTypes, LinkTypes, MapTypes, CallTypes, TimerTypes
<1>7. pool[x] = 1
  <2>1. seq[x] # None => pool[x] > 0
    BY DEF AsynCall, getCallContext
  <2>2. pool[x] <= 1 /\ (seq[x] = None => pool[x] = 1)
    BY <1>1 DEF OneUse
  <2> QED
    BY SMT, <1>6, <2>1, <2>2
<1>8. ~InMap(x) /\ Takers(x) = {}
  BY <1>1, <1>7 DEF OneUse
<1>9. RespTakes(x) = {} /\ TimeTakes(x) = {} /\ WalkTakes(x) = {}
  BY <1>8, TakersAre
<1>10. h \in Heads /\ h \in Nodes /\ x \in Nodes
  <2>1. CASE channels[c] = None
    <3>1. FreeHeads # {}
      BY <2>1 DEF AsynCall
    <3>2. NewHead \in FreeHeads
      BY <3>1 DEF NewHead
    <3> QED
      BY <2>1, <3>2 DEF FreeHeads, Nodes
  <2>2. CASE channels[c] # None
    BY <1>6, <2>2 DEF Nodes
  <2> QED
    BY <2>1, <2>2
<1>11. next \in Nodes \cup {None} /\ (next \in Contexts => Used(next))
  <2>1. CASE channels[c] = None
    BY <1>10, <2>1, RPCClientAssumption
  <2>2. CASE channels[c] # None
    BY <1>1, <1>6, <1>10, <2>2 DEF Named
  <2> QED
    BY <2>1, <2>2
<1> HIDE DEF h, next
<1>12. /\ nnext' \in [Nodes -> Nodes \cup {None}]
       /\ \A n \in Nodes : nnext'[n] = nnext[n] \/ nnext'[n] = next \/ nnext'[n] = x
  BY <1>4, <1>6, <1>10, <1>11
<1>13. pprev' \in [Nodes -> Nodes \cup {None}]
  BY <1>4, <1>6, <1>10
<1>14. channels' \in [Channels -> Heads \cup {None}]
  BY <1>3, <1>6, <1>10
<1>15. /\ pool' \in [Contexts -> Nat]
       /\ seq' \in [Contexts -> Calls \cup {None}]
       /\ callContexts' \in [Calls -> Contexts \cup {None}]
       /\ tctx' \in [Calls -> Contexts \cup {None}]
       /\ apc' \in [Calls -> {"new", "posted", "send", "sent", "error"}]
       /\ actx' \in [Calls -> Contexts \cup {None}]
  BY SMT, <1>3, <1>6, <1>7
<1>16. seq'[x] = k /\ \A y \in Contexts \ {x} : seq'[y] = seq[y]
  BY <1>3, <1>6
<1>17. /\ tpc' \in [Calls -> TimerStates] /\ tpc'[k] = "armed"
       /\ \A j \in Calls \ {k} : tpc'[j] = tpc[j]
  BY <1>3, <1>6 DEF TimerStates
<1>18. tctx'[k] = x /\ \A j \in Calls \ {k} : tctx'[j] = tctx[j]
  BY <1>3, <1>6
<1>19. /\ apc'[k] = "send" /\ actx'[k] = x
       /\ \A j \in Calls \ {k} : apc'[j] = apc[j] /\ actx'[j] = actx[j]
  BY <1>3, <1>6
<1>20. ClientTypes'
  <2>1. FieldTypes'
    BY <1>1, <1>3 DEF ClientTypes, FieldTypes
  <2>2. PoolTypes' /\ LinkTypes' /\ MapTypes' /\ TimerTypes'
    BY <1>1, <1>2, <1>12, <1>13, <1>14, <1>15, <1>17
       DEF ClientTypes, PoolTypes, LinkTypes, MapTypes, TimerTypes
  <2>3. CallTypes'
    BY <1>1, <1>3 DEF ClientTypes, CallTypes
  <2> QED
    BY <1>1, <1>2, <2>1, <2>2, <2>3, TypesStay DEF ClientTypes
<1>21. HandlerOnce'
  BY <1>1, <1>2 DEF HandlerOnce
<1>22. Named'
  BY <1>1, <1>2, <1>3, <1>5, <1>11, <1>12, NewCallNamed
<1>23. Holding'
  <2>1. \A j \in Calls : apc'[j] = "new" => tpc'[j] = "none"
    BY <1>1, <1>17, <1>19 DEF Holding
  <2>2. \A y \in Contexts : seq[y] # None \/ y = x => seq'[y] # None
    BY <1>6, <1>16
  <2>3. \A j \in Calls : apc'[j] = "send" => actx'[j] \in Contexts /\ seq'[actx'[j]] # None
    BY <1>1, <1>19, <2>2 DEF Holding, Used
  <2>4. \A j \in Calls : tpc'[j] \in {"armed", "running", "respond"} =>
                            tctx'[j] \in Contexts /\ seq'[tctx'[j]] # None
    BY <1>1, <1>17, <1>18, <2>2 DEF Holding, Used
  <2>5. \A j \in Calls : rpc[j] = "respond" => rctx[j] \in Contexts \ {x} /\ Used(rctx[j]) /\ seq[rctx[j]] = j
    BY <1>1, <1>9 DEF Holding, Used, RespTakes
  <2>6. \A j \in Calls : rpc[j] = "respond" =>
                            rctx[j] \in Contexts /\ seq'[rctx[j]] # None /\ seq'[rctx[j]] = j
    BY <1>16, <2>5 DEF Used
  <2>7. \A d \in Channels : dpc[d] = "respond" => dc[d] \in Contexts /\ seq'[dc[d]] # None
    BY <1>1, <2>2 DEF Holding, Used
  <2>8. \A d \in Channels : dpc[d] = "first" => dcc[d] \in Heads
    BY <1>1 DEF Holding
  <2> QED
    BY <1>2, <2>1, <2>3, <2>4, <2>6, <2>7, <2>8 DEF Holding, Used
<1>24. \A y \in Contexts : Takers(y)' = Takers(y)
  <2>1. \A y \in Contexts : RespTakes(y)' = RespTakes(y) /\ WalkTakes(y)' = WalkTakes(y)
    BY <1>2 DEF RespTakes, WalkTakes
  <2>2. \A y \in Contexts : TimeTakes(y)' = TimeTakes(y)
    BY <1>5, <1>17, <1>18 DEF TimeTakes
  <2> QED
    BY <2>1, <2>2, TakersStay
<1>25. Core'
  BY <1>1, <1>2, <1>3, <1>5, <1>7, <1>24, NewCallStep
<1> QED
  BY <1>2, <1>20, <1>21, <1>22, <1>23, <1>25 DEF ClientInv

-----------------------------------------------------------------------------
(* The client's invariant holds.                                           *)

(* A client nobody has called yet.                                         *)
LEMMA InitClientInv == ClientInit => ClientInv
<1> SUFFICES ASSUME ClientInit PROVE ClientInv
  OBVIOUS
<1>1. /\ None \notin Calls \cup Contexts \cup Heads \cup Channels /\ ~panicked
      /\ \A k \in Calls : answers[k] = <<>> /\ apc[k] = "new" /\ callContexts[k] = None /\ tpc[k] = "none"
                          /\ rpc[k] = "none"
      /\ \A x \in Contexts : pool[x] = 1 /\ seq[x] = None
      /\ \A c \in Channels : dpc[c] = "none" /\ dc[c] = None /\ dnext[c] = None
      /\ \A n \in Nodes : nnext[n] = None
  BY RPCClientAssumption DEF ClientInit
<1>2. ClientTypes
  <2>1. PoolTypes /\ FieldTypes /\ LinkTypes /\ MapTypes
    BY DEF ClientInit, PoolTypes, FieldTypes, LinkTypes, MapTypes
  <2>2. CallTypes /\ TimerTypes /\ RespTypes /\ WalkTypes
    BY DEF ClientInit, CallTypes, TimerTypes, TimerStates, RespTypes, WalkTypes
  <2>3. AnswerTypes
    BY SMT DEF ClientInit, AnswerTypes
  <2> QED
    BY <2>1, <2>2, <2>3 DEF ClientTypes
<1>3. HandlerOnce
  <2>1. Len(<<>>) = 0
    OBVIOUS
  <2> QED
    BY SMT, <1>1, <2>1 DEF HandlerOnce
<1>4. Named
  BY <1>1 DEF Named, ClientInit, Used
<1>5. Holding
  BY <1>1 DEF Holding
<1>6. \A x \in Contexts : Takers(x) = {} /\ ~InMap(x)
  <2>1. \A x \in Contexts : RespTakes(x) = {} /\ TimeTakes(x) = {} /\ WalkTakes(x) = {}
    BY <1>1 DEF RespTakes, TimeTakes, WalkTakes
  <2> QED
    BY <1>1, <2>1, TakersAre DEF InMap
<1>7. Mapped /\ OneUse /\ Over /\ Kept
  BY SMT, <1>1, <1>6 DEF Mapped, OneUse, Over, Kept
<1> QED
  BY <1>1, <1>2, <1>3, <1>4, <1>5, <1>7 DEF ClientInv, Core

(* Every step of the client, one of its goroutines' sections each.         *)
LEMMA ClientStep ==
  ASSUME ClientInv, ClientNext
  PROVE  ClientInv'
<1>1. ~panicked /\ env.channels \subseteq Channels
  BY RPCClientAssumption DEF ClientNext, ClientInv, ClientTypes, PoolTypes
<1>2. ASSUME NEW k \in Calls, CallStep(k) \/ TimerStep(k) \/ ResponseStep(k)
      PROVE  ClientInv'
  <2>1. ASSUME NEW c \in env.channels, Post(k, c)
        PROVE  ClientInv'
    BY <1>1, <2>1, PostStep
  <2>2. ASSUME NEW c \in env.channels, NEW x \in Contexts, AsynCall(k, c, x)
        PROVE  ClientInv'
    BY <1>1, <2>2, AsynCallStep
  <2>3. CASE SendRequest(k)
    BY <1>1, <2>3, SendRequestStep
  <2>4. CASE SendFails(k)
    BY <1>1, <2>4, SendFailsStep
  <2>5. CASE TimerFires(k)
    BY <1>1, <2>5, TimerFiresStep
  <2>6. CASE onTimeout(k)
    BY <1>1, <2>6, onTimeoutStep
  <2>7. CASE TimeoutAnswers(k)
    BY <1>1, <2>7, TimeoutAnswersStep
  <2>8. CASE OnResponse(k)
    BY <1>1, <2>8, OnResponseStep
  <2>9. CASE ResponseAnswers(k)
    BY <1>1, <2>9, ResponseAnswersStep
  <2> QED
    BY <1>2, <2>1, <2>2, <2>3, <2>4, <2>5, <2>6, <2>7, <2>8, <2>9 DEF CallStep, TimerStep, ResponseStep
<1>3. ASSUME NEW c \in Channels, OnChannelDisconnect(c) \/ WalkStep(c)
      PROVE  ClientInv'
  <2>1. CASE OnChannelDisconnect(c)
    BY <1>1, <2>1, OnChannelDisconnectStep
  <2>2. CASE WalkFirst(c)
    BY <1>1, <2>2, WalkFirstStep
  <2>3. CASE WalkNext(c)
    BY <1>1, <2>3, WalkNextStep
  <2>4. CASE WalkLook(c)
    BY <1>1, <2>4, WalkLookStep
  <2>5. CASE WalkAnswers(c)
    BY <1>1, <2>5, WalkAnswersStep
  <2> QED
    BY <1>3, <2>1, <2>2, <2>3, <2>4, <2>5 DEF WalkStep
<1> QED
  BY <1>2, <1>3 DEF ClientNext

(* The server's steps are no steps of the client.                          *)
LEMMA ClientIdle ==
  ASSUME ClientInv, UNCHANGED clientVars
  PROVE  ClientInv'
<1>1. UNCHANGED <<env, pool, seq, channelID, onResponse, deadlineTimer, nnext, pprev, callContexts,
                   channels, apc, actx, achan, tpc, tctx, rpc, rctx, dpc, dcc, dc, dnext, answers, panicked>>
  BY DEF clientVars, contextVars, listVars, mapVars, callVars, timerVars, respVars, walkVars
<1>2. ClientTypes'
  <2>1. ClientTypes
    BY DEF ClientInv
  <2> QED
    BY <1>1, <2>1, TypesStay DEF ClientTypes
<1>3. (HandlerOnce' <=> HandlerOnce) /\ (ReleasedOnce' <=> ReleasedOnce)
  BY <1>1 DEF HandlerOnce, ReleasedOnce
<1>4. (Named' <=> Named) /\ (Holding' <=> Holding)
  BY <1>1 DEF Named, Holding, Used
<1>5. Core => Core'
  <2>1. \A x \in Contexts : Takers(x)' = Takers(x)
    BY <1>1, TakersStay DEF RespTakes, TimeTakes, WalkTakes
  <2>2. Onward /\ TimersStay
    BY <1>1 DEF Onward, TimersStay
  <2> QED
    BY <1>1, <2>1, <2>2, QuietStep
<1> QED
  BY <1>1, <1>2, <1>3, <1>4, <1>5 DEF ClientInv
-----------------------------------------------------------------------------
(* The lists of the channels, as long as none disconnects.                 *)

(* From the head h on the links of nx go through the contexts of q and     *)
(* back to h, and those of pv back from each of them.                      *)
Ring(h, q, nx, pv) ==
  /\ q # <<>>
  /\ \A i, j \in DOMAIN q : q[i] = q[j] => i = j
  /\ nx[h] = q[1]
  /\ \A i \in DOMAIN q : nx[q[i]] = IF i = Len(q) THEN h ELSE q[i + 1]
  /\ \A i \in DOMAIN q : pv[q[i]] = IF i = 1 THEN h ELSE q[i - 1]

(* x stands for a call of c that is in the map.                            *)
CallOf(c, x) == InMap(x) /\ channelID[x] = c

(* x is one of the contexts of q.                                          *)
Among(q, x) == \E i \in DOMAIN q : q[i] = x

(* The contexts of q are those of the calls of c.                          *)
Holds(c, q) == \A x \in Contexts : CallOf(c, x) <=> Among(q, x)

(* A channel without calls has no list; the list of the others are their   *)
(* calls; no two share a head, and calls in the map have a channel.        *)
ChannelLists ==
  /\ \A c \in Channels : channels[c] = None => \A x \in Contexts : ~CallOf(c, x)
  /\ \A c \in Channels : channels[c] # None =>
       \E q \in Seq(Contexts) : Ring(channels[c], q, nnext, pprev) /\ Holds(c, q)
  /\ \A c, d \in Channels : channels[c] = channels[d] /\ channels[c] # None => c = d
  /\ \A x \in Contexts : InMap(x) => channelID[x] \in Channels

(* What is known of the lists while no channel disconnects.                *)
ListInv ==
  "disconnect" \notin env.has =>
    ~panicked /\ (\A c \in Channels : dpc[c] = "none") /\ ChannelLists

-----------------------------------------------------------------------------
(* Facts about rings.                                                      *)

(* The indices of a sequence.                                              *)
LEMMA SeqDomain ==
  ASSUME NEW S, NEW q \in Seq(S)
  PROVE  DOMAIN q = 1..Len(q) /\ Len(q) \in Nat /\ \A i \in DOMAIN q : q[i] \in S
  BY SMT

(* A sequence that is not empty has a first element.                       *)
LEMMA SeqFirst ==
  ASSUME NEW S, NEW q \in Seq(S), q # <<>>
  PROVE  1 \in DOMAIN q /\ Len(q) >= 1
  BY SMT

(* A sequence with one more element in front.                              *)
LEMMA InFront ==
  ASSUME NEW S, NEW q \in Seq(S), NEW x \in S
  PROVE  /\ <<x>> \o q \in Seq(S) /\ Len(<<x>> \o q) = Len(q) + 1 /\ <<x>> \o q # <<>>
         /\ (<<x>> \o q)[1] = x
         /\ \A i \in 1..Len(q) : (<<x>> \o q)[i + 1] = q[i]
  BY SMT

(* A sequence without its m-th element.                                    *)
Without(q, m) == [i \in 1..(Len(q) - 1) |-> IF i < m THEN q[i] ELSE q[i + 1]]

(* It is a sequence with one element less.                                 *)
LEMMA OneLess ==
  ASSUME NEW S, NEW q \in Seq(S), NEW m \in DOMAIN q
  PROVE  /\ Without(q, m) \in Seq(S) /\ Len(Without(q, m)) = Len(q) - 1
         /\ \A i \in 1..(Len(q) - 1) : Without(q, m)[i] = IF i < m THEN q[i] ELSE q[i + 1]
<1>1. DOMAIN q = 1..Len(q) /\ Len(q) \in Nat /\ m \in 1..Len(q) /\ \A i \in DOMAIN q : q[i] \in S
  BY SeqDomain
<1>2. Len(q) - 1 \in Nat
  BY <1>1, SMT
<1>3. \A i \in 1..(Len(q) - 1) : (IF i < m THEN q[i] ELSE q[i + 1]) \in S
  BY <1>1, SMT
<1>4. Without(q, m) \in Seq(S) /\ Len(Without(q, m)) = Len(q) - 1
  BY <1>2, <1>3, SMT DEF Without
<1> QED
  BY <1>4 DEF Without

(* How the links change when x becomes the first context of q.             *)
LinkedIn(h, q, x, nx, pv, nz, pz) ==
  /\ nz[h] = x /\ nz[x] = q[1] /\ \A i \in DOMAIN q : nz[q[i]] = nx[q[i]]
  /\ pz[x] = h /\ pz[q[1]] = x /\ \A i \in DOMAIN q : i # 1 => pz[q[i]] = pv[q[i]]

(* And when x is taken out.                                                *)
LinkedOut(h, x, nx, pv, nz, pz) ==
  /\ nz[pv[x]] = nx[x]
  /\ \A n \in Contexts \cup {h} : n # pv[x] /\ n # x => nz[n] = nx[n]
  /\ pz[nx[x]] = pv[x]
  /\ \A n \in Contexts : n # nx[x] /\ n # x => pz[n] = pv[n]

(* Linking x in after the head.                                            *)
LEMMA RingGrows ==
  ASSUME NEW q \in Seq(Contexts), NEW h, NEW nx, NEW pv, NEW nz, NEW pz, Ring(h, q, nx, pv),
         NEW x \in Contexts, \A i \in DOMAIN q : q[i] # x, LinkedIn(h, q, x, nx, pv, nz, pz)
  PROVE  /\ <<x>> \o q \in Seq(Contexts) /\ Ring(h, <<x>> \o q, nz, pz)
         /\ \A y : Among(<<x>> \o q, y) <=> y = x \/ Among(q, y)
<1> DEFINE r == <<x>> \o q
<1>0. /\ nz[h] = x /\ nz[x] = q[1] /\ \A i \in DOMAIN q : nz[q[i]] = nx[q[i]]
      /\ pz[x] = h /\ pz[q[1]] = x /\ \A i \in DOMAIN q : i # 1 => pz[q[i]] = pv[q[i]]
  BY DEF LinkedIn
<1>1. /\ r \in Seq(Contexts) /\ Len(r) = Len(q) + 1 /\ r # <<>> /\ r[1] = x
      /\ \A i \in 1..Len(q) : r[i + 1] = q[i]
  BY InFront, SMT
<1> HIDE DEF r
<1>2. /\ DOMAIN q = 1..Len(q) /\ Len(q) \in Nat /\ Len(q) >= 1 /\ 1 \in DOMAIN q
      /\ DOMAIN r = 1..(Len(q) + 1)
  BY <1>1, SeqDomain, SeqFirst, SMT DEF Ring
<1>3. \A j \in DOMAIN r : j # 1 => j - 1 \in DOMAIN q /\ r[j] = q[j - 1]
  <2> SUFFICES ASSUME NEW j \in DOMAIN r, j # 1
               PROVE  j - 1 \in DOMAIN q /\ r[j] = q[j - 1]
    OBVIOUS
  <2>1. j - 1 \in 1..Len(q) /\ (j - 1) + 1 = j
    BY <1>2, SMT
  <2> QED
    BY <1>1, <1>2, <2>1
<1>4. \A i \in DOMAIN q : i + 1 \in DOMAIN r /\ r[i + 1] = q[i]
  BY <1>1, <1>2, SMT
<1>5. 1 \in DOMAIN r
  BY <1>2, SMT
<1>6. \A i, j \in DOMAIN r : r[i] = r[j] => i = j
  <2> SUFFICES ASSUME NEW i \in DOMAIN r, NEW j \in DOMAIN r, r[i] = r[j]
               PROVE  i = j
    OBVIOUS
  <2>1. CASE i = 1 \/ j = 1
    BY <1>1, <1>3, <2>1, SMT
  <2>2. CASE i # 1 /\ j # 1
    <3>1. i - 1 = j - 1
      BY <1>3, <2>2, SMT DEF Ring
    <3> QED
      BY <1>2, <3>1, SMT
  <2> QED
    BY <2>1, <2>2
<1>7. ASSUME NEW j \in DOMAIN r
      PROVE  nz[r[j]] = IF j = Len(r) THEN h ELSE r[j + 1]
  <2>1. CASE j = 1
    <3>1. j # Len(r) /\ r[j + 1] = q[1]
      BY <1>1, <1>2, <1>4, <2>1, SMT
    <3> QED
      BY <1>0, <1>1, <2>1, <3>1
  <2>2. CASE j # 1
    <3>1. j - 1 \in DOMAIN q /\ r[j] = q[j - 1] /\ (j - 1 = Len(q) <=> j = Len(r)) /\ (j - 1) + 1 = j
      BY <1>1, <1>2, <1>3, <2>2, SMT
    <3>2. nz[r[j]] = IF j - 1 = Len(q) THEN h ELSE q[(j - 1) + 1]
      <4>1. nz[q[j - 1]] = nx[q[j - 1]]
        BY <1>0, <3>1
      <4>2. \A i \in DOMAIN q : nx[q[i]] = IF i = Len(q) THEN h ELSE q[i + 1]
        BY DEF Ring
      <4>3. nx[q[j - 1]] = IF j - 1 = Len(q) THEN h ELSE q[(j - 1) + 1]
        BY <3>1, <4>2
      <4> QED
        BY <3>1, <4>1, <4>3
    <3>3. j # Len(r) => j \in DOMAIN q /\ r[j + 1] = q[j]
      BY <1>1, <1>2, <1>4, SMT
    <3>4. CASE j = Len(r)
      BY <3>1, <3>2, <3>4
    <3>5. CASE j # Len(r)
      <4>1. nz[r[j]] = q[j]
        BY <3>1, <3>2, <3>5
      <4> QED
        BY <3>3, <3>5, <4>1
    <3> QED
      BY <3>4, <3>5
  <2> QED
    BY <2>1, <2>2
<1>8. ASSUME NEW j \in DOMAIN r
      PROVE  pz[r[j]] = IF j = 1 THEN h ELSE r[j - 1]
  <2>1. CASE j = 1
    BY <1>0, <1>1, <2>1
  <2>2. CASE j # 1
    <3>1. j - 1 \in DOMAIN q /\ r[j] = q[j - 1]
      BY <1>3, <2>2
    <3>2. CASE j - 1 = 1
      BY <1>0, <1>1, <2>2, <3>1, <3>2
    <3>3. CASE j - 1 # 1
      <4>1. pz[q[j - 1]] = q[(j - 1) - 1]
        BY <1>0, <3>1, <3>3 DEF Ring
      <4>2. j - 1 \in DOMAIN r /\ r[j - 1] = q[(j - 1) - 1]
        BY <1>2, <1>3, <3>1, <3>3, SMT
      <4> QED
        BY <2>2, <3>1, <4>1, <4>2
    <3> QED
      BY <3>2, <3>3
  <2> QED
    BY <2>1, <2>2
<1>9. Ring(h, r, nz, pz)
  BY <1>0, <1>1, <1>6, <1>7, <1>8 DEF Ring
<1>10. ASSUME NEW y
       PROVE  Among(r, y) <=> y = x \/ Among(q, y)
  <2>1. ASSUME NEW i \in DOMAIN r, r[i] = y
        PROVE  y = x \/ \E k \in DOMAIN q : q[k] = y
    <3>1. CASE i = 1
      BY <1>1, <2>1, <3>1
    <3>2. CASE i # 1
      <4>1. i - 1 \in DOMAIN q /\ q[i - 1] = y
        BY <1>3, <2>1, <3>2
      <4> QED
        BY <4>1
    <3> QED
      BY <3>1, <3>2
  <2>2. ASSUME NEW k \in DOMAIN q, q[k] = y
        PROVE  \E i \in DOMAIN r : r[i] = y
    <3>1. k + 1 \in DOMAIN r /\ r[k + 1] = y
      BY <1>4, <2>2
    <3> QED
      BY <3>1
  <2>3. r[1] = x
    BY <1>1
  <2> QED
    BY <1>5, <2>1, <2>2, <2>3 DEF Among
<1> QED
  BY <1>1, <1>9, <1>10 DEF r

(* Unlinking the m-th context of a ring that has others.                   *)
LEMMA RingShrinks ==
  ASSUME NEW q \in Seq(Contexts), NEW h, NEW nx, NEW pv, NEW nz, NEW pz, Ring(h, q, nx, pv),
         NEW m \in DOMAIN q, Len(q) # 1, h \notin Contexts, LinkedOut(h, q[m], nx, pv, nz, pz)
  PROVE  /\ Without(q, m) \in Seq(Contexts) /\ Ring(h, Without(q, m), nz, pz)
         /\ \A y : Among(Without(q, m), y) <=> y # q[m] /\ Among(q, y)
<1> DEFINE r == Without(q, m)
<1> DEFINE n == Len(q)
<1>0. /\ nz[pv[q[m]]] = nx[q[m]]
      /\ \A y \in Contexts \cup {h} : y # pv[q[m]] /\ y # q[m] => nz[y] = nx[y]
      /\ pz[nx[q[m]]] = pv[q[m]]
      /\ \A y \in Contexts : y # nx[q[m]] /\ y # q[m] => pz[y] = pv[y]
  BY DEF LinkedOut
<1>1. /\ r \in Seq(Contexts) /\ Len(r) = n - 1
      /\ \A i \in 1..(n - 1) : r[i] = IF i < m THEN q[i] ELSE q[i + 1]
  BY OneLess
<1> HIDE DEF r
<1>2. /\ DOMAIN q = 1..n /\ n \in Nat /\ m \in 1..n /\ \A i \in DOMAIN q : q[i] \in Contexts
      /\ DOMAIN r = 1..(n - 1) /\ Len(r) = n - 1
  BY <1>1, SeqDomain
<1>3. n >= 2 /\ r # <<>> /\ 1 \in DOMAIN r
  <2>1. n >= 2 /\ n - 1 # 0 /\ 1 \in 1..(n - 1)
    BY <1>2, SMT
  <2>2. Len(<<>>) = 0
    BY SMT
  <2> QED
    BY <1>1, <1>2, <2>1, <2>2
<1>4. /\ pv[q[m]] = IF m = 1 THEN h ELSE q[m - 1]
      /\ nx[q[m]] = IF m = n THEN h ELSE q[m + 1]
      /\ \A i, j \in DOMAIN q : q[i] = q[j] => i = j
      /\ nx[h] = q[1]
      /\ \A i \in DOMAIN q : nx[q[i]] = IF i = n THEN h ELSE q[i + 1]
      /\ \A i \in DOMAIN q : pv[q[i]] = IF i = 1 THEN h ELSE q[i - 1]
  BY DEF Ring
<1> HIDE DEF n
<1> DEFINE At(i) == IF i < m THEN i ELSE i + 1
<1>5. \A i \in DOMAIN r : At(i) \in DOMAIN q /\ At(i) # m /\ r[i] = q[At(i)]
  <2> SUFFICES ASSUME NEW i \in DOMAIN r
               PROVE  At(i) \in DOMAIN q /\ At(i) # m /\ r[i] = q[At(i)]
    OBVIOUS
  <2>1. At(i) \in DOMAIN q /\ At(i) # m
    BY <1>2, SMT
  <2>2. r[i] = IF i < m THEN q[i] ELSE q[i + 1]
    BY <1>1, <1>2
  <2> QED
    BY <2>1, <2>2
<1>6. \A i, j \in DOMAIN r : r[i] = r[j] => i = j
  <2> SUFFICES ASSUME NEW i \in DOMAIN r, NEW j \in DOMAIN r, r[i] = r[j]
               PROVE  i = j
    OBVIOUS
  <2>1. At(i) = At(j)
    <3> HIDE DEF At
    <3> QED
      BY <1>4, <1>5, SMT
  <2> QED
    BY <1>2, <2>1, SMT
<1>7. nz[h] = r[1]
  <2>1. CASE m = 1
    <3>1. pv[q[m]] = h /\ m # n /\ ~(1 < m) /\ 1 + 1 = m + 1
      BY <1>2, <1>3, <1>4, <2>1, SMT
    <3>2. nz[h] = q[m + 1]
      BY <1>0, <1>4, <3>1
    <3>3. r[1] = q[1 + 1]
      BY <1>3, <1>5, <3>1
    <3> QED
      BY <3>1, <3>2, <3>3
  <2>2. CASE m # 1
    <3>1. m - 1 \in DOMAIN q /\ 1 < m
      BY <1>2, <2>2, SMT
    <3>2. pv[q[m]] \in Contexts /\ q[m] \in Contexts
      BY <1>2, <1>4, <2>2, <3>1
    <3>3. nz[h] = q[1]
      BY <1>0, <1>4, <3>2
    <3>4. r[1] = q[1]
      BY <1>3, <1>5, <3>1
    <3> QED
      BY <3>3, <3>4
  <2> QED
    BY <2>1, <2>2
<1>8. ASSUME NEW i \in DOMAIN r
      PROVE  nz[r[i]] = IF i = Len(r) THEN h ELSE r[i + 1]
  <2>0. i \in 1..(n - 1) /\ At(i) \in DOMAIN q /\ At(i) # m /\ r[i] = q[At(i)] /\ r[i] # q[m]
    <3>1. At(i) \in DOMAIN q /\ At(i) # m /\ r[i] = q[At(i)]
      BY <1>5
    <3> HIDE DEF At
    <3> QED
      BY <1>2, <1>4, <3>1
  <2>1. CASE i = m - 1
    <3>1. m # 1 /\ At(i) = m - 1 /\ (i = Len(r) <=> m = n)
      BY <1>1, <1>2, <2>0, <2>1, SMT
    <3>2. nz[r[i]] = nx[q[m]]
      BY <1>0, <1>4, <2>0, <3>1, SMT
    <3>3. m # n => r[i + 1] = q[m + 1]
      <4>1. m # n => i + 1 \in DOMAIN r /\ At(i + 1) = m + 1
        BY <1>2, <2>0, <2>1, SMT
      <4> HIDE DEF At
      <4> QED
        BY <1>5, <4>1
    <3> QED
      BY <1>4, <3>1, <3>2, <3>3
  <2>2. CASE i # m - 1
    <3>1. nz[r[i]] = nx[r[i]]
      <4>1. r[i] # pv[q[m]]
        <5>1. m # 1 => m - 1 \in DOMAIN q /\ At(i) # m - 1
          BY <1>2, <2>0, <2>2, SMT
        <5> HIDE DEF At
        <5>2. m # 1 => r[i] # q[m - 1]
          BY <1>4, <2>0, <5>1
        <5>3. r[i] # h
          BY <1>2, <2>0
        <5> QED
          BY <1>4, <5>2, <5>3
      <4>2. r[i] \in Contexts
        BY <1>2, <2>0
      <4> QED
        BY <1>0, <2>0, <4>1, <4>2
    <3>2. nx[r[i]] = IF At(i) = n THEN h ELSE q[At(i) + 1]
      <4> HIDE DEF At
      <4> QED
        BY <1>4, <2>0
    <3>3. At(i) = n <=> i = Len(r)
      BY <1>2, <2>0, <2>2, SMT
    <3>4. i # Len(r) => r[i + 1] = q[At(i) + 1]
      <4>1. i # Len(r) => i + 1 \in DOMAIN r /\ At(i + 1) = At(i) + 1
        BY <1>1, <1>2, <2>0, <2>2, SMT
      <4> HIDE DEF At
      <4> QED
        BY <1>5, <4>1
    <3> HIDE DEF At
    <3>5. CASE i = Len(r)
      BY <3>1, <3>2, <3>3, <3>5
    <3>6. CASE i # Len(r)
      BY <3>1, <3>2, <3>3, <3>4, <3>6
    <3> QED
      BY <3>5, <3>6
  <2> QED
    BY <2>1, <2>2
<1>9. ASSUME NEW i \in DOMAIN r
      PROVE  pz[r[i]] = IF i = 1 THEN h ELSE r[i - 1]
  <2>0. i \in 1..(n - 1) /\ At(i) \in DOMAIN q /\ At(i) # m /\ r[i] = q[At(i)] /\ r[i] # q[m]
    <3>1. At(i) \in DOMAIN q /\ At(i) # m /\ r[i] = q[At(i)]
      BY <1>5
    <3> HIDE DEF At
    <3> QED
      BY <1>2, <1>4, <3>1
  <2>1. CASE i = m
    <3>1. m # n /\ At(i) = m + 1
      BY <1>1, <1>2, <2>0, <2>1, SMT
    <3>2. pz[r[i]] = pv[q[m]]
      BY <1>0, <1>4, <2>0, <3>1, SMT
    <3>3. m # 1 => r[i - 1] = q[m - 1]
      <4>1. m # 1 => i - 1 \in DOMAIN r /\ At(i - 1) = m - 1
        BY <1>2, <2>0, <2>1, SMT
      <4> HIDE DEF At
      <4> QED
        BY <1>5, <4>1
    <3> QED
      BY <1>4, <2>1, <3>2, <3>3
  <2>2. CASE i # m
    <3>1. pz[r[i]] = pv[r[i]]
      <4>1. r[i] # nx[q[m]]
        <5>1. m # n => m + 1 \in DOMAIN q /\ At(i) # m + 1
          BY <1>2, <2>0, <2>2, SMT
        <5> HIDE DEF At
        <5>2. m # n => r[i] # q[m + 1]
          BY <1>4, <2>0, <5>1
        <5>3. r[i] # h
          BY <1>2, <2>0
        <5> QED
          BY <1>4, <5>2, <5>3
      <4>2. r[i] \in Contexts
        BY <1>2, <2>0
      <4> QED
        BY <1>0, <2>0, <4>1, <4>2
    <3>2. pv[r[i]] = IF At(i) = 1 THEN h ELSE q[At(i) - 1]
      <4> HIDE DEF At
      <4> QED
        BY <1>4, <2>0, SMT
    <3>3. At(i) = 1 <=> i = 1
      BY <1>1, <1>2, <2>0, <2>2, SMT
    <3>4. i # 1 => r[i - 1] = q[At(i) - 1]
      <4>1. i # 1 => i - 1 \in DOMAIN r /\ At(i - 1) = At(i) - 1
        BY <1>2, <2>0, <2>2, SMT
      <4> HIDE DEF At
      <4> QED
        BY <1>5, <4>1
    <3> HIDE DEF At
    <3>5. CASE i = 1
      BY <3>1, <3>2, <3>3, <3>5
    <3>6. CASE i # 1
      BY <3>1, <3>2, <3>3, <3>4, <3>6
    <3> QED
      BY <3>5, <3>6
  <2> QED
    BY <2>1, <2>2
<1>10. Ring(h, r, nz, pz)
  BY <1>3, <1>6, <1>7, <1>8, <1>9 DEF Ring
<1>11. ASSUME NEW y
       PROVE  Among(r, y) <=> y # q[m] /\ Among(q, y)
  <2>1. \A j \in DOMAIN q : j # m => \E i \in DOMAIN r : At(i) = j
    <3> SUFFICES ASSUME NEW j \in DOMAIN q, j # m
                 PROVE  \E i \in DOMAIN r : At(i) = j
      OBVIOUS
    <3>1. CASE j < m
      <4>1. j \in DOMAIN r /\ At(j) = j
        BY <1>2, <3>1, SMT
      <4> QED
        BY <4>1
    <3>2. CASE ~(j < m)
      <4>1. j - 1 \in DOMAIN r /\ At(j - 1) = j
        BY <1>2, <3>2, SMT
      <4> QED
        BY <4>1
    <3> QED
      BY <3>1, <3>2
  <2> HIDE DEF At
  <2>2. ASSUME NEW i \in DOMAIN r, r[i] = y
        PROVE  y # q[m] /\ \E j \in DOMAIN q : q[j] = y
    <3>1. At(i) \in DOMAIN q /\ At(i) # m /\ q[At(i)] = y
      BY <1>5, <2>2
    <3>2. q[At(i)] # q[m]
      BY <1>4, <3>1
    <3> QED
      BY <3>1, <3>2
  <2>3. ASSUME NEW j \in DOMAIN q, q[j] = y, y # q[m]
        PROVE  \E i \in DOMAIN r : r[i] = y
    <3>1. PICK i \in DOMAIN r : At(i) = j
      BY <2>1, <2>3
    <3>2. r[i] = y
      BY <1>5, <2>3, <3>1
    <3> QED
      BY <3>2
  <2> QED
    BY <2>2, <2>3 DEF Among
<1> QED
  BY <1>1, <1>10, <1>11 DEF r

-----------------------------------------------------------------------------
(* What the steps of the client do to the lists.                           *)

(* Heads are no contexts, and None is neither.                             *)
LEMMA ListTypes ==
  ASSUME ClientTypes
  PROVE  /\ nnext \in [Nodes -> Nodes \cup {None}] /\ pprev \in [Nodes -> Nodes \cup {None}]
         /\ callContexts \in [Calls -> Contexts \cup {None}]
         /\ channels \in [Channels -> Heads \cup {None}]
         /\ channelID \in [Contexts -> Channels \cup {None}]
         /\ None \notin Contexts /\ None \notin Heads
         /\ \A h \in Heads : h \notin Contexts
         /\ \A x \in Contexts : x \in Nodes
         /\ \A h \in Heads : h \in Nodes
BY RPCClientAssumption DEF ClientTypes, LinkTypes, MapTypes, FieldTypes, Nodes

(* The list of a channel whose head and contexts keep their links.         *)
LEMMA ListStays ==
  ASSUME ClientTypes, ChannelLists, NEW d \in Channels, channels[d] # None,
         nnext'[channels[d]] = nnext[channels[d]],
         \A y \in Contexts : CallOf(d, y) => nnext'[y] = nnext[y] /\ pprev'[y] = pprev[y],
         \A y \in Contexts : CallOf(d, y)' <=> CallOf(d, y)
  PROVE  \E q \in Seq(Contexts) : Ring(channels[d], q, nnext', pprev') /\ Holds(d, q)'
<1>1. PICK q \in Seq(Contexts) : Ring(channels[d], q, nnext, pprev) /\ Holds(d, q)
  BY DEF ChannelLists
<1>2. \A i \in DOMAIN q : q[i] \in Contexts
  BY SeqDomain
<1>3. \A i \in DOMAIN q : CallOf(d, q[i])
  BY <1>1, <1>2 DEF Holds, Among
<1>4. Ring(channels[d], q, nnext', pprev')
  <2>1. \A i \in DOMAIN q : nnext'[q[i]] = nnext[q[i]] /\ pprev'[q[i]] = pprev[q[i]]
    BY <1>2, <1>3
  <2>2. q # <<>> /\ nnext[channels[d]] = q[1] /\ \A i, j \in DOMAIN q : q[i] = q[j] => i = j
    BY <1>1 DEF Ring
  <2>5. \A i \in DOMAIN q : nnext[q[i]] = IF i = Len(q) THEN channels[d] ELSE q[i + 1]
    BY <1>1 DEF Ring
  <2>6. \A i \in DOMAIN q : pprev[q[i]] = IF i = 1 THEN channels[d] ELSE q[i - 1]
    BY <1>1 DEF Ring
  <2>3. \A i \in DOMAIN q : nnext'[q[i]] = IF i = Len(q) THEN channels[d] ELSE q[i + 1]
    BY <2>1, <2>5
  <2>4. \A i \in DOMAIN q : pprev'[q[i]] = IF i = 1 THEN channels[d] ELSE q[i - 1]
    BY <2>1, <2>6
  <2> QED
    BY <2>2, <2>3, <2>4 DEF Ring
<1>5. Holds(d, q)'
  BY <1>1 DEF Holds
<1> QED
  BY <1>1, <1>4, <1>5

(* addCall makes x the first context of its channel's list.                *)
LEMMA AddLists ==
  ASSUME ClientTypes, ChannelLists, NEW k \in Calls, NEW c \in Channels, NEW x \in Contexts,
         ~InMap(x), callContexts[k] = None, channels[c] = None => FreeHeads # {},
         channelID' = [channelID EXCEPT ![x] = c], addCall(k, c, x)
  PROVE  ChannelLists'
<1> DEFINE new == channels[c] = None
           h == IF new THEN NewHead ELSE channels[c]
           next == IF new THEN h ELSE nnext[h]
<1>1. /\ nnext \in [Nodes -> Nodes \cup {None}] /\ pprev \in [Nodes -> Nodes \cup {None}]
      /\ callContexts \in [Calls -> Contexts \cup {None}]
      /\ channels \in [Channels -> Heads \cup {None}]
      /\ channelID \in [Contexts -> Channels \cup {None}]
      /\ None \notin Contexts /\ None \notin Heads
      /\ \A n \in Heads : n \notin Contexts
      /\ \A y \in Contexts : y \in Nodes
      /\ \A n \in Heads : n \in Nodes
  BY ListTypes
<1>2. /\ callContexts' = [callContexts EXCEPT ![k] = x]
      /\ channels' = [channels EXCEPT ![c] = h]
      /\ nnext' = [nnext EXCEPT ![x] = next, ![h] = x]
      /\ pprev' = [pprev EXCEPT ![x] = h, ![next] = IF next = h THEN h ELSE x]
  BY DEF addCall, add
<1>3. h \in Heads /\ (new => h \in FreeHeads)
  <2>1. CASE new
    <3>1. NewHead \in FreeHeads
      BY <2>1 DEF NewHead
    <3> QED
      BY <2>1, <3>1 DEF FreeHeads
  <2>2. CASE ~new
    BY <1>1, <2>2
  <2> QED
    BY <2>1, <2>2
<1>4. new => \A d \in Channels : channels[d] # h
  BY <1>3 DEF FreeHeads
<1>5. ~new => \A d \in Channels : d # c => channels[d] # h
  BY DEF ChannelLists
<1>6. ~new => next \in Contexts /\ CallOf(c, next) /\ \A q \in Seq(Contexts) : Ring(h, q, nnext, pprev) => next = q[1]
  <2> SUFFICES ASSUME ~new
               PROVE  next \in Contexts /\ CallOf(c, next) /\ \A q \in Seq(Contexts) : Ring(h, q, nnext, pprev) => next = q[1]
    OBVIOUS
  <2>1. PICK q \in Seq(Contexts) : Ring(h, q, nnext, pprev) /\ Holds(c, q)
    BY DEF ChannelLists
  <2>2. 1 \in DOMAIN q /\ q[1] \in Contexts
    <3>1. q # <<>>
      BY <2>1 DEF Ring
    <3>2. 1 \in DOMAIN q
      BY <3>1, SeqFirst
    <3> QED
      BY <3>2, SeqDomain
  <2>3. \A p : Ring(h, p, nnext, pprev) => next = p[1]
    BY DEF Ring
  <2> HIDE DEF next, h
  <2> QED
    BY <2>1, <2>2, <2>3 DEF Holds, Among
<1> HIDE DEF next
<1>7. (new => next = h) /\ next \in Nodes
  BY <1>1, <1>3, <1>6 DEF next
<1>8. channels'[c] = h /\ \A d \in Channels : d # c => channels'[d] = channels[d]
  <2> HIDE DEF h
  <2> QED
    BY <1>1, <1>2
<1> HIDE DEF h
<1>9. /\ nnext'[x] = next /\ nnext'[h] = x
      /\ \A n \in Nodes : n # x /\ n # h => nnext'[n] = nnext[n]
  <2>1. x # h /\ x \in Nodes /\ h \in Nodes
    BY <1>1, <1>3
  <2> QED
    BY <1>1, <1>2, <2>1, SMT
<1>10. /\ next # x => pprev'[x] = h
       /\ pprev'[next] = IF next = h THEN h ELSE x
       /\ \A n \in Nodes : n # x /\ n # next => pprev'[n] = pprev[n]
  BY <1>1, <1>2, <1>7, SMT
<1>11. \A y \in Contexts : InMap(y)' <=> y = x \/ InMap(y)
  <2>1. \A j \in Calls : callContexts'[j] = IF j = k THEN x ELSE callContexts[j]
    BY <1>1, <1>2, SMT
  <2> QED
    BY <1>1, <2>1 DEF InMap
<1>12. channelID'[x] = c /\ \A y \in Contexts : y # x => channelID'[y] = channelID[y]
  BY <1>1
<1>13. /\ ~CallOf(c, x)
       /\ \A d \in Channels, y \in Contexts : CallOf(d, y)' <=> IF y = x THEN d = c ELSE CallOf(d, y)
  <2>1. ~CallOf(c, x)
    BY DEF CallOf
  <2>2. ASSUME NEW d \in Channels, NEW y \in Contexts
        PROVE  CallOf(d, y)' <=> IF y = x THEN d = c ELSE CallOf(d, y)
    <3>1. CallOf(d, y)' <=> InMap(y)' /\ channelID'[y] = d
      BY DEF CallOf
    <3>2. CallOf(d, y) <=> InMap(y) /\ channelID[y] = d
      BY DEF CallOf
    <3> QED
      BY <1>11, <1>12, <3>1, <3>2
  <2> QED
    BY <2>1, <2>2
<1>14. next # x
  BY <1>1, <1>3, <1>6, <1>7, <1>13
<1>15. \A d \in Channels : channels'[d] = None => \A y \in Contexts : ~CallOf(d, y)'
  <2> SUFFICES ASSUME NEW d \in Channels, channels'[d] = None, NEW y \in Contexts
               PROVE  ~CallOf(d, y)'
    OBVIOUS
  <2>1. d # c /\ channels[d] = None
    BY <1>1, <1>3, <1>8
  <2>2. ~CallOf(d, y)
    BY <2>1 DEF ChannelLists
  <2> QED
    BY <1>13, <2>1, <2>2
<1>16. ASSUME NEW d \in Channels, channels'[d] # None
       PROVE  \E q \in Seq(Contexts) : Ring(channels'[d], q, nnext', pprev') /\ Holds(d, q)'
  <2>1. CASE d # c
    <3>1. channels'[d] = channels[d] /\ channels[d] # None /\ channels[d] # h /\ channels[d] \in Heads
      BY <1>1, <1>4, <1>5, <1>8, <1>16, <2>1
    <3>2. nnext'[channels[d]] = nnext[channels[d]]
      BY <1>1, <1>9, <3>1
    <3>3. ASSUME NEW y \in Contexts, CallOf(d, y)
          PROVE  nnext'[y] = nnext[y] /\ pprev'[y] = pprev[y]
      <4>1. y # x /\ y # h /\ y \in Nodes
        BY <1>1, <1>3, <3>3 DEF CallOf
      <4>2. y # next
        BY <1>6, <1>7, <2>1, <3>3, <4>1 DEF CallOf
      <4> QED
        BY <1>9, <1>10, <4>1, <4>2
    <3>4. \A y \in Contexts : CallOf(d, y)' <=> CallOf(d, y)
      BY <1>13, <2>1 DEF CallOf
    <3>5. \E q \in Seq(Contexts) : Ring(channels[d], q, nnext', pprev') /\ Holds(d, q)'
      BY <3>1, <3>2, <3>3, <3>4, ListStays
    <3> QED
      BY <3>1, <3>5
  <2>2. CASE d = c /\ new
    <3> DEFINE q == <<x>>
    <3>1. q \in Seq(Contexts) /\ q # <<>> /\ DOMAIN q = {1} /\ Len(q) = 1 /\ q[1] = x
      BY SMT
    <3> HIDE DEF q
    <3>2. nnext'[h] = x /\ nnext'[x] = h /\ pprev'[x] = h
      BY <1>7, <1>9, <1>10, <1>14, <2>2
    <3>3. Ring(h, q, nnext', pprev')
      BY <3>1, <3>2 DEF Ring
    <3>4. \A y \in Contexts : CallOf(c, y)' <=> y = x
      <4>1. \A y \in Contexts : ~CallOf(c, y)
        BY <2>2 DEF ChannelLists
      <4> QED
        BY <1>13, <4>1
    <3>5. Holds(c, q)'
      BY <3>1, <3>4 DEF Holds, Among
    <3> QED
      BY <1>8, <2>2, <3>1, <3>3, <3>5
  <2>3. CASE d = c /\ ~new
    <3>1. PICK q \in Seq(Contexts) : Ring(channels[c], q, nnext, pprev) /\ Holds(c, q)
      BY <2>3 DEF ChannelLists
    <3>2. channels[c] = h
      BY <2>3 DEF h
    <3>3. next = q[1] /\ Ring(h, q, nnext, pprev)
      BY <1>6, <2>3, <3>1, <3>2
    <3>4. \A i \in DOMAIN q : q[i] \in Contexts /\ q[i] \in Nodes /\ q[i] # x /\ q[i] # h
      <4>1. \A i \in DOMAIN q : q[i] \in Contexts
        BY SeqDomain
      <4> QED
        BY <1>1, <1>3, <1>13, <3>1, <4>1 DEF Holds, Among
    <3>5. \A i \in DOMAIN q : i # 1 => q[i] # next
      <4>1. 1 \in DOMAIN q
        BY <3>3, SeqFirst DEF Ring
      <4> QED
        BY <3>3, <4>1 DEF Ring
    <3>6. next # h
      BY <1>1, <1>3, <1>6, <2>3
    <3> DEFINE nz == nnext'
               pz == pprev'
    <3>7. /\ nz[h] = x /\ nz[x] = q[1] /\ \A i \in DOMAIN q : nz[q[i]] = nnext[q[i]]
          /\ pz[x] = h /\ pz[q[1]] = x /\ \A i \in DOMAIN q : i # 1 => pz[q[i]] = pprev[q[i]]
      BY <1>9, <1>10, <1>14, <3>3, <3>4, <3>5, <3>6
    <3> HIDE DEF nz, pz
    <3>8. /\ <<x>> \o q \in Seq(Contexts) /\ Ring(h, <<x>> \o q, nz, pz)
          /\ \A y : Among(<<x>> \o q, y) <=> y = x \/ Among(q, y)
      <4>1. LinkedIn(h, q, x, nnext, pprev, nz, pz)
        BY <3>7 DEF LinkedIn
      <4>2. \A i \in DOMAIN q : q[i] # x
        BY <3>4
      <4> QED
        BY <3>3, <4>1, <4>2, RingGrows
    <3>9. Holds(c, <<x>> \o q)'
      <4>1. ASSUME NEW y \in Contexts
            PROVE  CallOf(c, y)' <=> Among(<<x>> \o q, y)
        <5>1. CallOf(c, y) <=> Among(q, y)
          BY <3>1 DEF Holds
        <5>2. CallOf(c, y)' <=> y = x \/ CallOf(c, y)
          BY <1>13
        <5> QED
          BY <3>8, <5>1, <5>2
      <4> QED
        BY <4>1 DEF Holds
    <3> QED
      BY <1>8, <2>3, <3>8, <3>9 DEF nz, pz
  <2> QED
    BY <2>1, <2>2, <2>3
<1>17. ASSUME NEW d \in Channels, NEW e \in Channels, channels'[d] = channels'[e], channels'[d] # None
       PROVE  d = e
  <2>1. CASE d # c /\ e # c
    BY <1>8, <1>17, <2>1 DEF ChannelLists
  <2>2. \A b \in Channels : b # c => channels[b] # h
    BY <1>4, <1>5
  <2> QED
    BY <1>8, <1>17, <2>1, <2>2
<1>18. ASSUME NEW y \in Contexts, InMap(y)'
       PROVE  channelID'[y] \in Channels
  BY <1>11, <1>12, <1>18 DEF ChannelLists
<1> QED
  BY <1>15, <1>16, <1>17, <1>18 DEF ChannelLists

(* The neighbours of the m-th context of a ring.                           *)
LEMMA Neighbours ==
  ASSUME NEW q \in Seq(Contexts), NEW h, NEW nx, NEW pv, Ring(h, q, nx, pv), NEW m \in DOMAIN q
  PROVE  /\ pv[q[m]] = h \/ (Among(q, pv[q[m]]) /\ pv[q[m]] \in Contexts)
         /\ nx[q[m]] = h \/ (Among(q, nx[q[m]]) /\ nx[q[m]] \in Contexts)
         /\ h \notin Contexts => pv[q[m]] # q[m] /\ nx[q[m]] # q[m]
<1>1. DOMAIN q = 1..Len(q) /\ Len(q) \in Nat /\ \A i \in DOMAIN q : q[i] \in Contexts
  BY SeqDomain
<1>2. /\ pv[q[m]] = IF m = 1 THEN h ELSE q[m - 1]
      /\ nx[q[m]] = IF m = Len(q) THEN h ELSE q[m + 1]
      /\ \A i, j \in DOMAIN q : q[i] = q[j] => i = j
  BY DEF Ring
<1>3. (m # 1 => m - 1 \in DOMAIN q /\ m - 1 # m) /\ (m # Len(q) => m + 1 \in DOMAIN q /\ m + 1 # m)
  BY <1>1, SMT
<1>4. m # 1 => q[m - 1] \in Contexts /\ Among(q, q[m - 1]) /\ q[m - 1] # q[m]
  BY <1>1, <1>2, <1>3 DEF Among
<1>5. m # Len(q) => q[m + 1] \in Contexts /\ Among(q, q[m + 1]) /\ q[m + 1] # q[m]
  BY <1>1, <1>2, <1>3 DEF Among
<1>6. q[m] \in Contexts
  BY <1>1
<1>7. /\ pv[q[m]] = h \/ (Among(q, pv[q[m]]) /\ pv[q[m]] \in Contexts)
      /\ h \notin Contexts => pv[q[m]] # q[m]
  <2>1. CASE m = 1
    BY <1>2, <1>6, <2>1
  <2>2. CASE m # 1
    BY <1>2, <1>4, <2>2
  <2> QED
    BY <2>1, <2>2
<1>8. /\ nx[q[m]] = h \/ (Among(q, nx[q[m]]) /\ nx[q[m]] \in Contexts)
      /\ h \notin Contexts => nx[q[m]] # q[m]
  <2>1. CASE m = Len(q)
    BY <1>2, <1>6, <2>1
  <2>2. CASE m # Len(q)
    BY <1>2, <1>5, <2>2
  <2> QED
    BY <2>1, <2>2
<1> QED
  BY <1>7, <1>8

(* removeCallBySeqno takes a call out of its channel's list, and the list  *)
(* away with the last call.  It does not panic.                            *)
LEMMA RemoveLists ==
  ASSUME ClientTypes, ChannelLists, Mapped, NEW s \in Calls, NEW ts, callContexts[s] # None,
         removeCallBySeqno(s, ts), UNCHANGED channelID
  PROVE  ChannelLists' /\ panicked' = panicked
<1> DEFINE x == callContexts[s]
           prev == pprev[x]
           next == nnext[x]
<1>1. /\ nnext \in [Nodes -> Nodes \cup {None}] /\ pprev \in [Nodes -> Nodes \cup {None}]
      /\ callContexts \in [Calls -> Contexts \cup {None}]
      /\ channels \in [Channels -> Heads \cup {None}]
      /\ None \notin Contexts /\ None \notin Heads
      /\ \A n \in Heads : n \notin Contexts
      /\ \A y \in Contexts : y \in Nodes
      /\ \A n \in Heads : n \in Nodes
  BY ListTypes
<1>2. x \in Contexts /\ x # None /\ InMap(x)
  BY <1>1 DEF InMap
<1>3. PICK c \in Channels : c = channelID[x] /\ CallOf(c, x)
  BY <1>2 DEF ChannelLists, CallOf
<1> DEFINE h == channels[c]
<1>4. h # None /\ h \in Heads /\ h \notin Contexts /\ h \in Nodes
  <2>1. h # None
    BY <1>2, <1>3 DEF ChannelLists
  <2> QED
    BY <1>1, <1>3, <2>1
<1>5. PICK q \in Seq(Contexts) : Ring(h, q, nnext, pprev) /\ Holds(c, q)
  BY <1>3, <1>4 DEF ChannelLists
<1>6. PICK m \in DOMAIN q : q[m] = x
  BY <1>2, <1>3, <1>5 DEF Holds, Among
<1>7. /\ prev = h \/ (CallOf(c, prev) /\ prev \in Contexts)
      /\ next = h \/ (CallOf(c, next) /\ next \in Contexts)
      /\ prev # x /\ next # x
  <2>1. /\ prev = h \/ (Among(q, prev) /\ prev \in Contexts)
        /\ next = h \/ (Among(q, next) /\ next \in Contexts)
        /\ prev # x /\ next # x
    <3>1. /\ pprev[q[m]] = h \/ (Among(q, pprev[q[m]]) /\ pprev[q[m]] \in Contexts)
          /\ nnext[q[m]] = h \/ (Among(q, nnext[q[m]]) /\ nnext[q[m]] \in Contexts)
          /\ h \notin Contexts => pprev[q[m]] # q[m] /\ nnext[q[m]] # q[m]
      <4> HIDE DEF h
      <4> QED
        BY <1>5, Neighbours
    <3> QED
      BY <1>4, <1>6, <3>1
  <2> QED
    BY <1>5, <2>1 DEF Holds
<1>8. prev # None /\ next # None /\ prev \in Nodes /\ next \in Nodes
  BY <1>1, <1>4, <1>7
<1>9. /\ callContexts' = [callContexts EXCEPT ![s] = None]
      /\ nnext' = [nnext EXCEPT ![prev] = next, ![x] = None]
      /\ pprev' = [pprev EXCEPT ![next] = prev, ![x] = None]
      /\ channels' = IF nnext'[h] = h THEN [channels EXCEPT ![c] = None] ELSE channels
      /\ panicked' = panicked
  BY <1>2, <1>3, <1>4, <1>8 DEF removeCallBySeqno
<1>10. \A j \in Calls : callContexts[j] = x => j = s
  BY <1>2 DEF Mapped
<1> HIDE DEF x, h, prev, next
<1>11. \A y \in Contexts : InMap(y)' <=> y # x /\ InMap(y)
  <2>1. \A j \in Calls : callContexts'[j] = IF j = s THEN None ELSE callContexts[j]
    BY <1>1, <1>9, SMT
  <2>2. callContexts[s] = x
    BY DEF x
  <2> QED
    BY <1>1, <1>10, <2>1, <2>2 DEF InMap
<1>12. \A d \in Channels, y \in Contexts : CallOf(d, y)' <=> y # x /\ CallOf(d, y)
  BY <1>11 DEF CallOf
<1>13. /\ nnext'[prev] = next
       /\ \A n \in Nodes : n # prev /\ n # x => nnext'[n] = nnext[n]
       /\ pprev'[next] = prev
       /\ \A n \in Nodes : n # next /\ n # x => pprev'[n] = pprev[n]
  BY <1>1, <1>7, <1>8, <1>9, SMT
<1>14. nnext[q[m]] = next /\ pprev[q[m]] = prev /\ nnext[x] = next /\ pprev[x] = prev
  BY <1>6 DEF next, prev
<1>15. LinkedOut(h, x, nnext, pprev, nnext', pprev')
  <2>1. \A n \in Contexts \cup {h} : n \in Nodes
    BY <1>1, <1>4
  <2> QED
    BY <1>13, <1>14, <2>1 DEF LinkedOut
<1>16. ASSUME NEW d \in Channels, d # c, channels[d] # None
       PROVE  \E p \in Seq(Contexts) : Ring(channels[d], p, nnext', pprev') /\ Holds(d, p)'
  <2>1. channels[d] # h /\ channels[d] \in Heads /\ channels[d] \in Nodes /\ channels[d] \notin Contexts
    <3>1. channels[d] # channels[c]
      BY <1>3, <1>16 DEF ChannelLists
    <3> QED
      BY <1>1, <1>16, <3>1 DEF h
  <2>2. nnext'[channels[d]] = nnext[channels[d]]
    BY <1>2, <1>7, <1>13, <2>1
  <2>3. ASSUME NEW y \in Contexts, CallOf(d, y)
        PROVE  y # x /\ nnext'[y] = nnext[y] /\ pprev'[y] = pprev[y]
    <3>1. y # x
      BY <1>3, <1>16, <2>3 DEF CallOf
    <3>2. y # prev /\ y # next
      BY <1>4, <1>7, <1>16, <2>3 DEF CallOf
    <3> QED
      BY <1>1, <1>13, <3>1, <3>2
  <2>4. \A y \in Contexts : CallOf(d, y)' <=> CallOf(d, y)
    BY <1>12, <2>3
  <2> QED
    BY <1>16, <2>2, <2>3, <2>4, ListStays
<1>17. CASE Len(q) = 1
  <2>1. m = 1 /\ m = Len(q) /\ DOMAIN q = {1}
    <3>1. DOMAIN q = 1..Len(q)
      BY SeqDomain
    <3> QED
      BY <1>17, <3>1, SMT
  <2>2. prev = h /\ next = h
    BY <1>5, <1>14, <2>1 DEF Ring
  <2>3. nnext'[h] = h
    BY <1>13, <2>2
  <2>4. channels'[c] = None /\ \A d \in Channels : d # c => channels'[d] = channels[d]
    BY <1>1, <1>3, <1>9, <2>3
  <2>5. \A y \in Contexts : ~CallOf(c, y)'
    <3>1. \A y : Among(q, y) => y = x
      BY <1>6, <2>1 DEF Among
    <3>2. \A y \in Contexts : CallOf(c, y) => y = x
      BY <1>5, <3>1 DEF Holds
    <3> QED
      BY <1>12, <3>2
  <2>6. \A d \in Channels : channels'[d] = None => \A y \in Contexts : ~CallOf(d, y)'
    <3> SUFFICES ASSUME NEW d \in Channels, channels'[d] = None, NEW y \in Contexts
                 PROVE  ~CallOf(d, y)'
      OBVIOUS
    <3>1. CASE d = c
      BY <2>5, <3>1
    <3>2. CASE d # c
      <4>1. ~CallOf(d, y)
        BY <2>4, <3>2 DEF ChannelLists
      <4> QED
        BY <1>12, <4>1
    <3> QED
      BY <3>1, <3>2
  <2>7. ASSUME NEW d \in Channels, channels'[d] # None
        PROVE  \E p \in Seq(Contexts) : Ring(channels'[d], p, nnext', pprev') /\ Holds(d, p)'
    <3>1. d # c /\ channels'[d] = channels[d] /\ channels[d] # None
      BY <2>4, <2>7
    <3>2. \E p \in Seq(Contexts) : Ring(channels[d], p, nnext', pprev') /\ Holds(d, p)'
      BY <1>16, <3>1
    <3> QED
      BY <3>1, <3>2
  <2>8. \A d, e \in Channels : channels'[d] = channels'[e] /\ channels'[d] # None => d = e
    BY <2>4 DEF ChannelLists
  <2>9. \A y \in Contexts : InMap(y)' => channelID'[y] \in Channels
    BY <1>11 DEF ChannelLists
  <2> QED
    BY <1>9, <2>6, <2>7, <2>8, <2>9 DEF ChannelLists
<1>18. CASE Len(q) # 1
  <2> DEFINE r == Without(q, m)
             nz == nnext'
             pz == pprev'
  <2>1. /\ r \in Seq(Contexts) /\ Ring(h, r, nz, pz)
        /\ \A y : Among(r, y) <=> y # q[m] /\ Among(q, y)
    <3>1. LinkedOut(h, q[m], nnext, pprev, nz, pz)
      BY <1>6, <1>15
    <3> HIDE DEF nz, pz
    <3> QED
      BY <1>4, <1>5, <1>18, <3>1, RingShrinks
  <2> HIDE DEF r
  <2>2. nnext'[h] # h
    <3>1. nnext'[h] = r[1] /\ r # <<>>
      BY <2>1 DEF Ring
    <3>2. 1 \in DOMAIN r
      BY <2>1, <3>1, SeqFirst
    <3>3. r[1] \in Contexts
      BY <2>1, <3>2, SeqDomain
    <3> QED
      BY <1>4, <3>1, <3>3
  <2>3. channels' = channels
    BY <1>9, <2>2
  <2>4. Holds(c, r)'
    <3>1. ASSUME NEW y \in Contexts
          PROVE  CallOf(c, y)' <=> Among(r, y)
      <4>1. CallOf(c, y) <=> Among(q, y)
        BY <1>5 DEF Holds
      <4>2. CallOf(c, y)' <=> y # x /\ CallOf(c, y)
        BY <1>3, <1>12
      <4> QED
        BY <1>6, <2>1, <4>1, <4>2
    <3> QED
      BY <3>1 DEF Holds
  <2>5. \A d \in Channels : channels'[d] = None => \A y \in Contexts : ~CallOf(d, y)'
    BY <1>12, <2>3 DEF ChannelLists
  <2>6. ASSUME NEW d \in Channels, channels'[d] # None
        PROVE  \E p \in Seq(Contexts) : Ring(channels'[d], p, nnext', pprev') /\ Holds(d, p)'
    <3>1. channels'[d] = channels[d] /\ channels[d] # None
      BY <2>3, <2>6
    <3>2. CASE d = c
      <4>1. channels'[d] = h
        BY <3>1, <3>2 DEF h
      <4> QED
        BY <2>1, <2>4, <3>2, <4>1
    <3>3. CASE d # c
      <4>1. \E p \in Seq(Contexts) : Ring(channels[d], p, nnext', pprev') /\ Holds(d, p)'
        BY <1>16, <3>1, <3>3
      <4> QED
        BY <3>1, <4>1
    <3> QED
      BY <3>2, <3>3
  <2>7. \A d, e \in Channels : channels'[d] = channels'[e] /\ channels'[d] # None => d = e
    BY <2>3 DEF ChannelLists
  <2>8. \A y \in Contexts : InMap(y)' => channelID'[y] \in Channels
    BY <1>11 DEF ChannelLists
  <2> QED
    BY <1>9, <2>5, <2>6, <2>7, <2>8 DEF ChannelLists
<1> QED
  BY <1>17, <1>18

(* The lists do not change with what they do not depend on.                *)
LEMMA ListsStay ==
  ASSUME ListInv,
         UNCHANGED <<env, panicked, dpc, callContexts, channels, nnext, pprev, channelID>>
  PROVE  ListInv'
<1>1. UNCHANGED env /\ UNCHANGED panicked /\ UNCHANGED dpc /\ UNCHANGED callContexts
      /\ UNCHANGED channels /\ UNCHANGED nnext /\ UNCHANGED pprev /\ UNCHANGED channelID
  OBVIOUS
<1> SUFFICES ASSUME "disconnect" \notin env.has
             PROVE  ~panicked' /\ (\A c \in Channels : dpc'[c] = "none") /\ ChannelLists'
  BY <1>1 DEF ListInv
<1>2. ~panicked /\ (\A c \in Channels : dpc[c] = "none") /\ ChannelLists
  BY DEF ListInv
<1>3. \A c, y : CallOf(c, y)' <=> CallOf(c, y)
  BY <1>1 DEF CallOf, InMap
<1>4. \A c, q : Holds(c, q)' <=> Holds(c, q)
  BY <1>3 DEF Holds
<1>5. \A y : InMap(y)' <=> InMap(y)
  BY <1>1 DEF InMap
<1>6. ChannelLists'
  <2>1. \A c \in Channels : channels'[c] = None => \A x \in Contexts : ~CallOf(c, x)'
    BY <1>1, <1>2, <1>3 DEF ChannelLists
  <2>2. \A c \in Channels : channels'[c] # None =>
          \E q \in Seq(Contexts) : Ring(channels'[c], q, nnext', pprev') /\ Holds(c, q)'
    BY <1>1, <1>2, <1>4 DEF ChannelLists
  <2>3. \A c, d \in Channels : channels'[c] = channels'[d] /\ channels'[c] # None => c = d
    BY <1>1, <1>2 DEF ChannelLists
  <2>4. \A x \in Contexts : InMap(x)' => channelID'[x] \in Channels
    BY <1>1, <1>2, <1>5 DEF ChannelLists
  <2> QED
    BY <2>1, <2>2, <2>3, <2>4 DEF ChannelLists
<1>7. panicked' = panicked /\ dpc' = dpc
  BY <1>1
<1>8. ~panicked'
  BY <1>2, <1>7, SMT
<1>9. \A c \in Channels : dpc'[c] = "none"
  BY <1>2, <1>7
<1> QED
  BY <1>6, <1>8, <1>9

(* removeCallBySeqno, with a call to remove or without.                    *)
LEMMA RemoveKeeps ==
  ASSUME ClientTypes, ListInv, Mapped, NEW s \in Calls, NEW ts, removeCallBySeqno(s, ts),
         UNCHANGED <<env, dpc, channelID>>
  PROVE  ListInv'
<1>1. CASE callContexts[s] = None
  <2>1. UNCHANGED <<callContexts, channels, nnext, pprev, panicked>>
    BY <1>1 DEF removeCallBySeqno, mapVars, listVars
  <2> QED
    BY <2>1, ListsStay
<1>2. CASE callContexts[s] # None
  <2> SUFFICES ASSUME "disconnect" \notin env.has
               PROVE  ~panicked' /\ (\A c \in Channels : dpc'[c] = "none") /\ ChannelLists'
    BY DEF ListInv
  <2>1. ~panicked /\ (\A c \in Channels : dpc[c] = "none") /\ ChannelLists
    BY DEF ListInv
  <2>2. ChannelLists' /\ panicked' = panicked
    BY <1>2, <2>1, RemoveLists
  <2> QED
    BY <2>1, <2>2
<1> QED
  BY <1>1, <1>2

(* The steps of the client keep the map and the lists together.            *)
LEMMA ListStep ==
  ASSUME ClientInv, ListInv, ClientNext
  PROVE  ListInv'
<1>1. /\ ~panicked /\ env.channels \subseteq Channels
      /\ ClientTypes /\ Named /\ Holding /\ Mapped /\ OneUse
  BY RPCClientAssumption DEF ClientNext, ClientInv, Core, ClientTypes, PoolTypes
<1>2. ASSUME NEW k \in Calls, CallStep(k) \/ TimerStep(k) \/ ResponseStep(k)
      PROVE  ListInv'
  <2>1. ASSUME NEW c \in env.channels, Post(k, c)
        PROVE  ListInv'
    <3>1. UNCHANGED <<env, panicked, dpc, callContexts, channels, nnext, pprev, channelID>>
      BY <2>1 DEF Post, mapVars, listVars, walkVars, contextVars
    <3> QED
      BY <3>1, ListsStay
  <2>2. ASSUME NEW c \in env.channels, NEW x \in Contexts, AsynCall(k, c, x)
        PROVE  ListInv'
    <3>1. UNCHANGED <<env, dpc, panicked>>
      BY <2>2 DEF AsynCall, walkVars
    <3>2. /\ apc[k] = "new" /\ x \in getCallContext /\ (channels[c] = None => FreeHeads # {})
          /\ channelID' = [channelID EXCEPT ![x] = c] /\ addCall(k, c, x)
      BY <2>2 DEF AsynCall
    <3>3. ~InMap(x)
      <4>1. pool \in [Contexts -> Nat]
        BY <1>1 DEF ClientTypes, PoolTypes
      <4>2. seq[x] # None => pool[x] > 0
        BY <3>2 DEF getCallContext
      <4>3. pool[x] <= 1 /\ (seq[x] = None => pool[x] = 1) /\ (pool[x] = 1 => ~InMap(x))
        BY <1>1 DEF OneUse
      <4>4. pool[x] = 1
        BY SMT, <4>1, <4>2, <4>3
      <4> QED
        BY <4>3, <4>4
    <3>4. callContexts[k] = None
      <4> SUFFICES ASSUME callContexts[k] # None
                   PROVE  FALSE
        OBVIOUS
      <4>1. callContexts[k] \in Contexts /\ seq[callContexts[k]] = k /\ k # None
        BY <1>1, RPCClientAssumption DEF ClientTypes, MapTypes, Mapped
      <4> QED
        BY <1>1, <3>2, <4>1 DEF Named
    <3> SUFFICES ASSUME "disconnect" \notin env.has
                 PROVE  ~panicked' /\ (\A d \in Channels : dpc'[d] = "none") /\ ChannelLists'
      BY <3>1 DEF ListInv
    <3>5. (\A d \in Channels : dpc[d] = "none") /\ ChannelLists /\ c \in Channels
      BY <1>1 DEF ListInv
    <3>6. ChannelLists'
      BY <1>1, <3>2, <3>3, <3>4, <3>5, AddLists
    <3> QED
      BY <1>1, <3>1, <3>5, <3>6
  <2>3. CASE SendRequest(k)
    <3>1. UNCHANGED <<env, panicked, dpc, callContexts, channels, nnext, pprev, channelID>>
      BY <2>3 DEF SendRequest, mapVars, listVars, walkVars, contextVars
    <3> QED
      BY <3>1, ListsStay
  <2>4. CASE SendFails(k)
    <3>1. apc[k] = "send" /\ removeCallBySeqno(seq[actx[k]], tpc) /\ UNCHANGED <<env, dpc, channelID>>
      BY <2>4 DEF SendFails, walkVars, contextVars
    <3>2. seq[actx[k]] \in Calls
      <4>1. Used(actx[k])
        BY <1>1, <3>1 DEF Holding
      <4> QED
        BY <1>1, <4>1 DEF Used, ClientTypes, FieldTypes
    <3> QED
      BY <1>1, <3>1, <3>2, RemoveKeeps
  <2>5. CASE TimerFires(k)
    <3>1. UNCHANGED <<env, panicked, dpc, callContexts, channels, nnext, pprev, channelID>>
      BY <2>5 DEF TimerFires, mapVars, listVars, walkVars, contextVars
    <3> QED
      BY <3>1, ListsStay
  <2>6. CASE onTimeout(k)
    <3> DEFINE ts == [tpc EXCEPT ![k] = IF Findable(tctx[k]) THEN "respond" ELSE "done"]
    <3>1. tpc[k] = "running" /\ removeCallBySeqno(seq[tctx[k]], ts) /\ UNCHANGED <<env, dpc, channelID>>
      BY <2>6 DEF onTimeout, walkVars, contextVars
    <3> HIDE DEF ts
    <3>2. seq[tctx[k]] \in Calls
      <4>1. Used(tctx[k])
        BY <1>1, <3>1 DEF Holding
      <4> QED
        BY <1>1, <4>1 DEF Used, ClientTypes, FieldTypes
    <3> QED
      BY <1>1, <3>1, <3>2, RemoveKeeps
  <2>7. CASE TimeoutAnswers(k)
    <3>1. UNCHANGED <<env, panicked, dpc, callContexts, channels, nnext, pprev, channelID>>
      BY <2>7 DEF TimeoutAnswers, mapVars, listVars, walkVars, contextVars
    <3> QED
      BY <3>1, ListsStay
  <2>8. CASE OnResponse(k)
    <3>1. removeCallBySeqno(k, tpc) /\ UNCHANGED <<env, dpc, channelID>>
      BY <2>8 DEF OnResponse, walkVars, contextVars
    <3> QED
      BY <1>1, <3>1, RemoveKeeps
  <2>9. CASE ResponseAnswers(k)
    <3>1. UNCHANGED <<env, panicked, dpc, callContexts, channels, nnext, pprev, channelID>>
      BY <2>9 DEF ResponseAnswers, mapVars, listVars, walkVars, contextVars
    <3> QED
      BY <3>1, ListsStay
  <2> QED
    BY <1>2, <2>1, <2>2, <2>3, <2>4, <2>5, <2>6, <2>7, <2>8, <2>9 DEF CallStep, TimerStep, ResponseStep
<1>3. ASSUME NEW c \in Channels, OnChannelDisconnect(c) \/ WalkStep(c)
      PROVE  ListInv'
  <2>1. env' = env
    BY <1>3 DEF OnChannelDisconnect, WalkStep, WalkFirst, WalkNext, WalkLook, WalkAnswers
  <2>2. CASE "disconnect" \in env.has
    BY <2>1, <2>2 DEF ListInv
  <2>3. CASE "disconnect" \notin env.has
    <3>1. dpc[c] = "none"
      BY <2>3 DEF ListInv
    <3>2. WalkStep(c)
      BY <1>3, <2>3 DEF OnChannelDisconnect
    <3>3. dpc[c] \in {"first", "next", "look", "respond"}
      BY <3>2 DEF WalkStep, WalkFirst, WalkNext, WalkLook, WalkAnswers
    <3> QED
      BY <3>1, <3>3, SMT
  <2> QED
    BY <2>2, <2>3
<1> QED
  BY <1>2, <1>3 DEF ClientNext

(* Nothing is in the map at first.                                         *)
LEMMA InitLists == ClientInit => ListInv
<1> SUFFICES ASSUME ClientInit
             PROVE  ListInv
  OBVIOUS
<1>1. /\ panicked = FALSE /\ \A c \in Channels : dpc[c] = "none" /\ channels[c] = None
      /\ \A k \in Calls : callContexts[k] = None
  BY DEF ClientInit
<1>2. \A x \in Contexts : ~InMap(x)
  BY <1>1, RPCClientAssumption DEF InMap
<1> QED
  BY <1>1, <1>2 DEF ListInv, ChannelLists, CallOf

=============================================================================
