---------------------------- MODULE EventHandler ----------------------------
(***************************************************************************)
(* The handlers of one event, event/eventHandler.go.  A slot holds the     *)
(* list of handles; the goroutine that emits calls them without the lock   *)
(* of the slot, and whatever others, or the handlers themselves, ask for   *)
(* meanwhile is queued in pendingOP for the emitter.  Clear drops the      *)
(* slot, and the next registration makes another one with a new version.   *)
(*                                                                         *)
(* The list of a slot is a sequence.  A slot is its version.  A goroutine  *)
(* may be in the handlers of several slots, the last of its stack being    *)
(* the one that runs.                                                      *)
(*                                                                         *)
(* Between two callbacks the emitter holds the lock of its slot and        *)
(* carries out queued operations, one per step.  Nothing else runs then    *)
(* (holder): others that need the lock wait, Clear does not touch the      *)
(* slot, and a Remove that reads, without the lock, the version a handle   *)
(* has only in between goes on to remove nothing.                          *)
(***************************************************************************)
EXTENDS Integers, Lists

CONSTANTS
  Goroutines,\* goroutines
  Handles,   \* handles, each registered once
  Slots,     \* slots that can be made
  Onces,     \* the sets of handles that RegisterOnce may be used for
  MaxEmits,  \* bound: calls of Emit
  MaxRemoves,\* bound: calls of Remove
  Nil

ASSUME EventHandlerAssumption ==
  /\ Onces \subseteq SUBSET Handles
  /\ MaxEmits \in Nat /\ MaxRemoves \in Nat
  /\ Nil \notin Slots \cup Handles

VARIABLES
  once,      \* the handles of RegisterOnce in this behaviour
  slot,      \* the slot in slots, or Nil
  made,      \* the slots made so far
  version,   \* the version of each handle: a slot, or Nil for 0
  l,         \* the list of each slot
  emiting,   \* the slots that are emitting
  pendingOP, \* the queued operations of each slot: <<"emit">>, <<"delete", h>>...
  cur,       \* the handle each emitting slot is at
  holder,    \* the slot whose emitter holds its lock, or Nil
  call,      \* the call of Remove or Emit each goroutine is in
  stack,     \* the slots whose handlers each goroutine is in
  subscribed,\* history: handles given to register
  emits,     \* history: calls of Emit
  removes,   \* history: calls of Remove that find the handle's slot
  called     \* history: how often each handle of once was called

eventVars == <<once, slot, made, version, l, emiting, pendingOP, cur, holder, call, stack,
               subscribed, emits, removes, called>>

(* NewEventHandler.                                                        *)
EventInit ==
  /\ once \in Onces
  /\ slot = Nil
  /\ made = {}
  /\ version = [h \in Handles |-> Nil]
  /\ l = [s \in Slots |-> <<>>]
  /\ emiting = {}
  /\ pendingOP = [s \in Slots |-> <<>>]
  /\ cur = [s \in Slots |-> Nil]
  /\ holder = Nil
  /\ call = [t \in Goroutines |-> Nil]
  /\ stack = [t \in Goroutines |-> <<>>]
  /\ subscribed = {}
  /\ emits = 0
  /\ removes = 0
  /\ called = [h \in Handles |-> 0]

(* A goroutine that is free to make a call: it is in the program or in the *)
(* handler that was called last.                                           *)
Running(t) == call[t] = Nil /\ holder = Nil

push(s, op) == pendingOP' = [pendingOP EXCEPT ![s] = Append(@, op)]

doRegister(s, h) ==
  /\ version' = [version EXCEPT ![h] = s]
  /\ l' = [l EXCEPT ![s] = Append(@, h)]

(* Where h is in the list of s.                                            *)
Place(s, h) == CHOOSE i \in DOMAIN l[s] : l[s][i] = h

doRemove(s, h) ==
  IF version[h] = s
  THEN /\ version' = [version EXCEPT ![h] = Nil]
       /\ l' = [l EXCEPT ![s] = RemoveAt(@, Place(s, h))]
  ELSE UNCHANGED <<version, l>>

(* Register and RegisterOnce, with the slot's register.                    *)
Register(t, h) ==
  LET s == IF slot = Nil THEN CHOOSE x \in Slots \ made : TRUE ELSE slot
  IN  /\ Running(t)
      /\ h \notin subscribed
      /\ slot # Nil \/ made # Slots
      /\ subscribed' = subscribed \cup {h}
      /\ slot' = s
      /\ made' = made \cup {s}
      /\ IF s \in emiting
         THEN push(s, <<"register", h>>) /\ UNCHANGED <<version, l>>
         ELSE doRegister(s, h) /\ UNCHANGED pendingOP
      /\ UNCHANGED <<once, emiting, cur, holder, call, stack, emits, removes, called>>

(* Clear: a slot that is emitting goes on without being found.             *)
Clear(t) ==
  /\ Running(t)
  /\ slot # Nil
  /\ slot' = Nil
  /\ UNCHANGED <<once, made, version, l, emiting, pendingOP, cur, holder, call, stack,
                 subscribed, emits, removes, called>>

(* EventHandler.Remove: the slot and the version are read.  A registration *)
(* that is still queued has no version, and is not removed.                *)
RemoveLook(t, h) ==
  /\ Running(t)
  /\ h \in subscribed
  /\ removes < MaxRemoves
  /\ slot # Nil
  /\ version[h] = slot
  /\ removes' = removes + 1
  /\ call' = [call EXCEPT ![t] = <<"remove", slot, h>>]
  /\ UNCHANGED <<once, slot, made, version, l, emiting, pendingOP, cur, holder, stack,
                 subscribed, emits, called>>

(* Mutant: remove does not wait for the emitter.                           *)
removeNow(t) ==
  LET s == call[t][2]  h == call[t][3]
  IN  /\ holder = Nil
      /\ call[t] # Nil
      /\ call[t][1] = "remove"
      /\ call' = [call EXCEPT ![t] = Nil]
      /\ doRemove(s, h) /\ UNCHANGED pendingOP
      /\ UNCHANGED <<once, slot, made, emiting, cur, holder, stack, subscribed, emits, removes, called>>

(* handlerSlot.remove.                                                     *)
remove(t) ==
  LET s == call[t][2]  h == call[t][3]
  IN  /\ holder = Nil
      /\ call[t] # Nil
      /\ call[t][1] = "remove"
      /\ call' = [call EXCEPT ![t] = Nil]
      /\ IF s \in emiting
         THEN push(s, <<"delete", h>>) /\ UNCHANGED <<version, l>>
         ELSE doRemove(s, h) /\ UNCHANGED pendingOP
      /\ UNCHANGED <<once, slot, made, emiting, cur, holder, stack, subscribed, emits, removes, called>>

(* EventHandler.Emit: the slot is read.                                    *)
Emit(t) ==
  /\ Running(t)
  /\ emits < MaxEmits
  /\ slot # Nil
  /\ emits' = emits + 1
  /\ call' = [call EXCEPT ![t] = <<"emit", slot>>]
  /\ UNCHANGED <<once, slot, made, version, l, emiting, pendingOP, cur, holder, stack,
                 subscribed, removes, called>>

(* handlerSlot.emit: it is left to the emitter, if there is one.          *)
emit(t) ==
  LET s == call[t][2]
  IN  /\ holder = Nil
      /\ call[t] # Nil
      /\ call[t][1] = "emit"
      /\ call' = [call EXCEPT ![t] = Nil]
      /\ push(s, <<"emit">>)
      /\ IF s \in emiting
         THEN UNCHANGED <<emiting, holder, stack>>
         ELSE /\ emiting' = emiting \cup {s}
              /\ holder' = s
              /\ stack' = [stack EXCEPT ![t] = Append(@, s)]
      /\ UNCHANGED <<once, slot, made, version, l, cur, subscribed, emits, removes, called>>

(* t is in the loop of emit on s and holds the lock.                       *)
Emitting(t, s) == holder = s /\ stack[t] # <<>> /\ s = Last(stack[t])

(* emit: an operation that is not an emit is carried out.                  *)
PopOther(t, s) ==
  /\ Emitting(t, s)
  /\ pendingOP[s] # <<>>
  /\ LET o == Head(pendingOP[s])
     IN  \/ o[1] = "delete" /\ doRemove(s, o[2])
         \/ o[1] = "register" /\ doRegister(s, o[2])
  /\ pendingOP' = [pendingOP EXCEPT ![s] = Tail(@)]
  /\ UNCHANGED <<once, slot, made, emiting, cur, holder, call, stack, subscribed, emits, removes, called>>

(* The lock is released and the handler h of s is called.                  *)
CallHandler(s, h) ==
  /\ cur' = [cur EXCEPT ![s] = h]
  /\ holder' = Nil
  /\ called' = [called EXCEPT ![h] = IF h \in once THEN @ + 1 ELSE @]

(* emit: an emit calls the first handler, if there is one.                 *)
PopEmit(t, s) ==
  /\ Emitting(t, s)
  /\ pendingOP[s] # <<>>
  /\ Head(pendingOP[s])[1] = "emit"
  /\ pendingOP' = [pendingOP EXCEPT ![s] = Tail(@)]
  /\ IF l[s] = <<>> THEN UNCHANGED <<cur, holder, called>> ELSE CallHandler(s, Head(l[s]))
  /\ UNCHANGED <<once, slot, made, version, l, emiting, call, stack, subscribed, emits, removes>>

(* Mutant: the emitter stops while operations are queued.                  *)
EmitEndsEarly(t, s) ==
  /\ Emitting(t, s)
  /\ emiting' = emiting \ {s}
  /\ holder' = Nil
  /\ stack' = [stack EXCEPT ![t] = Front(@)]
  /\ UNCHANGED <<once, slot, made, version, l, pendingOP, cur, call, subscribed, emits, removes, called>>

(* Mutant: emit returns without unlocking the slot.                        *)
EmitEndsLocked(t, s) ==
  /\ Emitting(t, s)
  /\ pendingOP[s] = <<>>
  /\ emiting' = emiting \ {s}
  /\ stack' = [stack EXCEPT ![t] = Front(@)]
  /\ UNCHANGED <<once, slot, made, version, l, pendingOP, cur, holder, call, subscribed, emits,
                 removes, called>>

(* emit ends when nothing is queued.                                       *)
EmitEnds(t, s) ==
  /\ Emitting(t, s)
  /\ pendingOP[s] = <<>>
  /\ emiting' = emiting \ {s}
  /\ holder' = Nil
  /\ stack' = [stack EXCEPT ![t] = Front(@)]
  /\ UNCHANGED <<once, slot, made, version, l, pendingOP, cur, call, subscribed, emits, removes, called>>

(* The handle after h in the list of s, Nil at the tail.                   *)
nnextOf(s, h) == IF Place(s, h) = Len(l[s]) THEN Nil ELSE l[s][Place(s, h) + 1]

(* Mutant: a handle of RegisterOnce stays in the list.                     *)
CallbackReturnsKeepsOnce(t, s) ==
  /\ Running(t)
  /\ stack[t] # <<>>
  /\ s = Last(stack[t])
  /\ IF nnextOf(s, cur[s]) # Nil
     THEN CallHandler(s, nnextOf(s, cur[s]))
     ELSE /\ cur' = [cur EXCEPT ![s] = Nil]
          /\ holder' = s
          /\ UNCHANGED called
  /\ UNCHANGED <<once, slot, made, version, l, emiting, pendingOP, call, stack, subscribed, emits, removes>>

(* pcall2 returns: a handle of RegisterOnce is removed and the next one is *)
(* called, or the loop of emit goes on with the lock.                      *)
CallbackReturns(t, s) ==
  /\ Running(t)
  /\ stack[t] # <<>>
  /\ s = Last(stack[t])
  /\ IF cur[s] \in once THEN doRemove(s, cur[s]) ELSE UNCHANGED <<version, l>>
  /\ IF nnextOf(s, cur[s]) # Nil
     THEN CallHandler(s, nnextOf(s, cur[s]))
     ELSE /\ cur' = [cur EXCEPT ![s] = Nil]
          /\ holder' = s
          /\ UNCHANGED called
  /\ UNCHANGED <<once, slot, made, emiting, pendingOP, call, stack, subscribed, emits, removes>>

EmitterStep(t) ==
  \E s \in Slots : PopOther(t, s) \/ PopEmit(t, s) \/ EmitEnds(t, s) \/ CallbackReturns(t, s)

EventNext ==
  \E t \in Goroutines :
    \/ \E h \in Handles : Register(t, h) \/ RemoveLook(t, h)
    \/ Clear(t) \/ remove(t) \/ Emit(t) \/ emit(t) \/ EmitterStep(t)

EventSpec == EventInit /\ [][EventNext]_eventVars

-----------------------------------------------------------------------------

Ops == {<<"emit">>} \cup ({"delete", "register"} \X Handles)

EventTypeOK ==
  /\ once \subseteq Handles
  /\ slot \in made \cup {Nil}
  /\ made \subseteq Slots
  /\ version \in [Handles -> Slots \cup {Nil}]
  /\ l \in [Slots -> Seq(Handles)]
  /\ emiting \subseteq made
  /\ pendingOP \in [Slots -> Seq(Ops)]
  /\ cur \in [Slots -> Handles \cup {Nil}]
  /\ holder \in emiting \cup {Nil}
  /\ stack \in [Goroutines -> Seq(Slots)]
  /\ subscribed \subseteq Handles
  /\ emits \in 0..MaxEmits
  /\ removes \in 0..MaxRemoves
  /\ called \in [Handles -> Nat]

(* A handle is in the list of the slot whose version it has, once, and in  *)
(* no other list; and the handle whose callback is running is still in the *)
(* list, so that the link to the next one is there when it returns,        *)
(* whatever was removed and registered meanwhile.  The variables have      *)
(* their types throughout.                                                 *)
CurrentLinked ==
  /\ EventTypeOK
  /\ \A s \in Slots :
       /\ \A h \in Handles : version[h] = s <=> Contains(l[s], h)
       /\ \A i, j \in DOMAIN l[s] : l[s][i] = l[s][j] => i = j
       /\ cur[s] # Nil => Contains(l[s], cur[s])

(* A handler given to RegisterOnce is called once at most, also when it    *)
(* emits the event itself, is removed, or several goroutines emit.         *)
OnceAtMostOnce == \A h \in once : called[h] <= 1

(* What was queued while a slot was emitting is carried out: nothing is    *)
(* left when the emitter has gone (the comment in emit: the one who emits  *)
(* must carry out all of pendingOP).                                       *)
NothingLeftQueued == \A s \in Slots : s \notin emiting => pendingOP[s] = <<>>

(* Both, as one run checks them.                                           *)
CarriedOutOnce == NothingLeftQueued /\ OnceAtMostOnce
=============================================================================
