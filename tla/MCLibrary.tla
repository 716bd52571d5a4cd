----------------------------- MODULE MCLibrary ------------------------------
(* The parts without a liveness property, for TLC: rpc, the event handler, *)
(* and the libraries the rest is built on.  A behaviour is one of the part *)
(* it begins with, and the others stay as they are.                        *)
EXTENDS RPC, EventHandler, Logger, Listener, TLC

CONSTANTS
  Parts,   \* the parts, by the names below
  c1, c2,  \* channels of rpc
  h1       \* a handle of the event handler

VARIABLES
  part,
  h,
  tail, count, freeItems, freeCount, v, queued,
  calls, calibrating, defaultSize, maxSize, kept, pc, buff, i, a, chosen, basis, puts,
  bs, values, rd, reading, got,
  kind, stream, wire, buffer, w, r, borrowed, phase, err, unpacked

heapVars == <<h>>
queueVars == <<tail, count, freeItems, freeCount, v, queued>>
poolVars == <<calls, calibrating, defaultSize, maxSize, kept, pc, buff, i, a, chosen, basis, puts>>
bufVars == <<bs, values, rd, reading, got>>
recvVars == <<kind, stream, wire, buffer, w, r, borrowed, phase, err, unpacked>>

mcVars == <<part, vars, eventVars, heapVars, queueVars, poolVars, bufVars, recvVars, loggerVars, listenerVars>>

-----------------------------------------------------------------------------
(* rpc: the server with one channel; the failures of the client with two.  *)
MCEnvs == {[has |-> {"server"}, channels |-> {c1}],
           [has |-> {"sendfail"}, channels |-> {c1, c2}],
           [has |-> {"disconnect"}, channels |-> {c1, c2}]}

(* The event handler: all handles are permanent, or one of them is called  *)
(* once only.                                                              *)
MCOnces == {{}, {h1}}

Heap == INSTANCE MinHeap WITH Elements <- {"e1", "e2", "e3", "e4"}, Keys <- 1..3

Tasks == INSTANCE LinkList WITH
           Tasks <- {"a", "b"},
           ListItems <- {"i1", "i2", "i3"},
           MaxCacheItemCount <- 1,
           Nil <- "nil"

Pool == INSTANCE BufferPool WITH
          pool <- kept,
          Threads <- Goroutines,
          Lens <- {2, 3, 8, 9},
          Caps <- {4, 16},
          MinBitSize <- 1,
          Steps <- 3,
          CallsThreshold <- 1,
          Percentile <- 50,
          MaxPuts <- 4

(* Bytes of two bits; the strings are empty and longer than a number.      *)
Buf == INSTANCE Buffer WITH Base <- 4, MaxValues <- 2, Strings <- {<<>>, <<3, 1, 2>>}

Message(type, n, byte) == [type |-> type, data |-> [k \in 1..n |-> byte]]

(* Messages that are empty, unregistered, as large as the two sides agree  *)
(* on, and larger.                                                         *)
MCStreams ==
  {<<Message(1, 0, 0), Message(2, 8, 7)>>,
   <<Message(1, 3, 5), Message(0, 1, 1), Message(2, 1, 9), Message(1, 8, 1)>>,
   <<Message(2, 2, 2), Message(1, 13, 1), Message(1, 10, 3)>>}

Receive == INSTANCE Receiver WITH
             Base <- 256,
             Registered <- {1, 2},
             Processors <- {"pb", "share"},
             Streams <- MCStreams,
             MaxMsgSize <- 12,
             InitialSize <- 8,
             PoolBuffSize <- 40,
             SplitHeaders <- FALSE

Setting(lv, pl, std, file) == [level |-> lv, panicLevel |-> pl, std |-> std, file |-> file]

MCSettings ==
  {Setting(1, 2, FALSE, TRUE), Setting(0, 2, TRUE, FALSE), Setting(0, 1, FALSE, FALSE)}

(* Two lines fill a file.                                                  *)
MCLength == [g \in Loggers |-> 2]

-----------------------------------------------------------------------------
(* The state of a part that does not run is fixed.                         *)
MCInit ==
  /\ part \in Parts
  /\ Init /\ (part # "rpc" => env.has = {"server"})
  /\ EventInit /\ (part # "events" => once = {})
  /\ Heap!Init /\ (part # "heap" => \A e \in DOMAIN h.key : h.key[e] = 1)
  /\ Tasks!Init
  /\ Pool!Init
  /\ Buf!Init
  /\ Receive!Init /\ (part # "receiver" => kind = "pb" /\ Len(stream) = 2)
  /\ LogInit /\ (part # "log" => set.file /\ ~faulty /\ \A g \in DOMAIN at : at[g] = 0)
  /\ ListenerInit /\ (part # "listener" => http)

MCNext ==
  \/ /\ part = "rpc" /\ Next
     /\ UNCHANGED <<part, eventVars, heapVars, queueVars, poolVars, bufVars, recvVars, loggerVars, listenerVars>>
  \/ /\ part = "events" /\ EventNext
     /\ UNCHANGED <<part, vars, heapVars, queueVars, poolVars, bufVars, recvVars, loggerVars, listenerVars>>
  \/ /\ part = "heap" /\ Heap!Next
     /\ UNCHANGED <<part, vars, eventVars, queueVars, poolVars, bufVars, recvVars, loggerVars, listenerVars>>
  \/ /\ part = "list" /\ Tasks!Next
     /\ UNCHANGED <<part, vars, eventVars, heapVars, poolVars, bufVars, recvVars, loggerVars, listenerVars>>
  \/ /\ part = "pool" /\ Pool!Next
     /\ UNCHANGED <<part, vars, eventVars, heapVars, queueVars, bufVars, recvVars, loggerVars, listenerVars>>
  \/ /\ part = "buffer" /\ Buf!Next
     /\ UNCHANGED <<part, vars, eventVars, heapVars, queueVars, poolVars, recvVars, loggerVars, listenerVars>>
  \/ /\ part = "receiver" /\ Receive!Next
     /\ UNCHANGED <<part, vars, eventVars, heapVars, queueVars, poolVars, bufVars, loggerVars, listenerVars>>
  \/ /\ part = "log" /\ LogNext
     /\ UNCHANGED <<part, vars, eventVars, heapVars, queueVars, poolVars, bufVars, recvVars, listenerVars>>
  \/ /\ part = "listener" /\ ListenerNext
     /\ UNCHANGED <<part, vars, eventVars, heapVars, queueVars, poolVars, bufVars, recvVars, loggerVars>>

MCSpec == MCInit /\ [][MCNext]_mcVars

(* Neither calls nor workers of rpc are told apart, nor goroutines of the  *)
(* event handler and the buffer pool.  The goroutines are named like the   *)
(* calls, which are of another part: that saves TLC permutations.          *)
Symmetry == Permutations(Calls) \cup Permutations(Workers)

-----------------------------------------------------------------------------
(* MinHeap: the least element is first, and every element knows its place. *)
HeapSound == part = "heap" => Heap!HeapSound

(* LinkList: the list returns tasks in the order in which they were        *)
(* pushed, and no item is in use and in the cache.                         *)
ListIsQueue == part = "list" => Tasks!ListIsQueue

(* BufferPool: calibrate chooses sizes that fit what was counted.          *)
Calibrated == part = "pool" => Pool!Calibrated

(* Buffer: values are read back as they were written.                      *)
ReadsBack == part = "buffer" => Buf!ReadsBack

(* Receiver: messages are unpacked in order and completely, wherever the   *)
(* reads end.                                                              *)
UnpackedInOrder == part = "receiver" => Receive!UnpackedInOrder

(* Receiver: there is room to read into, and a buffer of the pool is       *)
(* released once.                                                          *)
ReceiveBufferSound == part = "receiver" => Receive!ReceiveBufferSound
=============================================================================
