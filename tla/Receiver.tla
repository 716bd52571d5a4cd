------------------------------ MODULE Receiver ------------------------------
(***************************************************************************)
(* The receive side of a session that carries packets of example/pb:       *)
(* PBReceiver of example/codec/pb.go, with a buffer of its own, and        *)
(* InBoundProcessor of example/aio/aio_sharebuffer.go, which borrows a     *)
(* buffer of a pool while data arrives and makes one only for a packet     *)
(* that is not complete.  The session calls Unpack until it returns no     *)
(* message, then reads once, into what GetRecvBuff returns.                *)
(*                                                                         *)
(* The network delivers the encoded messages in pieces of any size.        *)
(***************************************************************************)
EXTENDS PB, Bitwise, SequencesExt

CONSTANTS
  Processors,    \* the kinds of processor: "pb", "share"
  Streams,       \* the sequences of messages that are sent
  MaxMsgSize,    \* of both sides
  InitialSize,   \* the first size of PBReceiver's buffer
  PoolBuffSize,
  SplitHeaders   \* whether "share" also meets a read that ends inside a header

VARIABLES
  kind,
  stream,     \* the messages sent
  wire,       \* what is to be received of them
  buffer, w, r,
  borrowed,   \* the buffers taken from the pool and not released
  phase,      \* "unpack", "read", "error", "closed" or "dropped"
  err,
  unpacked    \* history: the messages Unpack has returned

receiverVars == <<kind, stream, wire, buffer, w, r, borrowed, phase, err, unpacked>>

(* The messages that Encode accepts, and their packets.                    *)
Accepted(ms) == SelectSeq(ms, LAMBDA m : Encode(m, <<>>, MaxMsgSize).ok)

Packets(ms) == FoldLeft(LAMBDA b, m : Encode(m, b, MaxMsgSize).b, <<>>, ms)

Init ==
  /\ kind \in Processors
  /\ stream \in Streams
  /\ wire = Packets(Accepted(stream))
  /\ buffer = IF kind = "pb" THEN [k \in 1..InitialSize |-> 0] ELSE <<>>
  /\ w = 0
  /\ r = 0
  /\ borrowed = 0
  /\ phase = "unpack"
  /\ err = "nil"
  /\ unpacked = <<>>

-----------------------------------------------------------------------------
isPow2(size) == size & (size - 1) = 0

Smear(size, k) == size | (size \div 2 ^ k)

sizeofPow2(size) ==
  IF isPow2(size) THEN size ELSE FoldLeft(Smear, size - 1, <<1, 2, 4, 8, 16>>) + 1

(* Put bs in the buffer buff from place n on.                              *)
Copy(buff, n, bs) == [k \in 1..Len(buff) |-> IF k \in n + 1..n + Len(bs) THEN bs[k - n] ELSE buff[k]]

Unread == SubSeq(buffer, r + 1, w)

(* Mutant: the larger buffer starts empty.                                 *)
MakeRoomNoCopy(size) ==
  buffer' = IF size > Len(buffer) THEN [k \in 1..sizeofPow2(size) |-> 0] ELSE Copy(buffer, 0, Unread)

(* PBReceiver.Unpack when a packet is not complete: its bytes move to the  *)
(* front, of a larger buffer if they would not fit.                        *)
MakeRoom(size) ==
  buffer' = IF size > Len(buffer)
            THEN Copy([k \in 1..sizeofPow2(size) |-> 0], 0, Unread)
            ELSE Copy(buffer, 0, Unread)

(* Release takes back the buffers of the pool, told by their capacity.     *)
Release(buff) == borrowed' = IF Len(buff) = PoolBuffSize THEN borrowed - 1 ELSE borrowed

(* Mutant: the buffer of the pool is not released when it is replaced.     *)
MakeBufferKeeps(size) ==
  /\ UNCHANGED borrowed
  /\ buffer' = Copy([k \in 1..size |-> 0], 0, Unread)

(* InBoundProcessor.Unpack when a packet is not complete: its bytes go to  *)
(* a buffer of exactly its size.                                           *)
MakeBuffer(size) ==
  /\ Release(buffer)
  /\ buffer' = Copy([k \in 1..size |-> 0], 0, Unread)

(* Unpack has returned a message of size bytes.                            *)
Consume(size) ==
  IF r + size = w
  THEN /\ r' = 0
       /\ w' = 0
       /\ IF kind = "share" THEN Release(buffer) /\ buffer' = <<>> ELSE UNCHANGED <<buffer, borrowed>>
  ELSE /\ r' = r + size
       /\ UNCHANGED <<w, buffer, borrowed>>

Unpack ==
  LET d == Decode(buffer, r, w, MaxMsgSize)
  IN  /\ phase = "unpack"
      /\ \/ /\ r = w
            /\ phase' = "read"
            /\ UNCHANGED <<buffer, w, r, borrowed, err, unpacked>>
         \/ /\ r # w
            /\ d.msg # Nothing
            /\ unpacked' = Append(unpacked, d.msg)
            /\ Consume(d.size)
            /\ UNCHANGED <<phase, err>>
         \/ /\ r # w
            /\ d.err # "nil"
            /\ err' = d.err
            /\ phase' = "error"
            /\ UNCHANGED <<buffer, w, r, borrowed, unpacked>>
         \/ /\ r # w
            /\ d.msg = Nothing /\ d.err = "nil"
            /\ IF kind = "pb" THEN MakeRoom(d.size) /\ UNCHANGED borrowed ELSE MakeBuffer(d.size)
            /\ w' = w - r
            /\ r' = 0
            /\ phase' = "read"
            /\ UNCHANGED <<err, unpacked>>
      /\ UNCHANGED <<kind, stream, wire>>

-----------------------------------------------------------------------------
(* A buffer without length asks the session for one of the pool.           *)
ShareMode == kind = "share" /\ buffer = <<>>

GetRecvBuff == SubSeq(buffer, w + 1, Len(buffer))

Room == IF ShareMode THEN PoolBuffSize ELSE Len(GetRecvBuff)

(* The first n bytes of the wire end inside the header of a packet.        *)
EndsInHeader(n) ==
  LET sent == Accepted(stream)
      pos == Len(Packets(sent)) - Len(wire) + n
  IN  \E k \in 0..Len(sent) - 1 : pos - Len(Packets(SubSeq(sent, 1, k))) \in 1..PBHeaderSize - 1

(* A read of n bytes, and OnData.                                          *)
Receive(n) ==
  /\ phase = "read"
  /\ n <= Room
  /\ n <= Len(wire)
  /\ kind = "share" /\ ~SplitHeaders => ~EndsInHeader(n)
  /\ LET data == SubSeq(wire, 1, n)
     IN  IF ShareMode
         THEN /\ buffer' = Copy([k \in 1..PoolBuffSize |-> 0], 0, data)
              /\ borrowed' = borrowed + 1
         ELSE /\ buffer' = Copy(buffer, w, data)
              /\ UNCHANGED borrowed
  /\ w' = w + n
  /\ wire' = SubSeq(wire, n + 1, Len(wire))
  /\ phase' = "unpack"
  /\ UNCHANGED <<kind, stream, r, err, unpacked>>

(* The session is closed, perhaps by the callback of a message with others *)
(* still in the buffer, and no read is going on.                           *)
OnSocketClose ==
  /\ phase \in {"unpack", "read", "error"}
  /\ phase' = "closed"
  /\ IF kind = "share" THEN Release(buffer) ELSE UNCHANGED borrowed
  /\ UNCHANGED <<kind, stream, wire, buffer, w, r, err, unpacked>>

(* The session is closed, and then a read completes: OnData is not called, *)
(* so nobody releases a buffer of the pool that was read into.             *)
ReceiveClosed ==
  /\ phase = "read"
  /\ wire # <<>>
  /\ phase' = "dropped"
  /\ IF ShareMode
     THEN borrowed' = borrowed + 1
     ELSE IF kind = "share" THEN Release(buffer) ELSE UNCHANGED borrowed
  /\ UNCHANGED <<kind, stream, wire, buffer, w, r, err, unpacked>>

Next == Unpack \/ OnSocketClose \/ ReceiveClosed \/ (\E n \in 1..Len(wire) : Receive(n))

Spec == Init /\ [][Next]_receiverVars

-----------------------------------------------------------------------------
(* Wherever the reads end, the messages unpacked are the messages accepted *)
(* by Encode, in order; all of them when nothing is left to receive.  The  *)
(* one reason to refuse a packet is its size: Decode counts the number of  *)
(* the type in, Encode does not.                                           *)
UnpackedInOrder ==
  LET sent == Accepted(stream)
  IN  /\ IsPrefix(unpacked, sent)
      /\ phase = "read" /\ wire = <<>> => unpacked = sent
      /\ phase = "error" => pbIdSize + Len(sent[Len(unpacked) + 1].data) > MaxMsgSize

(* There is always room to read into, so that a session that waits for the *)
(* rest of a packet is not left with reads of no bytes; and a buffer of    *)
(* the pool that OnData was given is released once and only once, whether  *)
(* a packet uses it up, is copied out of it, or the session is closed with *)
(* packets in it.  The one buffer that is never released is the one that a *)
(* read filled after Close, which the session does not pass on.            *)
ReceiveBufferSound ==
  /\ phase = "read" => Room > 0
  /\ r <= w
  /\ borrowed = IF \/ kind = "share" /\ Len(buffer) = PoolBuffSize /\ phase \notin {"closed", "dropped"}
                   \/ ShareMode /\ phase = "dropped"
                THEN 1 ELSE 0
=============================================================================
