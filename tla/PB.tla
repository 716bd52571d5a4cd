--------------------------------- MODULE PB ---------------------------------
(***************************************************************************)
(* The packets of example/pb/pb.go: a header with the size of what         *)
(* follows, the number of the message's type, and the message as protobuf  *)
(* marshals it.  A message is its type and its marshalled bytes.           *)
(***************************************************************************)
EXTENDS Bytes

CONSTANT Registered   \* the numbers given to Register; 0 stands for a type that has none

PBHeaderSize == 4
pbIdSize == 4

(* The test of newMessage.                                                 *)
Known(id) == id \in Registered

(* What Encode leaves in the buffer b.  An unregistered type is an error,  *)
(* which does not stop it; a message that is too large is left out.        *)
Encode(m, b, maxMsgSize) ==
  IF Len(m.data) > maxMsgSize
  THEN [b |-> b, ok |-> FALSE]
  ELSE [b  |-> AppendBytes(AppendUint(AppendUint(b, pbIdSize + Len(m.data), 4), m.type, 4), m.data),
        ok |-> Known(m.type)]

Nothing == [type |-> 0, data |-> <<>>]

Result(msg, size, err) == [msg |-> msg, size |-> size, err |-> err]

(* Decode of the bytes from start to end.  Without an error and without a  *)
(* message it needs more bytes: size in all, or 0 if the header, which     *)
(* says how many, is not there yet.  proto.Unmarshal, which is external,   *)
(* takes what Marshal made of a message of that type; its error, returned  *)
(* like that of an unregistered type, does not occur here.                 *)
Decode(buff, start, end, maxMsgSize) ==
  LET rd == NewReader(SubSeq(buff, start + 1, end))
      header == GetUint32(rd)
      id == GetUint32(header.rd)
      size == header.ret + PBHeaderSize
  IN  CASE end - start < PBHeaderSize -> Result(Nothing, 0, "nil")
        [] header.ret > maxMsgSize    -> Result(Nothing, 0, "size")
        [] header.ret = 0             -> Result(Nothing, 0, "empty")
        [] size > end - start         -> Result(Nothing, size, "nil")
        [] ~Known(id.ret)             -> Result(Nothing, size, "type")
        [] OTHER -> Result([type |-> id.ret, data |-> GetBytes(id.rd, size - PBHeaderSize - pbIdSize).ret],
                           size, "nil")
=============================================================================
