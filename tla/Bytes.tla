-------------------------------- MODULE Bytes --------------------------------
(***************************************************************************)
(* What the methods of Buffer and BufferReader in buffer/buffer.go do to   *)
(* the bytes.  A buffer is the sequence of its bytes, a reader a sequence  *)
(* and an offset.  The getters of BufferReader that return zero beyond the *)
(* end and the Check... getters, which return ErrBeyondSize, move the      *)
(* offset in the same cases; ok tells them apart.                          *)
(***************************************************************************)
EXTENDS Integers, Sequences

CONSTANT Base   \* how many values a byte has: 256, or fewer in small instances

(* The conversion of an integer, signed or not, to an unsigned one of w    *)
(* bytes, and back to a signed one.                                        *)
Unsigned(v, w) == v % Base ^ w

(* Mutant: the least signed integer comes out positive.                    *)
SignedOffByOne(u, w) == IF u <= Base ^ w \div 2 THEN u ELSE u - Base ^ w

Signed(u, w) == IF u < Base ^ w \div 2 THEN u ELSE u - Base ^ w

(* binary.BigEndian.                                                       *)
Put(u, w) == [k \in 1..w |-> (u \div Base ^ (w - k)) % Base]

Value(bs) ==
  LET val[k \in 0..Len(bs)] == IF k = 0 THEN 0 ELSE Base * val[k - 1] + bs[k]
  IN  val[Len(bs)]

-----------------------------------------------------------------------------
AppendBytes(bs, bytes) == bs \o bytes

AppendUint(bs, u, w) == AppendBytes(bs, Put(u, w))

(* AppendInt16, AppendInt32, AppendInt64 and, with w = 4, AppendInt.       *)
AppendSigned(bs, v, w) == AppendUint(bs, Unsigned(v, w), w)

SetUint32(bs, pos, u) ==
  [k \in 1..Len(bs) |-> IF k \in pos + 1..pos + 4 THEN Put(u, 4)[k - pos] ELSE bs[k]]

SetLen(bs, l) == IF l < Len(bs) THEN SubSeq(bs, 1, l) ELSE bs

DropFirstNBytes(bs, n) ==
  IF n > 0 /\ n <= Len(bs) THEN SubSeq(bs, n + 1, Len(bs)) ELSE bs

-----------------------------------------------------------------------------
NewReader(bs) == [bs |-> bs, offset |-> 0]

GetAll(rd) == SubSeq(rd.bs, rd.offset + 1, Len(rd.bs))

IsOver(rd) == rd.offset >= Len(rd.bs)

(* A getter returns the reader that it leaves, what it returns, and        *)
(* whether the Check... form returns no error.                             *)
Advance(rd, n) == [rd EXCEPT !.offset = @ + n]

GetUint(rd, w) ==
  IF rd.offset + w > Len(rd.bs)
  THEN [rd |-> rd, ret |-> 0, ok |-> FALSE]
  ELSE [rd |-> Advance(rd, w), ret |-> Value(SubSeq(rd.bs, rd.offset + 1, rd.offset + w)), ok |-> TRUE]

GetByte(rd) == GetUint(rd, 1)
GetUint16(rd) == GetUint(rd, 2)
GetUint32(rd) == GetUint(rd, 4)
GetUint64(rd) == GetUint(rd, 8)

Convert(g, w) == [g EXCEPT !.ret = Signed(@, w)]

GetInt16(rd) == Convert(GetUint16(rd), 2)
GetInt32(rd) == Convert(GetUint32(rd), 4)
GetInt64(rd) == Convert(GetUint64(rd), 8)

(* GetInt: the unsigned 32 bits as an int, which has 64.                   *)
GetInt(rd) == GetUint32(rd)

(* GetBytes and GetString return what there is.                            *)
GetBytes(rd, size) ==
  LET left == Len(rd.bs) - rd.offset
      n == IF left < size THEN left ELSE size
  IN  [rd |-> Advance(rd, n), ret |-> SubSeq(rd.bs, rd.offset + 1, rd.offset + n), ok |-> TRUE]

CheckGetBytes(rd, size) ==
  IF Len(rd.bs) - rd.offset < size
  THEN [rd |-> rd, ret |-> <<>>, ok |-> FALSE]
  ELSE GetBytes(rd, size)
=============================================================================
