------------------------------- MODULE Buffer -------------------------------
(***************************************************************************)
(* A Buffer that is filled value by value, cut and patched between values, *)
(* and then read with the getters of the same types.                       *)
(***************************************************************************)
EXTENDS Bytes, SequencesExt

CONSTANTS
  MaxValues,  \* bound: values in the buffer
  Strings     \* the strings and byte slices appended

VARIABLES
  bs,       \* the Buffer
  values,   \* history: the values in it, with their types
  rd,       \* the BufferReader
  reading,
  got       \* history: what the getters have returned

bufferVars == <<bs, values, rd, reading, got>>

(* The types, with their width in bytes.                                   *)
Unsigneds == {1, 2, 4, 8}
Signeds == {2, 4, 8}

Entry(type, w, v) == [type |-> type, w |-> w, v |-> v]

Width(vals) == FoldLeft(LAMBDA n, x : n + x.w, 0, vals)

Init ==
  /\ bs = <<>>
  /\ values = <<>>
  /\ rd = NewReader(<<>>)
  /\ reading = FALSE
  /\ got = <<>>

Store(x, newbs) ==
  /\ ~reading
  /\ Len(values) < MaxValues
  /\ values' = Append(values, x)
  /\ bs' = newbs
  /\ UNCHANGED <<rd, reading, got>>

(* The values at the edges of a type.                                      *)
AppendUnsigned ==
  \E w \in Unsigneds : \E u \in {0, 1, Base ^ w - 1} : Store(Entry("uint", w, u), AppendUint(bs, u, w))

AppendSignedValue ==
  \E w \in Signeds : \E v \in {-(Base ^ w \div 2), -1, 1, Base ^ w \div 2 - 1} :
    Store(Entry("int", w, v), AppendSigned(bs, v, w))

AppendString ==
  \E s \in Strings : Store(Entry("bytes", Len(s), s), AppendBytes(bs, s))

(* A length or count, written when it is known.                            *)
Patch ==
  \E k \in 1..Len(values) :
    /\ ~reading
    /\ values[k].type = "uint" /\ values[k].w = 4
    /\ values' = [values EXCEPT ![k] = Entry("uint", 4, Base + 1)]
    /\ bs' = SetUint32(bs, Width(SubSeq(values, 1, k - 1)), Base + 1)
    /\ UNCHANGED <<rd, reading, got>>

Truncate ==
  \E k \in 0..Len(values) :
    /\ ~reading
    /\ values' = SubSeq(values, 1, k)
    /\ bs' = SetLen(bs, Width(values'))
    /\ UNCHANGED <<rd, reading, got>>

Drop ==
  \E k \in 1..Len(values) :
    /\ ~reading
    /\ values' = SubSeq(values, k + 1, Len(values))
    /\ bs' = DropFirstNBytes(bs, Width(SubSeq(values, 1, k)))
    /\ UNCHANGED <<rd, reading, got>>

BeginReading ==
  /\ ~reading
  /\ reading' = TRUE
  /\ rd' = NewReader(bs)
  /\ UNCHANGED <<bs, values, got>>

(* The getters of the type of x.                                           *)
Getters(x) ==
  CASE x.type = "uint" /\ x.w = 1 -> {GetByte(rd)}
    [] x.type = "uint" /\ x.w = 2 -> {GetUint16(rd)}
    [] x.type = "uint" /\ x.w = 4 -> {GetUint32(rd), GetInt(rd)}
    [] x.type = "uint" /\ x.w = 8 -> {GetUint64(rd)}
    [] x.type = "int" /\ x.w = 2  -> {GetInt16(rd)}
    [] x.type = "int" /\ x.w = 4  -> {GetInt32(rd)}
    [] x.type = "int" /\ x.w = 8  -> {GetInt64(rd)}
    [] x.type = "bytes"           -> {GetBytes(rd, x.w), CheckGetBytes(rd, x.w)}

GetNext ==
  /\ reading
  /\ Len(got) < Len(values)
  /\ LET x == values[Len(got) + 1]
     IN  \E g \in Getters(x) :
           /\ rd' = g.rd
           /\ got' = Append(got, Entry(x.type, x.w, g.ret))
  /\ UNCHANGED <<bs, values, reading>>

Next ==
  \/ AppendUnsigned \/ AppendSignedValue \/ AppendString
  \/ Patch \/ Truncate \/ Drop \/ BeginReading \/ GetNext

Spec == Init /\ [][Next]_bufferVars

-----------------------------------------------------------------------------
(* Values are read back as they were written, negative ones and the        *)
(* largest included, whatever was cut off or patched before; and at every  *)
(* point a getter of more bytes than are left returns zero, or             *)
(* ErrBeyondSize, and leaves the reader where it is.                       *)
ReadsBack ==
  /\ IsPrefix(got, values)
  /\ reading =>
       /\ rd.offset = Width(got)
       /\ GetAll(rd) = SubSeq(bs, Width(got) + 1, Len(bs))
       /\ IsOver(rd) <=> Width(got) = Len(bs)
       /\ \A w \in Unsigneds \cup Signeds :
            Width(values) - Width(got) < w =>
              /\ GetUint(rd, w) = [rd |-> rd, ret |-> 0, ok |-> FALSE]
              /\ ~CheckGetBytes(rd, w).ok
              /\ GetBytes(rd, w).ret = GetAll(rd)
=============================================================================
