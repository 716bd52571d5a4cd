------------------------------- MODULE Lists --------------------------------
(***************************************************************************)
(* Sequences as lists: four operators of the community module SequencesExt.*)
(* That module brings many more with it, and a module that extends it is   *)
(* slow to prove about.                                                    *)
(***************************************************************************)
EXTENDS Integers, Sequences

Contains(s, e) == \E i \in 1..Len(s) : s[i] = e

Last(s) == s[Len(s)]

Front(s) == SubSeq(s, 1, Len(s) - 1)

RemoveAt(s, i) == SubSeq(s, 1, i - 1) \o SubSeq(s, i + 1, Len(s))
=============================================================================
