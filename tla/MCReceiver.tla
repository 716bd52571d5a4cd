----------------------------- MODULE MCReceiver -----------------------------
(* Instance of Receiver for TLC: reads may end inside a header.            *)
EXTENDS Receiver

MCStreams ==
  {<<[type |-> 1, data |-> <<>>], [type |-> 2, data |-> <<7, 7, 7>>]>>,
   <<[type |-> 2, data |-> <<1, 2>>], [type |-> 1, data |-> <<3>>], [type |-> 1, data |-> <<4>>]>>}
=============================================================================
