--------------------------- MODULE MCStreamSocket ---------------------------
(* Instances of StreamSocket for TLC.                                      *)
EXTENDS StreamSocket, TLC

(* No timeouts, which differ from errors in what happens to the data: they *)
(* are in the run about the data.                                          *)
Opt(c, methods) == [errorCallback |-> c, sendTimeout |-> FALSE, recvTimeout |-> FALSE, ops |-> methods]

SendOnly == {Opt(FALSE, {"Send"})}

SendAndClose == {Opt(FALSE, {"Send", "CloseDelay"})}

(* Everything that starts and ends the goroutines of the session; and      *)
(* direct sends beside the queue.                                          *)
Closes ==
  {Opt(c, AllOps \ {"DirectSend"}) : c \in BOOLEAN}
    \cup {Opt(TRUE, {"Send", "DirectSend", "Close"})}

Symmetry == Permutations(Users)
=============================================================================
