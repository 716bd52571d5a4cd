---------------------------- MODULE MCAioSocket -----------------------------
(* Instance of AioSocket for TLC.                                          *)
EXTENDS AioSocket, TLC

(* What concerns the write side, and the receives with Close, each with    *)
(* sends going on.                                                         *)
MCOpSets == {{"Send", "DirectSend", "ShutdownWrite", "Close", "CloseDelay"},
             {"Send", "BeginRecv", "ShutdownRead", "Close"}}

Symmetry == Permutations(Users) \cup Permutations(Tasks)
=============================================================================
