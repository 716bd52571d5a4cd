---------------------------- MODULE MCEventQueue ----------------------------
(* Instance of EventQueue for TLC.                                         *)
EXTENDS EventQueue

(* Below, within and above the priorities the queue has.                   *)
MCPriorities == {-1, 0, 1, 2}
=============================================================================
