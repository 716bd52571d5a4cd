----------------------------- MODULE MCCondImpl -----------------------------
(* Instances of CondImpl for TLC.                                          *)
EXTENDS CondImpl

CONSTANT t1

(* Behaviours without timed waits, and with a goroutine that makes them.    *)
MCTimedSets == {{}, {t1}}
=============================================================================
