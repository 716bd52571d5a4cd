-------------------------------- MODULE RPC ---------------------------------
(***************************************************************************)
(* The client and the server of rpc/ with the channel between them.        *)
(***************************************************************************)
EXTENDS RPCClient, RPCServer

vars == <<channelVars, clientVars, serverVars>>

Init == ChannelInit /\ ClientInit /\ ServerInit

(* What a client sees of any server that keeps RepliesCounted: a request is*)
(* answered once or not at all.  It stands for RPCServer in the behaviours *)
(* that are about the client's failures only.                              *)
AnyServer ==
  /\ "server" \notin env.has
  /\ \E m \in requests :
       /\ requests' = requests \ {m}
       /\ responses' = responses \cup (IF m.needResp THEN {m.seq} ELSE {})

Next ==
  \/ ClientNext /\ UNCHANGED serverVars
  \/ "server" \in env.has /\ ServerNext /\ UNCHANGED clientVars
  \/ AnyServer /\ UNCHANGED <<clientVars, serverVars>>

Spec == Init /\ [][Next]_vars

(* One type invariant for both sides.                                      *)
TypeOK ==
  /\ requests \subseteq Request
  /\ responses \subseteq Calls
  /\ ClientTypeOK
  /\ ServerTypeOK

(* The client's contexts: one is released once at most, and the map, the   *)
(* lists of the channels and the contexts agree.                           *)
ContextsMatch == TypeOK /\ ReleasedOnce /\ ListsMatch
=============================================================================
