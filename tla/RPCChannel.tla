----------------------------- MODULE RPCChannel -----------------------------
(***************************************************************************)
(* What the client and the server of rpc/ see of a channel (RPCChannel in  *)
(* rpc/rpc.go, implemented by the program that uses the library): requests *)
(* and responses in flight.  They may be handled by any goroutine, so in   *)
(* any order.                                                              *)
(***************************************************************************)
EXTENDS Integers, FiniteSets

CONSTANTS
  Calls,  \* the calls and posts of a run, by sequence number
  None    \* nil

VARIABLES
  requests,   \* in flight: records [seq, needResp]
  responses   \* in flight: sequence numbers

channelVars == <<requests, responses>>

Request == [seq: Calls, needResp: BOOLEAN]

ChannelInit ==
  /\ requests = {}
  /\ responses = {}
=============================================================================
