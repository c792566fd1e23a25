----------------------------- MODULE MCClients -----------------------------
(***************************************************************************)
(* One run for both clients: which of them a behaviour is about is chosen  *)
(* at the start, and only its variables move.                              *)
(***************************************************************************)
EXTENDS WSClient, GRPCClient

VARIABLE which

clients == <<which, wsvars, gvars>>

MCInit == which \in {"ws", "grpc"} /\ WSInit /\ GInit(which = "grpc")

MCNext ==
  /\ UNCHANGED which
  /\ \/ which = "ws" /\ WSNext /\ UNCHANGED gvars
     \/ which = "grpc" /\ GNext /\ UNCHANGED wsvars

MCSpec == MCInit /\ [][MCNext]_clients /\ WSFairness /\ GFairness
============================================================================
