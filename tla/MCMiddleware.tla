---------------------------- MODULE MCMiddleware ----------------------------
(***************************************************************************)
(* One run for the two gRPC middlewares: which of them a behaviour is      *)
(* about is chosen at the start, and only its variables move.              *)
(***************************************************************************)
EXTENDS CircuitBreaker, RateLimiter

VARIABLE which

MCInit == which \in {"breaker", "limiter"} /\ Init /\ LInit

MCNext ==
  /\ UNCHANGED which
  /\ \/ which = "breaker" /\ Next /\ UNCHANGED lvars
     \/ which = "limiter" /\ LNext /\ UNCHANGED vars

\* Only the breaker has a liveness property.
MCSpec == MCInit /\ [][MCNext]_<<which, vars, lvars>> /\ Fairness
=============================================================================
