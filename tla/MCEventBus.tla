----------------------------- MODULE MCEventBus -----------------------------
(* A small instance of EventBus: one topic beside the wildcard.            *)
EXTENDS EventBus
=============================================================================
