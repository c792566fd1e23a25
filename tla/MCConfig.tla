------------------------------ MODULE MCConfig ------------------------------
(* Two reloading goroutines and one reader over a file that is rewritten. *)
EXTENDS Config
=============================================================================
