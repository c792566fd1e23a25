----------------------------- MODULE MCWSServer -----------------------------
(***************************************************************************)
(* Small instances of WSServer (more requests than slots, two shards) and  *)
(* of Broadcast (more connections than goroutines).  Which of them a       *)
(* behaviour is about is chosen at the start; the other stands still in    *)
(* its initial state, where its fairness asks for nothing.                 *)
(***************************************************************************)
EXTENDS WSServer, Broadcast

VARIABLE which

MCInit == which \in {"server", "broadcast"} /\ Init /\ BInit

MCNext ==
  /\ UNCHANGED which
  /\ \/ which = "server" /\ Next /\ UNCHANGED bvars
     \/ which = "broadcast" /\ BNext /\ UNCHANGED vars

MCSpec == MCInit /\ [][MCNext]_<<which, vars, bvars>> /\ Fairness /\ BFairness
=============================================================================
