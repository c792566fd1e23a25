------------------------------ MODULE Session ------------------------------
(***************************************************************************)
(* What an application sees of a reconnecting client: the link goes up and *)
(* down, every loss is owed exactly one call of the disconnect handler,    *)
(* and only the application's own Close takes the link down unreported,    *)
(* once.  WSClient is shown to implement it.                               *)
(***************************************************************************)
EXTENDS Naturals

VARIABLES up, owed, shut

Init == up = FALSE /\ owed = 0 /\ shut = FALSE

Open == ~up /\ up' = TRUE /\ UNCHANGED <<owed, shut>>
Lose == up /\ up' = FALSE /\ owed' = owed + 1 /\ UNCHANGED shut
Report == owed > 0 /\ owed' = owed - 1 /\ UNCHANGED <<up, shut>>
Shut == ~shut /\ shut' = TRUE /\ up' = FALSE /\ UNCHANGED owed

Next == Open \/ Lose \/ Report \/ Shut

Spec == Init /\ [][Next]_<<up, owed, shut>>
============================================================================
