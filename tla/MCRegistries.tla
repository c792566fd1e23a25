---- MODULE MCRegistries ----
(* The four registries on small sets: see README, registries. *)
EXTENDS Registries
====
