---- MODULE MCConfigBaseline ----
(* One router with a few configurations. *)
EXTENDS ConfigBaseline
====
