---- MODULE MCBackgroundWork ----
(* Three jobs of different kinds, in the order of their ids. *)
EXTENDS BackgroundWork

ThreeJobs == 1..3
ThreeKinds == <<"upgrade", "backup", "profile_switch">>
====
