---------------------------- MODULE MCWinboxRelay ----------------------------
(* A few connections of a few sources to a few routers. *)
EXTENDS WinboxRelay
=============================================================================
