---------------------------- MODULE MCEnrollment ----------------------------
(* Enrolment of two routers from a pool of two addresses. *)
EXTENDS Enrollment
=============================================================================
