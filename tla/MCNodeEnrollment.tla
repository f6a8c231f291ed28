-------------------------- MODULE MCNodeEnrollment --------------------------
(* NodeEnrollment for TLC. *)
EXTENDS NodeEnrollment
=============================================================================
