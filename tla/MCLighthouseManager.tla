------------------------ MODULE MCLighthouseManager ------------------------
(* LighthouseManager for TLC. *)
EXTENDS LighthouseManager
=============================================================================
