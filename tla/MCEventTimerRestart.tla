-------------------------- MODULE MCEventTimerRestart --------------------------
(* The scenarios of MCEventTimer with restarts. *)
EXTENDS MCEventTimer, EventTimerRestart
=============================================================================
