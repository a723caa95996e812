---------------------------- MODULE MCProcessGuard ----------------------------
(* Two launches and two guards, so that a model left by a killed guard   *)
(* meets both a restart of its own supervisor and the next launch.         *)
EXTENDS ProcessGuard
=============================================================================
