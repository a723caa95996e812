------------------------------ MODULE MCTransfer ------------------------------
(* Instances of Transfer for TLC: a file of two chunks and a few versions. *)
EXTENDS Transfer
=============================================================================
