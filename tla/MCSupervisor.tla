----------------------------- MODULE MCSupervisor -----------------------------
(* Instances of Supervisor for TLC: one or two aliases, one to three       *)
(* request threads, few process identities.                                *)
EXTENDS Supervisor, TLC

Symmetry == Permutations(Clients) \cup Permutations(Alias)
===============================================================================
