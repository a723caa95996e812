-------------------------- MODULE MCDownloadRegistry --------------------------
(* Instances of DownloadRegistry for TLC: two files and one slot.          *)
EXTENDS DownloadRegistry, TLC

Symmetry == Permutations(Keys) \cup Permutations(Callers)
=============================================================================
