------------------------------- MODULE MCKvCells -------------------------------
(* Instances of KvCells for TLC: the calls are on everything and on tails.  *)
EXTENDS KvCells, TLC

Everything == <<-1, -1>>
MCRanges   == {Everything, <<1, -1>>}
MCShifts   == {-1}
Symmetry   == Permutations(Seqs)
=============================================================================
