-------------------------------- MODULE MCVmm --------------------------------
(* Vmm with seven pages and three levels of tables of two entries.  The      *)
(* virtual pages share tables down to the last level, one level less, and    *)
(* none but the root.                                                        *)
EXTENDS Vmm, TLC

CONSTANTS f1, f2, f3, f4, f5, f6, f7, t1, t2

MCFrames  == {f1, f2, f3, f4, f5, f6, f7}
MCTargets == {t1, t2}
MCVPages  == {<<0, 0, 0>>, <<0, 0, 1>>, <<0, 1, 0>>, <<1, 0, 0>>}
Symmetry  == Permutations(MCFrames) \union Permutations(MCTargets)
=============================================================================
