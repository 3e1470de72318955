---------------------------- MODULE MCBookCache ----------------------------
(* BookCache on a small instance, see MCBookCache.cfg.                     *)
EXTENDS BookCache, TLC

Symmetry == Permutations(Uids) \cup Permutations(Categories)
=============================================================================
