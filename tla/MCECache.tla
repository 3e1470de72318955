------------------------------ MODULE MCECache ------------------------------
(* ECache on a small instance, see MCECache.cfg.                           *)
EXTENDS ECache, TLC

Symmetry == Permutations(Threads) \cup Permutations(Uids) \cup Permutations(Objects)
=============================================================================
