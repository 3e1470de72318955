------------------------- MODULE MCBookMetaBackend -------------------------
(* BookMetaBackend on small instances: MCBookMetaBackend.cfg and           *)
(* MCKeepServer.cfg.                                                       *)
EXTENDS BookMetaBackend, TLC

Symmetry == Permutations(Contents)
=============================================================================
