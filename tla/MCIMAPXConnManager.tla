------------------------- MODULE MCIMAPXConnManager -------------------------
(* IMAPXConnManager on small instances: MCIMAPXConnManager.cfg,            *)
(* MCIMAPXProgress.cfg and MCIMAPXWakeup.cfg.                              *)
EXTENDS IMAPXConnManager, TLC

Symmetry == Permutations(GetMessages)
=============================================================================
