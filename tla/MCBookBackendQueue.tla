------------------------- MODULE MCBookBackendQueue -------------------------
(* BookBackendQueue on a small instance with a concurrent dispatch queue,  *)
(* see MCBookBackendQueue.cfg.                                             *)
EXTENDS BookBackendQueue, TLC
=============================================================================
