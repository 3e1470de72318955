--------------------------- MODULE MCDataFactory ---------------------------
(* DataFactory with two clients of one source, one of which calls twice,   *)
(* and a call for another source.                                          *)
EXTENDS DataFactory, TLC

CONSTANTS o1, o2, o3, o4, c1, c2, s1, s2

TheirClients == (o1 :> c1) @@ (o2 :> c1) @@ (o3 :> c2) @@ (o4 :> c2)
TheirSources == (o1 :> s1) @@ (o2 :> s1) @@ (o3 :> s1) @@ (o4 :> s2)
=============================================================================
