------------------------ MODULE MCSubprocessFactory ------------------------
(* SubprocessFactory with two clients of one source, one of which calls    *)
(* twice.                                                                  *)
EXTENDS SubprocessFactory, TLC

CONSTANTS o1, o2, o3, c1, c2, s1

TheirClients == (o1 :> c1) @@ (o2 :> c1) @@ (o3 :> c2)
TheirSources == [o \in Opens |-> s1]
=============================================================================
