--------------------------- MODULE MCLockService ---------------------------
(* lock_tester in small: three threads with a client each, two of which    *)
(* share one in test 5, and lock_demo; a dispatch thread for each tester.  *)
EXTENDS LockService, TLC

CONSTANTS c0, c1, c2, c3

MCClients == {c0, c1, c2, c3}
MClc == (0 :> c0) @@ (1 :> c1) @@ (2 :> c2) @@ (3 :> c3)
=============================================================================
