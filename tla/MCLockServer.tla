---------------------------- MODULE MCLockServer ----------------------------
(* A small instance of LockServer for TLC.                                 *)
EXTENDS LockServer, TLC

CONSTANTS t1, t2, t3, c1, c2, a, b

MCThreads == {t1, t2, t3}
MCClients == {c1, c2}
MCLockIds == {a, b}
=============================================================================
