------------------------------- MODULE MCRpc -------------------------------
(* Small instances of Rpc for TLC.                                         *)
EXTENDS Rpc

(* Threads, workers and connections are interchangeable.                   *)
Symmetry == Permutations(Threads) \cup Permutations(Workers) \cup Permutations(Conns)
=============================================================================
