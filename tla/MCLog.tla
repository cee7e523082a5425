------------------------------- MODULE MCLog -------------------------------
(* Instance of Log for TLC: threads and blocks are interchangeable. *)
EXTENDS Log, TLC

Symmetric == Permutations(Thread) \cup Permutations(Block)
=============================================================================
