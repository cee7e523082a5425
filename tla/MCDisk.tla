------------------------------- MODULE MCDisk -------------------------------
(* Disk for TLC: threads, blocks and contents are interchangeable. *)
EXTENDS Disk, TLC

Sym == Permutations(Thread) \cup Permutations(Home) \cup Permutations(Block \ Home) \cup Permutations(Val)
=============================================================================
