--------------------------- MODULE MCThreadManager ---------------------------
(* ThreadManager on a small instance.                                      *)
EXTENDS ThreadManager, TLC

(* Threads are interchangeable. *)
Symmetry == Permutations(Thread)
=============================================================================
