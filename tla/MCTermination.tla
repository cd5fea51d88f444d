---------------------------- MODULE MCTermination ----------------------------
(* Termination on a small instance. *)
EXTENDS Termination, TLC

(* Threads are interchangeable. *)
Symmetry == Permutations(Thread)
=============================================================================
