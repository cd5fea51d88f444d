----------------------- MODULE MCParallelRecompilation -----------------------
(* Two closures, of one function or of two, for TLC. *)
EXTENDS ParallelRecompilation, TLC

CONSTANTS f1, f2, s1, s2

\* Two functions, one closure each.
OneClosureEach == f1 :> s1 @@ f2 :> s2

\* Two closures of one function.
TwoClosuresOfOne == f1 :> s1 @@ f2 :> s1

\* They are alike then.  (For runs without liveness.)
ClosureSymmetry == Permutations(Closure)
=============================================================================
