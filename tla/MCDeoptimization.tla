--------------------------- MODULE MCDeoptimization ---------------------------
(* The history of deoptimized code, for TLC. *)
EXTENDS MCParallelRecompilation, Deoptimization
=============================================================================
