---------------------------- MODULE Deoptimization ----------------------------
(* Parallel recompilation with the history of the code objects that have     *)
(* been deoptimized.                                                         *)
EXTENDS ParallelRecompilation

VARIABLE deoptimized    \* deoptimized code objects something still refers to

historyVars == <<vars, deoptimized>>

Referenced == {code[f] : f \in Closure} \cup {codeMap[s] : s \in Shared}

\* The code objects that this step deoptimizes.
Deoptimized ==
  {code[f] : f \in {g \in Closure : IsOptimized(g) /\ NotifyDeoptimized(g)}}
    \cup {code[f] : f \in {g \in optimized : breakPoints = "none" /\ breakPoints' = "set"}}

HistoryInit == Init /\ deoptimized = {}

HistoryNext == Next /\ deoptimized' = (deoptimized \cup Deoptimized) \cap Referenced'

HistorySpec == HistoryInit /\ [][HistoryNext]_historyVars /\ Fairness

\* Code that has been deoptimized once is given to no closure again, not to
\* another one of its function either, although the optimized code map hands
\* code out long after it was compiled.
DeoptimizedCodeGainsNoClosure ==
  [][\A c \in deoptimized :
       {f \in Closure : code'[f] = c} \subseteq {f \in Closure : code[f] = c}]_historyVars
=============================================================================
