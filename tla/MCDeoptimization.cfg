\* Two closures of one function, a debugger, a queue of one, and the history of deoptimized code.
SPECIFICATION HistorySpec
CONSTANTS
  f1 = f1
  f2 = f2
  s1 = s1
  s2 = s2
  None = None
  Closure = {f1, f2}
  Shared = {s1}
  SharedOf <- TwoClosuresOfOne
  OptCode = {o1, o2, o3, o4}
  QueueLimit = 1
  Delay = FALSE
SYMMETRY ClosureSymmetry
INVARIANTS
  TypeOK MarkedMeansPending OptimizedListComplete
PROPERTIES
  DeoptimizedCodeGainsNoClosure
