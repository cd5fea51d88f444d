\* Two functions with one closure each, no debugger, a queue of two.
SPECIFICATION NoDebuggerSpec
CONSTANTS
  f1 = f1
  f2 = f2
  s1 = s1
  s2 = s2
  None = None
  Closure = {f1, f2}
  Shared = {s1, s2}
  SharedOf <- OneClosureEach
  OptCode = {o1, o2, o3, o4, o5}
  QueueLimit = 2
  Delay = TRUE
INVARIANTS
  QueueLengthExact NoDequeueFromEmpty PendingMeansMarked AssertionsHold DrainedOnStop OptimizedListExact
PROPERTIES
  QueuedIsCompiled InstallLoopEnds StopReturns
