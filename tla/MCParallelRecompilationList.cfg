\* OSR optimizes a closure between the compiler thread's ASSERT and its store.
SPECIFICATION NoDebuggerSpec
CONSTANTS
  f1 = f1
  f2 = f2
  s1 = s1
  s2 = s2
  None = None
  Closure = {f1, f2}
  Shared = {s1}
  SharedOf <- TwoClosuresOfOne
  OptCode = {o1, o2, o3, o4}
  QueueLimit = 2
  Delay = FALSE
INVARIANTS
  AddsUnlisted
