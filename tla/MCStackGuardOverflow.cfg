\* Another thread takes a termination request back while the check that saw it traps.
SPECIFICATION Spec
CONSTANTS
  t1 = t1
  t2 = t2
  None = None
  TERMINATE = TERMINATE
  PREEMPT = PREEMPT
  GC_REQUEST = GC_REQUEST
  DEBUGBREAK = DEBUGBREAK
  FULL_DEOPT = FULL_DEOPT
  Thread = {t1, t2}
  Flag = {TERMINATE, PREEMPT, DEBUGBREAK}
  Cancelable = {TERMINATE}
  StackAddress <- Stacks
  DefaultLimit <- Defaults
  ChosenLimits <- NoChoice
  kIllegalLimit = 100
  kInterruptLimit = 200
  MaxNesting = 2
INVARIANTS OverflowIsReal
