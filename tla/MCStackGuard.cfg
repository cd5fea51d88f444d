\* Two threads, each with a stack limit it may set; every kind of request.
SPECIFICATION Spec
CONSTANTS
  t1 = t1
  t2 = t2
  None = None
  TERMINATE = TERMINATE
  PREEMPT = PREEMPT
  GC_REQUEST = GC_REQUEST
  DEBUGBREAK = DEBUGBREAK
  FULL_DEOPT = FULL_DEOPT
  Thread = {t1, t2}
  Flag = {TERMINATE, PREEMPT, DEBUGBREAK}
  Cancelable = {TERMINATE, DEBUGBREAK}
  StackAddress <- Stacks
  DefaultLimit <- Defaults
  ChosenLimits <- Deeper
  kIllegalLimit = 100
  kInterruptLimit = 200
  MaxNesting = 1
INVARIANTS TypeOK RequestsTrap TrapsHaveRequests OwnStackLimit
PROPERTIES TerminationTakesEffect
