\* Four cells: the dummy node, two records in flight and one cell being
\* enqueued, so that freed cells are reused while the consumer holds others.
CONSTANTS
  Node = {n1, n2, n3, n4}
  Record = {a, b}
  NoRecord = NoRecord
  Null = Null
SPECIFICATION Spec
INVARIANTS TypeOK NoUseAfterFree NoLeak PeekedIsDequeued
PROPERTIES ImplementsFifo EnqueueReturns
CHECK_DEADLOCK TRUE
