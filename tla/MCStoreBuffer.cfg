\* The sizes keep the proportions they have where pointers take 4 bytes.
SPECIFICATION Spec
CONSTANTS
  p1 = p1
  p2 = p2
  b1 = b1
  b2 = b2
  None = None
  Slot = {11, 12, 13, 14, 15}
  Page = {p1, p2}
  PageOf <- Pages
  Freeable = {p2}
  Bucket = {b1}
  Hash1 <- Low
  Hash2 <- Low
  BufferSize = 2
  InitialLimit = 2
  Doublings = 1
  CheckedSpace = 2
  PromotedSpace = 1
  Share = 1
  Samples <- Table
INVARIANTS TypeOK SlotsRemembered NoStaleEntries ScannedOnce
