SPECIFICATION Spec
CONSTANTS
  array = array
  object = object
  cell = cell
  None = None
  Filler = Filler
  Obj = {array, object, cell}
  Large = {array}
  Cell = {cell}
  Size <- Sizes
  Chunk = 1
  Capacity = 1
INVARIANTS TypeOK TriColor GreyIsQueued ReachableSurvives
