SPECIFICATION ConcatSpec
CONSTANTS
  Inners = {i1, i2, i3}
  Base = base
  NoOne = NoOne
  MaxEmits = 1
INVARIANTS OneAtATime InnerFindsProcessing
CHECK_DEADLOCK FALSE
