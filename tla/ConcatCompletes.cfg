SPECIFICATION ConcatSpec
CONSTANTS
  Inners = {i1, i2}
  Base = base
  NoOne = NoOne
  MaxEmits = 1
INVARIANT CompletesAfterAll
CHECK_DEADLOCK FALSE
