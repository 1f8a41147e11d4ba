SPECIFICATION AllFairSpec
CONSTANTS
  Inners = {i1, i2}
  Base = base
  NoOne = NoOne
  MaxEmits = 2
INVARIANTS CompletesLast NothingStays OneLive
PROPERTIES FollowsContract CompletionPropagates SwitchCompletes
CHECK_DEADLOCK FALSE
