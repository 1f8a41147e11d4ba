SPECIFICATION FairSpec
CONSTANTS
  MaxTime = 3
  MaxEmits = 2
  Period = 1
INVARIANTS TypeOK Shifts OnlyAfterQuiet
PROPERTIES OneSideEnds FollowsContract NothingForgotten
CHECK_DEADLOCK FALSE
