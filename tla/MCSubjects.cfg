SPECIFICATION Spec
CONSTANTS
  Emitters = {e1, e2}
  Observers = {o1, o2}
  Newcomers = {n1}
  Terminals = {"completed", "error"}
  NoOne = NoOne
  MaxCalls = 3
  Limit = 2
  WriterCalls = 4
  MaxReads = 2
SYMMETRY Symmetry
INVARIANTS TypeOK SameOrder ReachesEverybodyOnce StoredThenLive NobodyMissesTheEnd
PROPERTY FollowsContract
CHECK_DEADLOCK FALSE
