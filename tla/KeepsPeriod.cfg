SPECIFICATION Spec
CONSTANTS
  Tasks = {a, b}
  NoTask = NoTask
  Dispatchers = {d, e}
  ThreadDelays <- AtOnceOrLater
  Milli = 2
  MaxTime = 2
  MaxRuns = 3
  MaxDelay = 1
  ShortTime = 1
  FewRuns = 2
INVARIANT KeepsPeriod
CHECK_DEADLOCK FALSE
