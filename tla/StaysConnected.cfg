SPECIFICATION AllSpec
CONSTANTS
  Threads = {t1, t2, t3}
  Children = {c1, c2}
  Capacity <- TwoSlots
  MaxCalls <- FourCalls
  Pair = {t1, t2}
  Inners = {i1, i2}
  Underlying = {u1}
  Observers = {o1, o2}
  Nobody = Nobody
  HandleCalls = 5
  MaxWrappers = 3
INVARIANT StaysConnected
CHECK_DEADLOCK FALSE
