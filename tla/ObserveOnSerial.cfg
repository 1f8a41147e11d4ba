SPECIFICATION FairSpec
CONSTANTS
  MaxTime = 3
  MaxEmits = 2
  Period = 1
PROPERTIES ObserveOnSerial
CHECK_DEADLOCK FALSE
