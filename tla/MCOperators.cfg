SPECIFICATION AllFairSpec
CONSTANTS
  MaxAttempts = 4
  MaxEmits = 1
  MaxCount = 3
  Width = 4
  Threads = {0, 1, 2, 3, 4}
  Links <- DefLinks
  NumSources = 2
  SourceEmits = 2
  NumWindows = 2
  WindowSize = 2
  WindowValues <- TwoWindows
INVARIANTS TypesOK OneAtATime DeliversAsDefined EndsAsDefined NothingLeaks
PROPERTIES FollowsContract WhatIsDueComes
CHECK_DEADLOCK FALSE
