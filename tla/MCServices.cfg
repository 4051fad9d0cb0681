CONSTANTS
  Viewers = {v1}
  Cancels = {k1, k2}
  Cells = {x1, x2}
  MaxNews = 1
  MaxStreams = 3
  MaxRuns = 2
  MaxCrashes = 1
  MayFail = TRUE
  Reuse = FALSE
SPECIFICATION Spec
CHECK_DEADLOCK FALSE
INVARIANT RunsSettle
INVARIANT DeletedIsNotDriven
PROPERTY PageNeverGoesBack
PROPERTY EveryPageLearnsTheEnd
PROPERTY CancelIsHeard
PROPERTY NoResurrection
