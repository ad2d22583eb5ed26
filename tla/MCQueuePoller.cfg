\* Failing calls of the queue, handlers that may never return, Stop, crashes.
CONSTANTS
  Jobs = {j1, j2}
  Workers = {w1, w2}
  BatchSize = 2
  Buffer = 1
  Flaky = TRUE
  EarlyTimeout = FALSE
  MayCrash = TRUE
  MayStop = TRUE
SPECIFICATION FairSpec
INVARIANTS TypeOK NoJobLost OneHolder
PROPERTIES StopEnds EveryJobDone
CHECK_DEADLOCK FALSE
