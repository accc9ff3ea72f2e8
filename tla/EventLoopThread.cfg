SPECIFICATION FairSpec
CONSTANTS
  Owner = owner
  NoTask = NoTask
  Tasks = {t1, t2}
  MaxCounter = 2
CHECK_DEADLOCK FALSE
PROPERTIES
  StartLoopReturns
  ThreadRunsWork
  JoinsUnlessForgotten
